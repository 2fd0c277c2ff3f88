----------------------------- MODULE WalkListing -----------------------------
(***************************************************************************)
(* list_descriptors of the file catalogue connector: os.walk over a tree   *)
(* that changes under it, then the cut at the cap.                         *)
(***************************************************************************)
EXTENDS SortedPrefix

CONSTANTS
  Refs,        \* files, numbered in the order of their paths
  Dirs,        \* directories of the tree
  DirOf,       \* the directory of each file
  Allowed,     \* the files with an allowed extension
  TooLarge,    \* the files above FILE_CATALOG_MAX_FILE_MB
  MaxItems,    \* CONNECTOR_SYNC_MAX_ITEMS_PER_RUN
  MaxChanges,  \* bound: how often the tree changes
  MaxErrors    \* bound: directories that cannot be read

(* What the constants are, assumed where the module is instantiated       *)
ConstantsOK ==
  /\ Refs \subseteq Nat /\ IsFiniteSet(Refs)
  /\ DirOf \in [Refs -> Dirs]
  /\ Allowed \subseteq Refs /\ TooLarge \subseteq Refs
  /\ MaxItems \in Nat \ {0}
  /\ MaxChanges \in Nat /\ MaxErrors \in Nat

VARIABLES
  catalog,  \* external: the files in the tree
  kept,     \* history: files there ever since the listing began
  met,      \* history: files there at some time since then
  dirs,     \* directories os.walk has not come to
  names,    \* file names it has yielded and the loop has not looked at
  out,      \* descriptors
  answer,   \* what the call returned
  changes,  \* how often the tree changed
  unread    \* history: directories that could not be read

vars == <<catalog, kept, met, dirs, names, out, answer, changes, unread>>

Init ==
  /\ catalog \in SUBSET Refs
  /\ kept = catalog /\ met = catalog
  /\ dirs = Dirs /\ names = {} /\ out = {} /\ answer = "pending"
  /\ changes = 0 /\ unread = {}

(* A file is written or removed.                                           *)
Change(r) ==
  /\ changes < MaxChanges /\ changes' = changes + 1
  /\ catalog' = IF r \in catalog THEN catalog \ {r} ELSE catalog \cup {r}
  /\ kept' = kept \cap catalog'
  /\ met' = met \cup catalog'
  /\ UNCHANGED <<dirs, names, out, answer, unread>>

Walking == answer = "pending" /\ names = {} /\ dirs # {}

(* os.walk reads one directory and yields the names in it.                 *)
OpenDir(d) ==
  /\ Walking /\ d \in dirs
  /\ dirs' = dirs \ {d}
  /\ names' = {r \in catalog : DirOf[r] = d}
  /\ UNCHANGED <<catalog, kept, met, out, answer, changes, unread>>

(* os.walk is called without onerror: a directory it cannot read is passed *)
(* over.                                                                   *)
DirUnreadable(d) ==
  /\ Walking /\ d \in dirs
  /\ Cardinality(unread) < MaxErrors /\ unread' = unread \cup {d}
  /\ dirs' = dirs \ {d}
  /\ UNCHANGED <<catalog, kept, met, names, out, answer, changes>>

(* The extension is checked first, stat raises for a file that is gone.    *)
Examine(r) ==
  /\ answer = "pending" /\ r \in names
  /\ names' = names \ {r}
  /\ IF r \in Allowed /\ r \notin catalog
       THEN answer' = "failed" /\ UNCHANGED out
       ELSE /\ UNCHANGED answer
            /\ out' = out \cup ({r} \cap (Allowed \ TooLarge))
  /\ UNCHANGED <<catalog, kept, met, dirs, changes, unread>>

(* Faulty variant: the number returned is compared with the cap, not the   *)
(* number found.                                                           *)
FaultyFinish ==
  /\ answer = "pending" /\ names = {} /\ dirs = {}
  /\ out' = FirstN(out, MaxItems)
  /\ answer' = IF Cardinality(out') <= MaxItems THEN "complete" ELSE "partial"
  /\ UNCHANGED <<catalog, kept, met, dirs, names, changes, unread>>

(* sort, cut, and tell whether anything was cut off                        *)
Finish ==
  /\ answer = "pending" /\ names = {} /\ dirs = {}
  /\ out' = FirstN(out, MaxItems)
  /\ answer' = IF Cardinality(out) <= MaxItems THEN "complete" ELSE "partial"
  /\ UNCHANGED <<catalog, kept, met, dirs, names, changes, unread>>

Step ==
  \/ \E r \in Refs : Examine(r)
  \/ \E d \in Dirs : OpenDir(d) \/ DirUnreadable(d)
  \/ Finish

Next == Step \/ \E r \in Refs : Change(r)

Spec == Init /\ [][Next]_vars

-----------------------------------------------------------------------------
Wanted == Allowed \ TooLarge

TypeOK ==
  /\ catalog \subseteq Refs /\ kept \subseteq catalog /\ catalog \subseteq met
  /\ met \subseteq Refs
  /\ dirs \subseteq Dirs
  /\ names \subseteq met
  /\ out \subseteq Wanted
  /\ answer \in {"pending", "complete", "partial", "failed"}
  /\ changes \in Nat /\ unread \subseteq Dirs

(* Whatever comes and goes in the tree, a complete listing misses only     *)
(* files of directories that were not read.                                *)
MissesOnlyUnread ==
  answer = "complete" =>
    /\ out \subseteq met
    /\ \A r \in (kept \cap Wanted) \ out : DirOf[r] \in unread
=============================================================================
