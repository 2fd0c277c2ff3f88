----------------------------- MODULE SearchMirror -----------------------------
(***************************************************************************)
(* What synchronisation promises: the index follows a catalogue of items   *)
(* that changes by itself.  A step of synchronisation either makes         *)
(* versions searchable, and reports items that failed or are gone, or it   *)
(* confirms items as synchronised, which have to be searchable by then:    *)
(* never both, and nothing becomes unsearchable.                           *)
(*                                                                         *)
(* Queue, workers, transactions, locks and crashes are left to             *)
(* IngestPipeline, which implements this specification.                    *)
(***************************************************************************)
EXTENDS Naturals

CONSTANTS
  Refs,       \* the items
  Contents,   \* what an item can contain
  NoContent,  \* the item is not in its catalogue
  NoHint      \* no checksum is remembered

VARIABLES
  catalog,    \* of each item, its content and how often it changed
  state,      \* what is remembered of each item: source_sync_state
  index       \* the searchable <<item, content>> pairs

vars == <<catalog, state, index>>

Rows == [status : {"none", "success", "failed", "deleted"}, stamp : Nat,
         hint : Contents \cup {NoHint}]

Unknown   == [status |-> "none", stamp |-> 0, hint |-> NoHint]
Tombstone == [status |-> "deleted", stamp |-> 0, hint |-> NoHint]

(* In its catalogue, and never changed                                     *)
Untouched(r) == catalog[r].content # NoContent /\ catalog[r].stamp = 1

Init ==
  /\ catalog \in [Refs -> [content : Contents \cup {NoContent}, stamp : {1}]]
  /\ state = [r \in Refs |-> Unknown]
  /\ index = {}

(* An item is edited, removed or created.                                  *)
Change(r, content) ==
  /\ content # catalog[r].content
  /\ catalog' = [catalog EXCEPT ![r] = [content |-> content,
                                        stamp |-> catalog[r].stamp + 1]]
  /\ UNCHANGED <<state, index>>

(* Versions become searchable, and stay so.  What is remembered of an item *)
(* changes only if it could not be fetched or is taken for gone.  A        *)
(* tombstone holds no stamp and no hint that a later synchronisation could *)
(* take for those of the present content.                                  *)
Publish ==
  /\ UNCHANGED catalog
  /\ index \subseteq index' /\ index' \subseteq Refs \X Contents
  /\ state' \in [Refs -> Rows]
  /\ \A r \in Refs :
       \/ state'[r] = state[r]
       \/ state'[r].status = "failed"
       \/ state'[r] = Tombstone /\ ~Untouched(r)

(* Items are remembered as synchronised: each has a searchable version,    *)
(* and if it has not changed since it was listed, that version is the      *)
(* present one.                                                            *)
Confirm ==
  /\ UNCHANGED <<catalog, index>>
  /\ state' \in [Refs -> Rows]
  /\ \A r \in Refs :
       \/ state'[r] = state[r]
       \/ /\ state'[r].status = "success"
          /\ \E c \in Contents : <<r, c>> \in index
          /\ state'[r].stamp <= catalog[r].stamp
          /\ state'[r].stamp = catalog[r].stamp =>
               <<r, catalog[r].content>> \in index

Next ==
  \/ \E r \in Refs, content \in Contents \cup {NoContent} : Change(r, content)
  \/ Publish
  \/ Confirm

Spec == Init /\ [][Next]_vars
=============================================================================
