---------------------------- MODULE TokenListing ----------------------------
(***************************************************************************)
(* list_descriptors of the S3 connector: pages of list_objects_v2, each    *)
(* continuing after the last key of the one before, of a bucket that       *)
(* changes between the requests.                                           *)
(***************************************************************************)
EXTENDS SortedPrefix

CONSTANTS
  Refs,        \* object keys, numbered in the order of their names
  Ingestible,  \* those with an allowed extension and size
  PageSize,    \* CONNECTOR_SYNC_PAGE_SIZE
  MaxItems,    \* CONNECTOR_SYNC_MAX_ITEMS_PER_RUN
  MaxChanges   \* bound: how often the bucket changes

ASSUME ListingAssumption ==
  /\ Refs \subseteq Nat \ {0} /\ IsFiniteSet(Refs)
  /\ Ingestible \subseteq Refs
  /\ PageSize \in Nat \ {0}
  /\ MaxItems \in Nat \ {0}
  /\ MaxChanges \in Nat

VARIABLES
  catalog,  \* external: the objects in the bucket
  kept,     \* history: objects there ever since the listing began
  met,      \* history: objects there at some time since then
  token,    \* the last key of the page before (0: None)
  out,      \* descriptors
  answer,   \* what the call returned
  changes   \* how often the bucket changed

vars == <<catalog, kept, met, token, out, answer, changes>>

Init ==
  /\ catalog \in SUBSET Refs
  /\ kept = catalog /\ met = catalog
  /\ token = 0 /\ out = {} /\ answer = "pending" /\ changes = 0

(* An object is added or removed.                                          *)
Change(r) ==
  /\ changes < MaxChanges /\ changes' = changes + 1
  /\ catalog' = IF r \in catalog THEN catalog \ {r} ELSE catalog \cup {r}
  /\ kept' = kept \cap catalog'
  /\ met' = met \cup catalog'
  /\ UNCHANGED <<token, out, answer>>

(* list_objects_v2: the next page, in the order of keys                    *)
Rest  == {r \in catalog : r > token}
Page  == FirstN(Rest, PageSize)

(* Faulty variant: the extension is not checked.                           *)
FaultyFound == out \cup Page

(* The descriptors after this page                                         *)
Found == out \cup (Page \cap Ingestible)

(* Faulty variant: the truncated listing passes for a complete one.        *)
FaultyCapped ==
  /\ answer = "pending"
  /\ Cardinality(Found) >= MaxItems
  /\ out' = FirstN(Found, MaxItems)
  /\ answer' = "complete"
  /\ UNCHANGED <<catalog, kept, met, token, changes>>

(* The cap is reached, be it with the last page.                           *)
Capped ==
  /\ answer = "pending"
  /\ Cardinality(Found) >= MaxItems
  /\ out' = FirstN(Found, MaxItems)
  /\ answer' = "partial"
  /\ UNCHANGED <<catalog, kept, met, token, changes>>

(* not IsTruncated                                                         *)
Exhausted ==
  /\ answer = "pending"
  /\ Cardinality(Found) < MaxItems
  /\ Page = Rest
  /\ out' = Found
  /\ answer' = "complete"
  /\ UNCHANGED <<catalog, kept, met, token, changes>>

(* IsTruncated: go on after the last key of this page.                     *)
Continue ==
  /\ answer = "pending"
  /\ Cardinality(Found) < MaxItems
  /\ Page # Rest
  /\ out' = Found
  /\ token' \in Page /\ \A r \in Page : r <= token'
  /\ UNCHANGED <<catalog, kept, met, answer, changes>>

(* list_objects_v2 raises, and so does list_descriptors.                   *)
RequestFails ==
  /\ answer = "pending" /\ answer' = "failed"
  /\ UNCHANGED <<catalog, kept, met, token, out, changes>>

Step == Capped \/ Exhausted \/ Continue

Next == (\E r \in Refs : Change(r)) \/ Step \/ RequestFails

Spec == Init /\ [][Next]_vars

-----------------------------------------------------------------------------
TypeOK ==
  /\ catalog \subseteq Refs /\ kept \subseteq catalog /\ catalog \subseteq met
  /\ met \subseteq Refs
  /\ token \in Refs \cup {0}
  /\ out \subseteq Ingestible
  /\ answer \in {"pending", "complete", "partial", "failed"}
  /\ changes \in Nat

(* What the listing has passed: objects that are still to come lie after   *)
(* the token.                                                              *)
Passed ==
  /\ out \subseteq met
  /\ answer = "pending" =>
       \A r \in kept \cap Ingestible : r <= token => r \in out
  /\ answer = "complete" => kept \cap Ingestible \subseteq out

Listing == INSTANCE AuthoritativeListing WITH
  Refs    <- Ingestible,
  catalog <- catalog \cap Ingestible,
  kept    <- kept \cap Ingestible,
  met     <- met \cap Ingestible,
  listed  <- IF answer \in {"complete", "partial"} THEN out ELSE {}

(* The S3 listing keeps the contract of an authoritative one, however the  *)
(* bucket changes between its pages.                                       *)
Authoritative == Listing!Spec
=============================================================================
