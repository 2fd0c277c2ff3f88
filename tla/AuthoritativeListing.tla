------------------------ MODULE AuthoritativeListing ------------------------
(***************************************************************************)
(* What ingest_sources_sync relies on when it takes an item that is not in *)
(* a listing for deleted: the contract of SourceConnector.list_descriptors *)
(* for a source that goes on changing while it is listed.                  *)
(***************************************************************************)
CONSTANT Refs

VARIABLES
  catalog,  \* the items of the source
  kept,     \* the items it has had ever since the listing began
  met,      \* the items it has had at some time since then
  listed,   \* the refs of the descriptors returned
  answer    \* "pending", "complete", "partial" (listing_complete false)
            \* or "failed" (an exception)

vars == <<catalog, kept, met, listed, answer>>

Init ==
  /\ catalog \in SUBSET Refs
  /\ kept = catalog /\ met = catalog
  /\ listed = {} /\ answer = "pending"

Change ==
  /\ catalog' \in SUBSET Refs
  /\ kept' = kept \cap catalog'
  /\ met' = met \cup catalog'
  /\ UNCHANGED <<listed, answer>>

Return(refs, result) ==
  /\ answer = "pending"
  /\ refs \subseteq met
  /\ result = "complete" => kept \subseteq refs
  /\ listed' = refs /\ answer' = result
  /\ UNCHANGED <<catalog, kept, met>>

Raise ==
  /\ answer = "pending" /\ answer' = "failed"
  /\ UNCHANGED <<catalog, kept, met, listed>>

Next ==
  \/ Change
  \/ \E refs \in SUBSET Refs, result \in {"complete", "partial"} :
       Return(refs, result)
  \/ Raise

Spec == Init /\ [][Next]_vars
=============================================================================
