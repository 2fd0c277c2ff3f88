---------------------------- MODULE OffsetListing ----------------------------
(***************************************************************************)
(* list_descriptors of the two Confluence connectors: pages of a search,   *)
(* asked for by their offset in a result that changes between the          *)
(* requests.                                                               *)
(***************************************************************************)
EXTENDS Naturals, SequencesExt

CONSTANTS
  Refs,        \* pages or attachments
  PageSize,    \* CONNECTOR_SYNC_PAGE_SIZE
  MaxItems,    \* CONNECTOR_SYNC_MAX_ITEMS_PER_RUN
  MaxChanges   \* bound: how often the result changes

(* What the constants are, assumed where the module is instantiated       *)
ConstantsOK ==
  /\ IsFiniteSet(Refs)
  /\ PageSize \in Nat \ {0}
  /\ MaxItems \in Nat \ {0}
  /\ MaxChanges \in Nat

VARIABLES
  results,  \* external: what the search matches, in its order
  kept,     \* history: items matched ever since the listing began
  met,      \* history: items matched at some time since then
  start,    \* offset of the next page
  out,      \* descriptors
  answer,   \* what the call returned
  changes,  \* how often the result changed
  removed   \* history: how many of these were removals

vars == <<results, kept, met, start, out, answer, changes, removed>>

Init ==
  /\ results \in SetToAllKPermutations(Refs)
  /\ kept = ToSet(results) /\ met = ToSet(results)
  /\ start = 0 /\ out = <<>> /\ answer = "pending"
  /\ changes = 0 /\ removed = 0

Changed ==
  /\ changes < MaxChanges /\ changes' = changes + 1
  /\ kept' = kept \cap ToSet(results')
  /\ met' = met \cup ToSet(results')
  /\ UNCHANGED <<start, out, answer>>

(* An item is created, anywhere in the order of the search.                *)
AddItem(r, i) ==
  /\ r \notin ToSet(results)
  /\ results' = InsertAt(results, i, r)
  /\ Changed /\ UNCHANGED removed

RemoveItem(i) ==
  /\ results' = RemoveAt(results, i)
  /\ Changed /\ removed' = removed + 1

(* s[from:to]                                                              *)
Slice(s, from, to) == SubSeq(s, from + 1, Min({to, Len(s)}))

(* list_pages(start, limit)                                                *)
Page == Slice(results, start, start + PageSize)

(* A page, as much of it as the cap leaves room for.                       *)
Advance ==
  /\ answer = "pending" /\ Len(out) < MaxItems
  /\ Page # <<>>
  /\ out' = Slice(out \o Page, 0, MaxItems)
  /\ start' = start + PageSize
  /\ UNCHANGED <<results, kept, met, answer, changes, removed>>

(* Faulty variant: an empty page is asked for again.                       *)
FaultyExhausted ==
  /\ answer = "pending" /\ Len(out) < MaxItems
  /\ Page = <<>>
  /\ UNCHANGED vars

(* Faulty variant: a page that is not full is taken for the last, before   *)
(* its entries are read.                                                   *)
FaultyLastPage ==
  /\ answer = "pending" /\ Len(out) < MaxItems
  /\ Len(Page) < PageSize
  /\ answer' = "complete"
  /\ UNCHANGED <<results, kept, met, start, out, changes, removed>>

Exhausted ==
  /\ answer = "pending" /\ Len(out) < MaxItems
  /\ Page = <<>>
  /\ answer' = "complete"
  /\ UNCHANGED <<results, kept, met, start, out, changes, removed>>

Capped ==
  /\ answer = "pending" /\ Len(out) >= MaxItems
  /\ answer' = "partial"
  /\ UNCHANGED <<results, kept, met, start, out, changes, removed>>

(* The search request raises, and so does list_descriptors.                *)
RequestFails ==
  /\ answer = "pending" /\ answer' = "failed"
  /\ UNCHANGED <<results, kept, met, start, out, changes, removed>>

Step == Advance \/ Exhausted \/ Capped

Next ==
  \/ \E r \in Refs, i \in 1 .. Len(results) + 1 : AddItem(r, i)
  \/ \E i \in DOMAIN results : RemoveItem(i)
  \/ Step
  \/ RequestFails

Spec == Init /\ [][Next]_vars

-----------------------------------------------------------------------------
TypeOK ==
  /\ results \in Seq(Refs) /\ IsInjective(results)
  /\ kept \subseteq ToSet(results) /\ ToSet(results) \subseteq met
  /\ start \in Nat
  /\ out \in Seq(Refs) /\ Len(out) <= MaxItems
  /\ answer \in {"pending", "complete", "partial", "failed"}

(* A complete listing misses at most as many items as were removed under   *)
(* it, and none if only new ones came: an item moved back by a new one is  *)
(* met twice, one moved forward by a removal may be passed over.           *)
MissesFew ==
  answer = "complete" =>
    /\ ToSet(out) \subseteq met
    /\ Cardinality(kept \ ToSet(out)) <= removed

(* Documentation: a listing that is not provably authoritative is returned *)
(* as incomplete, so a complete one has every item that was there.         *)
CompleteIsAuthoritative == answer = "complete" => kept \subseteq ToSet(out)
=============================================================================
