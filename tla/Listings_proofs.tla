--------------------------- MODULE Listings_proofs ---------------------------
(***************************************************************************)
(* The three listings, for any source, page size and cap: the one of S3    *)
(* implements the authoritative listing, the other two miss it by no more  *)
(* than MissesFew and MissesOnlyUnread say.                                *)
(***************************************************************************)
EXTENDS MCListings, FiniteSetTheorems, SequenceTheorems, TLAPS

-----------------------------------------------------------------------------
(* TokenListing                                                            *)

LInv == TypeOK /\ Passed

(* The first n of a finite set: a part of it, with all that comes before.  *)
LEMMA FirstNIsPrefix ==
  ASSUME NEW s, IsFiniteSet(s), s \subseteq Nat, NEW n \in Nat
  PROVE  /\ FirstN(s, n) \subseteq s
         /\ \A x \in FirstN(s, n), y \in s : y < x => y \in FirstN(s, n)
<1>1. FirstN(s, n) \subseteq s
  BY DEF FirstN
<1>2. ASSUME NEW x \in FirstN(s, n), NEW y \in s, y < x
      PROVE  y \in FirstN(s, n)
  <2> DEFINE below(z) == {w \in s : w < z}
  <2>1. x \in Nat /\ y \in Nat
    BY <1>1
  <2>2. ASSUME NEW w \in s, w < y PROVE w < x
    <3>1. w \in Nat
      OBVIOUS
    <3> QED
      BY <1>2, <2>2, <2>1, <3>1
  <2>3. below(y) \subseteq below(x)
    BY <2>2
  <2>4. IsFiniteSet(below(x)) /\ IsFiniteSet(below(y))
    BY FS_Subset
  <2>5. Cardinality(below(y)) <= Cardinality(below(x))
    BY <2>3, <2>4, FS_Subset
  <2>6. Cardinality(below(x)) < n
    BY <1>2 DEF FirstN
  <2>7. Cardinality(below(x)) \in Nat /\ Cardinality(below(y)) \in Nat
    BY <2>4, FS_CardinalityType
  <2>8. Cardinality(below(y)) < n
    BY <2>5, <2>6, <2>7
  <2> QED
    BY <2>8 DEF FirstN
<1> QED
  BY <1>1, <1>2

(* A page is a part of what is left, with all that comes before it.        *)
LEMMA PageIsPrefix ==
  ASSUME TypeOK
  PROVE  /\ Rest \subseteq catalog
         /\ Page \subseteq Rest
         /\ \A x \in Page, y \in Rest : y < x => y \in Page
<1>1. Rest \subseteq catalog
  BY DEF Rest
<1>2. IsFiniteSet(Rest) /\ Rest \subseteq Nat
  BY <1>1, FS_Subset, ListingAssumption DEF TypeOK
<1> HIDE DEF Rest
<1> QED
  BY <1>1, <1>2, FirstNIsPrefix, ListingAssumption DEF Page

(* What a page adds: everything kept that lies before its end.             *)
LEMMA FoundType ==
  ASSUME LInv
  PROVE  Found \subseteq Ingestible /\ Found \subseteq met
  BY PageIsPrefix DEF LInv, TypeOK, Passed, Found

LEMMA CappedFound ==
  ASSUME NEW n PROVE FirstN(Found, n) \subseteq Found
  BY DEF FirstN

LEMMA InitLInv == ASSUME Init PROVE LInv
  BY ListingAssumption DEF Init, LInv, TypeOK, Passed

LEMMA ChangeLInv == ASSUME LInv, NEW r \in Refs, Change(r) PROVE LInv'
<1>1. TypeOK'
  BY ListingAssumption DEF LInv, TypeOK, Change
<1>2. Passed'
  BY DEF LInv, TypeOK, Passed, Change
<1> QED
  BY <1>1, <1>2 DEF LInv

LEMMA CappedLInv == ASSUME LInv, Capped PROVE LInv'
  BY FoundType, CappedFound DEF LInv, TypeOK, Passed, Capped

(* Objects kept and not listed so far are among the rest.                  *)
LEMMA KeptIsAhead ==
  ASSUME LInv, answer = "pending", NEW r \in kept \cap Ingestible
  PROVE  r \in out \/ r \in Rest
<1>1. r \in catalog /\ r \in Nat /\ token \in Nat
  BY ListingAssumption DEF LInv, TypeOK
<1>2. CASE r <= token
  BY <1>2 DEF LInv, Passed
<1>3. CASE r > token
  BY <1>1, <1>3 DEF Rest
<1> QED
  BY <1>1, <1>2, <1>3

LEMMA ExhaustedLInv == ASSUME LInv, Exhausted PROVE LInv'
<1>1. TypeOK'
  BY FoundType DEF LInv, TypeOK, Exhausted
<1>2. kept \cap Ingestible \subseteq Found
  BY KeptIsAhead DEF Exhausted, Found
<1>3. Passed'
  BY <1>2, FoundType DEF Passed, Exhausted
<1> QED
  BY <1>1, <1>3 DEF LInv

LEMMA ContinueLInv == ASSUME LInv, Continue PROVE LInv'
<1>1. token' \in Page /\ token' \in Refs /\ token' \in Nat
  BY PageIsPrefix, ListingAssumption DEF LInv, TypeOK, Continue
<1>2. TypeOK'
  BY <1>1, FoundType DEF LInv, TypeOK, Continue
<1>3. ASSUME NEW r \in kept \cap Ingestible, r <= token'
      PROVE  r \in Found
  <2>1. CASE r \in out
    BY <2>1 DEF Found
  <2>2. CASE r \in Rest
    <3>1. r = token' \/ r < token'
      <4>1. r \in Nat
        BY ListingAssumption
      <4> QED
        BY <1>1, <1>3, <4>1
    <3>2. r \in Page
      BY <1>1, <2>2, <3>1, PageIsPrefix DEF LInv
    <3> QED
      BY <3>2 DEF Found
  <2> QED
    BY <2>1, <2>2, KeptIsAhead DEF Continue
<1>4. Passed'
  BY <1>3, FoundType DEF Passed, Continue
<1> QED
  BY <1>2, <1>4 DEF LInv

LEMMA NextLInv == ASSUME LInv, [Next]_vars PROVE LInv'
<1>1. CASE \E r \in Refs : Change(r)
  BY <1>1, ChangeLInv
<1>2. CASE Step
  BY <1>2, CappedLInv, ExhaustedLInv, ContinueLInv DEF Step
<1>3. CASE RequestFails
  BY <1>3 DEF RequestFails, LInv, TypeOK, Passed
<1>4. CASE UNCHANGED vars
  BY <1>4 DEF vars, LInv, TypeOK, Passed
<1> QED
  BY <1>1, <1>2, <1>3, <1>4 DEF Next

-----------------------------------------------------------------------------
(* The refinement: pages are internal, the answer is the step of the       *)
(* authoritative listing.                                                  *)

LEMMA InitRefines == ASSUME Init PROVE Listing!Init
  BY DEF Init, Listing!Init

LEMMA AnswerRefines ==
  ASSUME LInv, LInv', Capped \/ Exhausted PROVE Listing!Next
<1>1. Listing!Return(out', answer')
  BY DEF LInv, TypeOK, Passed, Capped, Exhausted, Listing!Return
<1>2. out' \in SUBSET Ingestible /\ answer' \in {"complete", "partial"}
  BY DEF LInv, TypeOK, Capped, Exhausted
<1> QED
  BY <1>1, <1>2 DEF Listing!Next

LEMMA StepRefines ==
  ASSUME LInv, LInv', [Next]_vars PROVE [Listing!Next]_(Listing!vars)
<1>1. ASSUME NEW r \in Refs, Change(r) PROVE Listing!Change
  BY <1>1 DEF LInv, TypeOK, Change, Listing!Change
<1>2. CASE Capped \/ Exhausted
  BY <1>2, AnswerRefines
<1>3. CASE Continue
  BY <1>3 DEF Continue, Listing!vars
<1>4. CASE RequestFails
  BY <1>4 DEF RequestFails, Listing!Next, Listing!Raise
<1>5. CASE UNCHANGED vars
  BY <1>5 DEF vars, Listing!vars
<1> QED
  BY <1>1, <1>2, <1>3, <1>4, <1>5 DEF Next, Step, Listing!Next

(* Between its first and its last page the bucket may change in any way: a *)
(* listing reported complete has every object that was there all along,    *)
(* and no listing has one that never was.                                  *)
THEOREM TokenListingIsAuthoritative == Spec => Authoritative
<1>1. Init => LInv
  BY InitLInv
<1>2. LInv /\ [Next]_vars => LInv'
  BY NextLInv
<1>3. Spec => []LInv
  BY <1>1, <1>2, PTL DEF Spec
<1>4. Init => Listing!Init
  BY InitRefines
<1>5. LInv /\ LInv' /\ [Next]_vars => [Listing!Next]_(Listing!vars)
  BY StepRefines
<1> QED
  BY <1>3, <1>4, <1>5, PTL DEF Spec, Authoritative, Listing!Spec

-----------------------------------------------------------------------------
(* WalkListing                                                             *)

(* The instance's names for sets of the library                             *)
LEMMA WalkCardinality == ASSUME NEW S PROVE W!Cardinality(S) = Cardinality(S)
  BY DEF W!Cardinality, Cardinality, W!IsFiniteSet, IsFiniteSet

LEMMA WalkFinite == ASSUME NEW S PROVE W!IsFiniteSet(S) <=> IsFiniteSet(S)
  BY DEF W!IsFiniteSet, IsFiniteSet

LEMMA WalkFirstN ==
  ASSUME NEW s, NEW n PROVE W!FirstN(s, n) = FirstN(s, n)
  BY WalkCardinality DEF W!FirstN, FirstN

(* A file that os.walk, or the loop over its names, has still to come to,  *)
(* or that is already in the listing                                       *)
Ahead(r) == r \in wOut \/ r \in names \/ WalkDirOf[r] \in dirs \cup unread

WalkInv ==
  /\ W!TypeOK /\ wOut \subseteq wMet
  /\ wAnswer = "pending" => \A r \in wKept \cap W!Wanted : Ahead(r)
  /\ W!MissesOnlyUnread

LEMMA InitWalkInv == ASSUME W!Init PROVE WalkInv
<1>1. W!TypeOK
  BY MCListingsAssumption DEF W!ConstantsOK, W!Init, W!TypeOK, W!Wanted
<1>2. \A r \in wKept : WalkDirOf[r] \in dirs
  BY MCListingsAssumption DEF W!ConstantsOK, W!Init
<1> QED
  BY <1>1, <1>2 DEF W!Init, WalkInv, Ahead, W!MissesOnlyUnread

LEMMA WalkChange ==
  ASSUME WalkInv, NEW r \in WalkRefs, W!Change(r) PROVE WalkInv'
<1>1. W!TypeOK'
  BY MCListingsAssumption DEF WalkInv, W!TypeOK, W!Change, W!ConstantsOK, W!Wanted
<1>2. wKept' \subseteq wKept /\ wMet \subseteq wMet'
  BY DEF W!Change
<1> QED
  BY <1>1, <1>2 DEF WalkInv, W!Change, Ahead, W!MissesOnlyUnread, W!Wanted

LEMMA WalkOpens ==
  ASSUME WalkInv, NEW d \in WalkDirs, W!OpenDir(d) PROVE WalkInv'
<1>1. W!TypeOK'
  BY DEF WalkInv, W!TypeOK, W!OpenDir, W!Walking, W!Wanted
<1>2. ASSUME NEW r \in wKept \cap W!Wanted PROVE Ahead(r)'
  BY DEF WalkInv, W!TypeOK, W!OpenDir, W!Walking, Ahead
<1> QED
  BY <1>1, <1>2 DEF WalkInv, W!OpenDir, W!Walking, W!MissesOnlyUnread, W!Wanted

LEMMA WalkPassesOver ==
  ASSUME WalkInv, NEW d \in WalkDirs, W!DirUnreadable(d) PROVE WalkInv'
<1>1. W!TypeOK'
  BY DEF WalkInv, W!TypeOK, W!DirUnreadable, W!Walking, W!Wanted
<1>2. ASSUME NEW r \in wKept \cap W!Wanted PROVE Ahead(r)'
  BY DEF WalkInv, W!DirUnreadable, W!Walking, Ahead
<1> QED
  BY <1>1, <1>2
  DEF WalkInv, W!DirUnreadable, W!Walking, W!MissesOnlyUnread, W!Wanted

LEMMA WalkExamines ==
  ASSUME WalkInv, NEW r \in WalkRefs, W!Examine(r) PROVE WalkInv'
<1>1. W!TypeOK'
  BY DEF WalkInv, W!TypeOK, W!Examine, W!Wanted
<1>2. wOut' \subseteq wMet'
  BY DEF WalkInv, W!TypeOK, W!Examine
<1>3. ASSUME wAnswer' = "pending", NEW q \in wKept \cap W!Wanted
      PROVE  Ahead(q)'
  BY <1>3 DEF WalkInv, W!Examine, Ahead, W!Wanted
<1>4. wAnswer' # "complete"
  BY DEF W!Examine
<1> QED
  BY <1>1, <1>2, <1>3, <1>4 DEF WalkInv, W!Examine, W!MissesOnlyUnread, W!Wanted

(* Nothing is cut off a listing with no more items than the cap.           *)
LEMMA FirstNIsAll ==
  ASSUME NEW s, IsFiniteSet(s), s \subseteq Nat, NEW n \in Nat,
         Cardinality(s) <= n
  PROVE  FirstN(s, n) = s
<1>1. ASSUME NEW x \in s PROVE Cardinality({y \in s : y < x}) < n
  <2> DEFINE below == {y \in s : y < x}
  <2>1. x \in s \ below /\ below \in SUBSET s
    BY <1>1
  <2> HIDE DEF below
  <2>2. IsFiniteSet(below) /\ Cardinality(below) <= Cardinality(s)
          /\ Cardinality(below) # Cardinality(s)
    BY <2>1, FS_Subset
  <2>3. Cardinality(s) \in Nat /\ Cardinality(below) \in Nat
    BY <2>2, FS_CardinalityType
  <2>4. Cardinality(below) < n
    BY <2>2, <2>3
  <2> QED
    BY <2>4 DEF below
<1> QED
  BY <1>1 DEF FirstN

LEMMA WalkFinishes == ASSUME WalkInv, W!Finish PROVE WalkInv'
<1>1. wOut' \subseteq wOut
  BY WalkFirstN DEF W!Finish, FirstN
<1>2. W!TypeOK'
  BY <1>1 DEF WalkInv, W!TypeOK, W!Finish, W!Wanted
<1>3. ASSUME wAnswer' = "complete"
      PROVE  \A r \in (wKept \cap W!Wanted) \ wOut' : WalkDirOf[r] \in unread
  <2>1. Cardinality(wOut) <= WalkMaxItems
    BY <1>3, WalkCardinality DEF W!Finish
  <2>2. wOut \subseteq WalkRefs
    BY MCListingsAssumption DEF WalkInv, W!TypeOK, W!Wanted, W!ConstantsOK
  <2>3. IsFiniteSet(wOut) /\ wOut \subseteq Nat /\ WalkMaxItems \in Nat
    BY <2>2, FS_Subset, WalkFinite, MCListingsAssumption DEF W!ConstantsOK
  <2>4. wOut' = wOut
    BY <2>1, <2>3, FirstNIsAll, WalkFirstN DEF W!Finish
  <2> QED
    BY <2>4 DEF WalkInv, W!Finish, Ahead
<1> QED
  BY <1>1, <1>2, <1>3 DEF WalkInv, W!Finish, W!MissesOnlyUnread, W!Wanted

LEMMA NextWalkInv ==
  ASSUME WalkInv, W!Next \/ UNCHANGED walkVars PROVE WalkInv'
<1>1. CASE W!Step
  BY <1>1, WalkExamines, WalkOpens, WalkPassesOver, WalkFinishes DEF W!Step
<1>2. CASE \E r \in WalkRefs : W!Change(r)
  BY <1>2, WalkChange
<1>3. CASE UNCHANGED walkVars
  BY <1>3
  DEF walkVars, WalkInv, W!TypeOK, W!Wanted, Ahead, W!MissesOnlyUnread
<1> QED
  BY <1>1, <1>2, <1>3 DEF W!Next

-----------------------------------------------------------------------------
(* OffsetListing                                                           *)

(* The instance's names for operators of the library                       *)
LEMMA OffsetNames ==
  ASSUME NEW s
  PROVE  /\ O!ToSet(s) = ToSet(s)
         /\ O!IsInjective(s) <=> IsInjective(s)
         /\ O!Cardinality(s) = Cardinality(s)
         /\ O!IsFiniteSet(s) <=> IsFiniteSet(s)
<1>1. O!ToSet(s) = ToSet(s) /\ (O!IsInjective(s) <=> IsInjective(s))
  BY DEF O!ToSet, ToSet, O!IsInjective, IsInjective
<1>2. O!Cardinality(s) = Cardinality(s)
  BY DEF O!Cardinality, Cardinality, O!IsFiniteSet, IsFiniteSet
<1>3. O!IsFiniteSet(s) <=> IsFiniteSet(s)
  BY DEF O!IsFiniteSet, IsFiniteSet
<1> QED
  BY <1>1, <1>2, <1>3

(* An item inserted: those from its place on move back by one.             *)
LEMMA Inserted ==
  ASSUME NEW s \in Seq(OffsetRefs), NEW i \in 1..Len(s) + 1, NEW e \in OffsetRefs,
         NEW t, t = O!InsertAt(s, i, e)
  PROVE  /\ t \in Seq(OffsetRefs) /\ Len(t) = Len(s) + 1
         /\ \A j \in 1..Len(s) + 1 :
              t[j] = IF j < i THEN s[j] ELSE IF j = i THEN e ELSE s[j - 1]
<1> DEFINE p == SubSeq(s, 1, i - 1)
           q == SubSeq(s, i, Len(s))
<1>1. i \in Nat \ {0} /\ i <= Len(s) + 1 /\ Len(s) \in Nat
  OBVIOUS
<1>2. p \in Seq(OffsetRefs) /\ Len(p) = i - 1 /\ \A j \in 1..i - 1 : p[j] = s[j]
  BY <1>1
<1>3. q \in Seq(OffsetRefs) /\ Len(q) = Len(s) + 1 - i
        /\ \A j \in 1..Len(s) + 1 - i : q[j] = s[i + j - 1]
  BY <1>1
<1>4. O!InsertAt(s, i, e) = (p \o <<e>>) \o q
  BY DEF O!InsertAt
<1> HIDE DEF p, q
<1>5. (p \o <<e>>) \in Seq(OffsetRefs) /\ Len(p \o <<e>>) = i
        /\ \A j \in 1..i : (p \o <<e>>)[j] = IF j < i THEN s[j] ELSE e
  BY <1>1, <1>2
<1>6. \A j \in 1..Len(s) + 1 :
        ((p \o <<e>>) \o q)[j] =
           IF j < i THEN s[j] ELSE IF j = i THEN e ELSE s[j - 1]
  <2> DEFINE f == p \o <<e>>
  <2> HIDE DEF f
  <2>1. f \in Seq(OffsetRefs) /\ Len(f) = i
          /\ \A j \in 1..i : f[j] = IF j < i THEN s[j] ELSE e
    BY <1>5 DEF f
  <2> SUFFICES ASSUME NEW j \in 1..Len(s) + 1
               PROVE  (f \o q)[j] =
                        IF j < i THEN s[j] ELSE IF j = i THEN e ELSE s[j - 1]
    BY DEF f
  <2>2. CASE j <= i
    <3>1. (f \o q)[j] = f[j]
      BY <1>1, <1>3, <2>1, <2>2
    <3> QED
      BY <1>1, <2>1, <2>2, <3>1
  <2>3. CASE j > i
    <3>1. j - i \in 1..Len(q)
      BY <1>1, <1>3, <2>3
    <3>2. (f \o q)[j] = q[j - i]
      BY <1>1, <1>3, <2>1, <2>3
    <3>3. q[j - i] = s[j - 1]
      BY <1>1, <1>3, <2>3, <3>1
    <3> QED
      BY <1>1, <2>3, <3>2, <3>3
  <2>4. j <= i \/ j > i
    BY <1>1
  <2> QED
    BY <2>2, <2>3, <2>4
<1>7. (p \o <<e>>) \o q \in Seq(OffsetRefs) /\ Len((p \o <<e>>) \o q) = Len(s) + 1
  <2> DEFINE f == p \o <<e>>
  <2> HIDE DEF f
  <2>1. f \in Seq(OffsetRefs) /\ Len(f) = i
    BY <1>5 DEF f
  <2>2. f \o q \in Seq(OffsetRefs)
    BY <1>3, <2>1, ConcatProperties
  <2>3. Len(f \o q) = Len(f) + Len(q)
    BY <1>3, <2>1, ConcatProperties
  <2>4. Len(f \o q) = Len(s) + 1
    BY <1>1, <1>3, <2>1, <2>3
  <2> QED
    BY <2>2, <2>4 DEF f
<1> QED
  BY <1>4, <1>6, <1>7

(* An item removed: those behind it move forward by one.                   *)
LEMMA Taken ==
  ASSUME NEW s \in Seq(OffsetRefs), NEW i \in 1..Len(s),
         NEW t, t = O!RemoveAt(s, i)
  PROVE  /\ t \in Seq(OffsetRefs) /\ Len(t) = Len(s) - 1
         /\ \A j \in 1..Len(s) - 1 : t[j] = IF j < i THEN s[j] ELSE s[j + 1]
<1> DEFINE p == SubSeq(s, 1, i - 1)
           q == SubSeq(s, i + 1, Len(s))
<1>1. i \in Nat \ {0} /\ i <= Len(s) /\ Len(s) \in Nat
  OBVIOUS
<1>2. p \in Seq(OffsetRefs) /\ Len(p) = i - 1 /\ \A j \in 1..i - 1 : p[j] = s[j]
  BY <1>1
<1>3. q \in Seq(OffsetRefs) /\ Len(q) = Len(s) - i
        /\ \A j \in 1..Len(s) - i : q[j] = s[i + j]
  BY <1>1
<1>4. O!RemoveAt(s, i) = p \o q
  BY DEF O!RemoveAt
<1> HIDE DEF p, q
<1>5. ASSUME NEW j \in 1..Len(s) - 1
      PROVE  (p \o q)[j] = IF j < i THEN s[j] ELSE s[j + 1]
  <2>1. CASE j < i
    <3>1. (p \o q)[j] = p[j]
      BY <1>1, <1>2, <1>3, <2>1
    <3> QED
      BY <1>1, <1>2, <2>1, <3>1
  <2>2. CASE j >= i
    <3>1. (p \o q)[j] = q[j - (i - 1)] /\ j - (i - 1) \in 1..Len(s) - i
      BY <1>1, <1>2, <1>3, <2>2
    <3>2. q[j - (i - 1)] = s[j + 1]
      BY <1>1, <1>3, <2>2, <3>1
    <3> QED
      BY <1>1, <2>2, <3>1, <3>2
  <2>3. j < i \/ j >= i
    BY <1>1
  <2> QED
    BY <2>1, <2>2, <2>3
<1>6. p \o q \in Seq(OffsetRefs) /\ Len(p \o q) = Len(s) - 1
  <2>1. p \o q \in Seq(OffsetRefs) /\ Len(p \o q) = Len(p) + Len(q)
    BY <1>2, <1>3, ConcatProperties
  <2> QED
    BY <1>1, <1>2, <1>3, <2>1
<1> QED
  BY <1>4, <1>5, <1>6

LEMMA MinOfTwo ==
  ASSUME NEW a \in Int, NEW b \in Int
  PROVE  O!Min({a, b}) = IF a <= b THEN a ELSE b
  BY DEF O!Min

LEMMA Sliced ==
  ASSUME NEW s \in Seq(OffsetRefs), NEW from \in Nat, NEW to \in Nat, from <= to,
         NEW t, t = O!Slice(s, from, to)
  PROVE  /\ t \in Seq(OffsetRefs) /\ Len(t) \in Nat
         /\ to <= Len(s) => Len(t) = to - from
         /\ to > Len(s) => Len(t) = IF Len(s) <= from THEN 0 ELSE Len(s) - from
         /\ \A j \in 1..Len(t) : t[j] = s[from + j]
<1> DEFINE n == IF to <= Len(s) THEN to ELSE Len(s)
<1>1. Len(s) \in Nat /\ n \in Nat /\ n <= Len(s)
  OBVIOUS
<1>2. O!Min({to, Len(s)}) = n
  BY <1>1, MinOfTwo
<1>3. O!Slice(s, from, to) = SubSeq(s, from + 1, n)
  BY <1>2 DEF O!Slice
<1> HIDE DEF n
<1>4. SubSeq(s, from + 1, n) \in Seq(OffsetRefs)
  BY <1>1
<1>5. Len(SubSeq(s, from + 1, n)) = IF n <= from THEN 0 ELSE n - from
  BY <1>1
<1>6. \A j \in 1..Len(SubSeq(s, from + 1, n)) :
        SubSeq(s, from + 1, n)[j] = s[from + j]
  BY <1>1, <1>5
<1> QED
  BY <1>3, <1>4, <1>5, <1>6 DEF n

LEMMA SlicePlaces ==
  ASSUME NEW s \in Seq(OffsetRefs), NEW from \in Nat, NEW to \in Nat, from <= to,
         NEW t, t = O!Slice(s, from, to)
  PROVE  /\ t \in Seq(OffsetRefs)
         /\ \A j \in 1..Len(t) : from + j \in 1..Len(s) /\ t[j] = s[from + j]
         /\ \A j \in 1..Len(s) :
              j > from /\ j <= to => j - from \in 1..Len(t) /\ t[j - from] = s[j]
<1>1. /\ t \in Seq(OffsetRefs) /\ Len(t) \in Nat
      /\ to <= Len(s) => Len(t) = to - from
      /\ to > Len(s) => Len(t) = IF Len(s) <= from THEN 0 ELSE Len(s) - from
      /\ \A j \in 1..Len(t) : t[j] = s[from + j]
  BY SMTT(30), Sliced
<1>2. PICK m \in Nat : m = Len(t)
  BY <1>1
<1>3. PICK n \in Nat : n = Len(s)
  OBVIOUS
<1>4. /\ to <= n => m = to - from
      /\ to > n => m = IF n <= from THEN 0 ELSE n - from
  BY <1>1, <1>2, <1>3
<1>5. \A j \in 1..m : from + j \in 1..n
  BY <1>4
<1>6. \A j \in 1..n :
        j > from /\ j <= to => j - from \in 1..m /\ from + (j - from) = j
  BY <1>4
<1> QED
  BY <1>1, <1>2, <1>3, <1>5, <1>6

LEMMA OffsetConstants ==
  /\ IsFiniteSet(OffsetRefs) /\ OffsetPageSize \in Nat \ {0}
  /\ OffsetMaxItems \in Nat \ {0}
  BY MCListingsAssumption, OffsetNames DEF O!ConstantsOK

(* The items met all the time that are not in the listing although the     *)
(* offset has passed them                                                  *)
Behind == {r \in oKept \ ToSet(oOut) :
             \E i \in DOMAIN results : i <= start /\ results[i] = r}

OffsetTypes ==
  /\ results \in Seq(OffsetRefs)
  /\ \A i, j \in DOMAIN results : results[i] = results[j] => i = j
  /\ oKept \subseteq ToSet(results) /\ ToSet(results) \subseteq oMet
  /\ start \in Nat /\ removed \in Nat
  /\ oOut \in Seq(OffsetRefs) /\ Len(oOut) <= OffsetMaxItems
  /\ ToSet(oOut) \subseteq oMet
  /\ oAnswer \in {"pending", "complete", "partial", "failed"}

OffsetInv ==
  /\ OffsetTypes
  /\ oAnswer = "pending" /\ Len(oOut) < OffsetMaxItems =>
       Cardinality(Behind) <= removed
  /\ oAnswer = "complete" => Cardinality(oKept \ ToSet(oOut)) <= removed

LEMMA KeptIsFinite ==
  ASSUME OffsetTypes
  PROVE  IsFiniteSet(oKept) /\ IsFiniteSet(Behind)
<1>1. oKept \in SUBSET OffsetRefs /\ Behind \in SUBSET OffsetRefs
  BY DEF OffsetTypes, ToSet, Behind
<1> QED
  BY <1>1, OffsetConstants, FS_Subset

LEMMA InitOffsetInv == ASSUME O!Init PROVE OffsetInv
<1>1. PICK S \in SUBSET OffsetRefs : results \in O!SetToSeqs(S)
  BY DEF O!Init, O!SetToAllKPermutations
<1>2. Cardinality(S) \in Nat
  BY OffsetConstants, FS_Subset, FS_CardinalityType
<1>3. results \in [1..Cardinality(S) -> S]
  BY <1>1, OffsetNames DEF O!SetToSeqs
<1>4. results \in Seq(OffsetRefs) /\ DOMAIN results = 1..Cardinality(S)
  BY <1>2, <1>3
<1>5. \A i, j \in DOMAIN results : results[i] = results[j] => i = j
  BY <1>1, <1>3, OffsetNames DEF O!SetToSeqs
<1>6. oKept = ToSet(results) /\ oMet = ToSet(results) /\ start = 0
        /\ oOut = <<>> /\ oAnswer = "pending" /\ removed = 0
  BY OffsetNames DEF O!Init
<1>7. ToSet(oOut) = {}
  BY <1>6 DEF ToSet
<1>8. Behind = {}
  BY <1>4, <1>6, <1>2 DEF Behind
<1>9. OffsetTypes
  BY <1>4, <1>5, <1>6, <1>7, OffsetConstants DEF OffsetTypes
<1> QED
  BY <1>6, <1>8, <1>9, FS_EmptySet DEF OffsetInv

(* An item that is new in the order is behind nothing new: what it moves    *)
(* back was met or is still ahead.                                          *)
LEMMA OffsetAdds ==
  ASSUME OffsetInv, NEW e \in OffsetRefs, NEW i \in 1..Len(results) + 1,
         O!AddItem(e, i)
  PROVE  OffsetInv'
<1>1. results \in Seq(OffsetRefs) /\ Len(results) \in Nat
        /\ DOMAIN results = 1..Len(results)
  BY DEF OffsetInv, OffsetTypes
<1>2. results' = O!InsertAt(results, i, e) /\ e \notin ToSet(results)
        /\ removed' = removed /\ start' = start /\ oOut' = oOut
        /\ oAnswer' = oAnswer
  BY OffsetNames DEF O!AddItem, O!Changed
<1>3. oKept' = oKept \cap ToSet(results') /\ oMet' = oMet \cup ToSet(results')
  BY OffsetNames DEF O!AddItem, O!Changed
<1>4. /\ results' \in Seq(OffsetRefs) /\ Len(results') = Len(results) + 1
      /\ \A j \in 1..Len(results) + 1 :
           results'[j] = IF j < i THEN results[j]
                         ELSE IF j = i THEN e ELSE results[j - 1]
  <2>1. results' = O!InsertAt(results, i, e) /\ i \in 1..Len(results) + 1
    BY <1>2
  <2> QED
    BY <1>1, <2>1, Inserted, SMTT(90)
<1>5. DOMAIN results' = 1..Len(results) + 1
  BY <1>4
<1>6. \A j, k \in DOMAIN results' : results'[j] = results'[k] => j = k
  <2> SUFFICES ASSUME NEW j \in 1..Len(results) + 1,
                      NEW k \in 1..Len(results) + 1, j < k,
                      results'[j] = results'[k]
               PROVE  FALSE
    BY <1>1, <1>5
  <2> DEFINE old(n) == IF n < i THEN n ELSE n - 1
  <2>1. \A n \in 1..Len(results) + 1 :
          n # i => old(n) \in DOMAIN results /\ results'[n] = results[old(n)]
    BY <1>1, <1>4
  <2>2. \A n \in DOMAIN results : results[n] # e
    BY <1>2 DEF ToSet
  <2>3. results'[i] = e
    BY <1>1, <1>4
  <2>4. j # i /\ k # i
    BY <2>1, <2>2, <2>3
  <2>5. old(j) = old(k)
    BY <2>1, <2>4 DEF OffsetInv, OffsetTypes
  <2> QED
    BY <1>1, <2>4, <2>5
<1>7. OffsetTypes'
  BY <1>2, <1>3, <1>4, <1>6 DEF OffsetInv, OffsetTypes
<1>8. Behind' \subseteq Behind
  <2> SUFFICES ASSUME NEW r \in Behind' PROVE r \in Behind
    OBVIOUS
  <2>1. r \in oKept /\ r \notin ToSet(oOut)
    BY <1>2, <1>3 DEF Behind
  <2>2. PICK j \in 1..Len(results) + 1 : j <= start /\ results'[j] = r
    BY <1>2, <1>5 DEF Behind
  <2>3. r # e
    BY <1>2, <2>1 DEF OffsetInv, OffsetTypes
  <2>4. CASE j < i
    BY <1>1, <1>4, <2>1, <2>2, <2>4 DEF Behind
  <2>5. CASE j > i
    <3>1. j - 1 \in DOMAIN results /\ results[j - 1] = r
      BY <1>1, <1>4, <2>2, <2>5
    <3>2. j - 1 <= start
      BY <2>2 DEF OffsetInv, OffsetTypes
    <3> QED
      BY <2>1, <3>1, <3>2 DEF Behind
  <2>6. j # i
    BY <1>1, <1>4, <2>2, <2>3
  <2> QED
    BY <1>1, <2>4, <2>5, <2>6
<1>9. IsFiniteSet(Behind) /\ IsFiniteSet(oKept)
  BY KeptIsFinite DEF OffsetInv
<1>10. Cardinality(Behind') <= Cardinality(Behind)
         /\ Cardinality(Behind') \in Nat /\ Cardinality(Behind) \in Nat
  BY <1>8, <1>9, FS_Subset, FS_CardinalityType
<1>11. oKept' \ ToSet(oOut') \subseteq oKept \ ToSet(oOut)
  BY <1>2, <1>3
<1>12. ASSUME oAnswer' = "complete"
       PROVE  Cardinality(oKept' \ ToSet(oOut')) <= removed'
  <2> DEFINE A == oKept \ ToSet(oOut)
             B == oKept' \ ToSet(oOut')
  <2>1. A \in SUBSET oKept /\ B \in SUBSET A
    BY <1>11
  <2> HIDE DEF A, B
  <2>2. IsFiniteSet(A) /\ IsFiniteSet(B) /\ Cardinality(B) <= Cardinality(A)
    BY <1>9, <2>1, FS_Subset
  <2>3. Cardinality(A) \in Nat /\ Cardinality(B) \in Nat
    BY <2>2, FS_CardinalityType
  <2>4. Cardinality(A) <= removed
    BY <1>2, <1>12 DEF OffsetInv, A
  <2>5. Cardinality(B) <= removed'
    BY <1>2, <2>2, <2>3, <2>4 DEF OffsetInv, OffsetTypes
  <2> QED
    BY <2>5 DEF B
<1>13. ASSUME oAnswer' = "pending", Len(oOut') < OffsetMaxItems
       PROVE  Cardinality(Behind') <= removed'
  <2>1. Cardinality(Behind) <= removed /\ removed \in Nat /\ removed' = removed
    BY <1>2, <1>13 DEF OffsetInv, OffsetTypes
  <2> QED
    BY <1>10, <2>1
<1> QED
  BY <1>7, <1>12, <1>13 DEF OffsetInv

(* A removal moves at most one item that is still to come before the       *)
(* offset.                                                                 *)
LEMMA OffsetRemoves ==
  ASSUME OffsetInv, NEW i \in DOMAIN results, O!RemoveItem(i)
  PROVE  OffsetInv'
<1>1. results \in Seq(OffsetRefs) /\ Len(results) \in Nat
        /\ DOMAIN results = 1..Len(results) /\ i \in 1..Len(results)
  BY DEF OffsetInv, OffsetTypes
<1>2. results' = O!RemoveAt(results, i)
        /\ removed' = removed + 1 /\ start' = start /\ oOut' = oOut
        /\ oAnswer' = oAnswer
  BY DEF O!RemoveItem, O!Changed
<1>3. oKept' = oKept \cap ToSet(results') /\ oMet' = oMet \cup ToSet(results')
  BY OffsetNames DEF O!RemoveItem, O!Changed
<1>4. /\ results' \in Seq(OffsetRefs) /\ Len(results') = Len(results) - 1
      /\ \A j \in 1..Len(results) - 1 :
           results'[j] = IF j < i THEN results[j] ELSE results[j + 1]
  BY <1>1, <1>2, Taken
<1>5. DOMAIN results' = 1..Len(results) - 1
  BY <1>4
<1> DEFINE old(n) == IF n < i THEN n ELSE n + 1
<1>6. \A n \in DOMAIN results' :
        old(n) \in DOMAIN results /\ results'[n] = results[old(n)]
  BY <1>1, <1>4, <1>5
<1>7. \A j, k \in DOMAIN results' : results'[j] = results'[k] => j = k
  <2> SUFFICES ASSUME NEW j \in DOMAIN results', NEW k \in DOMAIN results',
                      results'[j] = results'[k]
               PROVE  j = k
    OBVIOUS
  <2>1. old(j) = old(k)
    BY <1>6 DEF OffsetInv, OffsetTypes
  <2> QED
    BY <1>1, <1>5, <2>1
<1>8. removed \in Nat /\ removed' \in Nat /\ start \in Nat
  BY <1>2 DEF OffsetInv, OffsetTypes
<1>9. OffsetTypes'
  BY <1>2, <1>3, <1>4, <1>7, <1>8 DEF OffsetInv, OffsetTypes
<1> DEFINE next == IF start + 1 \in DOMAIN results THEN {results[start + 1]}
                   ELSE {}
<1>10. Behind' \subseteq Behind \cup next
  <2> SUFFICES ASSUME NEW r \in Behind', r \notin next PROVE r \in Behind
    OBVIOUS
  <2>1. r \in oKept /\ r \notin ToSet(oOut)
    BY <1>2, <1>3 DEF Behind
  <2>2. PICK j \in DOMAIN results' : j <= start /\ results'[j] = r
    BY <1>2 DEF Behind
  <2>3. old(j) \in DOMAIN results /\ results[old(j)] = r
    BY <1>6, <2>2
  <2>4. old(j) # start + 1
    BY <2>3
  <2>5. old(j) <= start
    BY <1>1, <1>5, <1>8, <2>2, <2>4
  <2> QED
    BY <2>1, <2>3, <2>5 DEF Behind
<1>11. IsFiniteSet(Behind) /\ IsFiniteSet(oKept)
  BY KeptIsFinite DEF OffsetInv
<1>12. IsFiniteSet(Behind \cup next)
         /\ Cardinality(Behind \cup next) <= Cardinality(Behind) + 1
  <2>1. PICK x : next = {} \/ next = {x}
    OBVIOUS
  <2>2. PICK c \in Nat : c = Cardinality(Behind)
    BY <1>11, FS_CardinalityType
  <2> HIDE DEF next
  <2>3. CASE next = {}
    <3>1. Behind \cup next = Behind
      BY <2>3
    <3>2. IsFiniteSet(Behind \cup next) /\ Cardinality(Behind \cup next) = c
      BY <1>11, <2>2, <3>1, Zenon
    <3> QED
      BY <2>2, <3>2
  <2>4. CASE next = {x}
    <3>1. IsFiniteSet(Behind \cup {x})
            /\ Cardinality(Behind \cup {x}) =
                 IF x \in Behind THEN Cardinality(Behind)
                 ELSE Cardinality(Behind) + 1
      BY <1>11, FS_AddElement
    <3> QED
      BY <2>2, <2>4, <3>1
  <2> QED
    BY <2>1, <2>3, <2>4
<1> HIDE DEF next
<1>13. Cardinality(Behind') <= Cardinality(Behind) + 1
  <2>1. IsFiniteSet(Behind') /\ Cardinality(Behind') <= Cardinality(Behind \cup next)
    BY <1>10, <1>12, FS_Subset
  <2> QED
    BY <1>11, <1>12, <2>1, FS_CardinalityType
<1>14. ASSUME oAnswer' = "pending", Len(oOut') < OffsetMaxItems
       PROVE  Cardinality(Behind') <= removed'
  <2>1. Cardinality(Behind) <= removed
    BY <1>2, <1>14 DEF OffsetInv
  <2>2. Cardinality(Behind) \in Nat /\ Cardinality(Behind') \in Nat
    <3>1. IsFiniteSet(Behind')
      BY <1>10, <1>12, FS_Subset
    <3> QED
      BY <1>11, <3>1, FS_CardinalityType
  <2> QED
    BY <1>2, <1>8, <1>13, <2>1, <2>2
<1>15. ASSUME oAnswer' = "complete"
       PROVE  Cardinality(oKept' \ ToSet(oOut')) <= removed'
  <2> DEFINE A == oKept \ ToSet(oOut)
             B == oKept' \ ToSet(oOut')
  <2>1. A \in SUBSET oKept /\ B \in SUBSET A
    BY <1>2, <1>3
  <2>2. Cardinality(A) <= removed
    BY <1>2, <1>15 DEF OffsetInv
  <2> HIDE DEF A, B
  <2>3. IsFiniteSet(A) /\ IsFiniteSet(B) /\ Cardinality(B) <= Cardinality(A)
    BY <1>11, <2>1, FS_Subset
  <2>4. Cardinality(A) \in Nat /\ Cardinality(B) \in Nat
    BY <2>3, FS_CardinalityType
  <2>5. Cardinality(B) <= removed'
    BY <1>2, <1>8, <2>2, <2>3, <2>4
  <2> QED
    BY <2>5 DEF B
<1> QED
  BY <1>9, <1>14, <1>15 DEF OffsetInv

(* A page: what the results have from the offset on                        *)
LEMMA PageOfResults ==
  ASSUME OffsetTypes
  PROVE  /\ O!Page \in Seq(OffsetRefs)
         /\ \A j \in 1..Len(O!Page) :
              start + j \in 1..Len(results) /\ O!Page[j] = results[start + j]
         /\ \A j \in 1..Len(results) :
              j > start /\ j <= start + OffsetPageSize =>
                j - start \in 1..Len(O!Page) /\ O!Page[j - start] = results[j]
<1>1. results \in Seq(OffsetRefs) /\ start \in Nat
  BY DEF OffsetTypes
<1>2. start + OffsetPageSize \in Nat /\ start <= start + OffsetPageSize
  BY <1>1, OffsetConstants
<1>3. O!Page = O!Slice(results, start, start + OffsetPageSize)
  BY DEF O!Page
<1> QED
  BY <1>1, <1>2, <1>3, SlicePlaces

LEMMA OffsetAdvances == ASSUME OffsetInv, O!Advance PROVE OffsetInv'
<1> DEFINE all == oOut \o O!Page
<1>1. OffsetTypes
  BY DEF OffsetInv
<1>2. O!Page \in Seq(OffsetRefs) /\ oOut \in Seq(OffsetRefs)
        /\ Len(O!Page) \in Nat /\ Len(oOut) \in Nat
  BY <1>1, PageOfResults DEF OffsetTypes
<1>3. /\ all \in Seq(OffsetRefs) /\ Len(all) = Len(oOut) + Len(O!Page)
      /\ \A j \in 1..Len(oOut) + Len(O!Page) :
           all[j] = IF j <= Len(oOut) THEN oOut[j] ELSE O!Page[j - Len(oOut)]
  BY <1>2, ConcatProperties
<1> HIDE DEF all
<1>4. /\ oOut' \in Seq(OffsetRefs) /\ Len(oOut') \in Nat
      /\ Len(oOut') = IF OffsetMaxItems <= Len(all) THEN OffsetMaxItems
                      ELSE Len(all)
      /\ \A j \in 1..Len(oOut') : oOut'[j] = all[j]
  <2>1. OffsetMaxItems \in Nat /\ 0 \in Nat /\ 0 <= OffsetMaxItems
    BY OffsetConstants
  <2>2. oOut' = O!Slice(all, 0, OffsetMaxItems)
    BY DEF O!Advance, all
  <2>3. Len(all) \in Nat
    BY <1>3
  <2>4. /\ oOut' \in Seq(OffsetRefs) /\ Len(oOut') \in Nat
        /\ OffsetMaxItems <= Len(all) => Len(oOut') = OffsetMaxItems - 0
        /\ OffsetMaxItems > Len(all) =>
             Len(oOut') = IF Len(all) <= 0 THEN 0 ELSE Len(all) - 0
        /\ \A j \in 1..Len(oOut') : oOut'[j] = all[0 + j]
    BY <1>3, <2>1, <2>2, Sliced
  <2> QED
    BY <2>1, <2>3, <2>4
<1>5. /\ results' = results /\ oKept' = oKept /\ oMet' = oMet
      /\ start' = start + OffsetPageSize /\ removed' = removed
      /\ oAnswer = "pending" /\ oAnswer' = "pending" /\ Len(oOut) < OffsetMaxItems
  BY DEF O!Advance
<1>6. DOMAIN results = 1..Len(results) /\ Len(results) \in Nat /\ start \in Nat
        /\ OffsetPageSize \in Nat /\ OffsetMaxItems \in Nat
  BY <1>1, OffsetConstants DEF OffsetTypes
<1>7. ToSet(oOut') \subseteq oMet
  <2> SUFFICES ASSUME NEW j \in 1..Len(oOut') PROVE oOut'[j] \in oMet
    BY <1>4 DEF ToSet
  <2>1. j \in 1..Len(all) /\ oOut'[j] = all[j]
    BY <1>3, <1>4, <1>6
  <2>2. CASE j <= Len(oOut)
    <3>1. oOut'[j] = oOut[j] /\ j \in DOMAIN oOut
      BY <1>2, <1>3, <2>1, <2>2
    <3> QED
      BY <1>1, <3>1 DEF OffsetTypes, ToSet
  <2>3. CASE j > Len(oOut)
    <3>1. j - Len(oOut) \in 1..Len(O!Page) /\ oOut'[j] = O!Page[j - Len(oOut)]
      BY <1>2, <1>3, <2>1, <2>3
    <3>2. start + (j - Len(oOut)) \in DOMAIN results
            /\ oOut'[j] = results[start + (j - Len(oOut))]
      BY <1>1, <3>1, PageOfResults
    <3> QED
      BY <1>1, <3>2 DEF OffsetTypes, ToSet
  <2>4. j <= Len(oOut) \/ j > Len(oOut)
    BY <1>2
  <2> QED
    BY <2>2, <2>3, <2>4
<1>8. OffsetTypes'
  <2>1. start' \in Nat
    BY <1>5, <1>6
  <2>2. Len(oOut') <= OffsetMaxItems
    BY <1>3, <1>4, <1>6
  <2> QED
    BY <1>1, <1>4, <1>5, <1>7, <2>1, <2>2 DEF OffsetTypes
<1>9. ASSUME Len(oOut') < OffsetMaxItems
      PROVE  Cardinality(Behind') <= removed'
  <2>1. Len(oOut') = Len(all)
    BY <1>3, <1>4, <1>6, <1>9
  <2>2. \A j \in 1..Len(all) : oOut'[j] = all[j]
    BY <1>4, <2>1
  <2>3. ToSet(oOut) \subseteq ToSet(oOut')
    <3> SUFFICES ASSUME NEW j \in 1..Len(oOut) PROVE oOut[j] \in ToSet(oOut')
      BY <1>2 DEF ToSet
    <3>1. j \in 1..Len(all) /\ all[j] = oOut[j]
      BY <1>2, <1>3
    <3> QED
      BY <1>4, <2>1, <2>2, <3>1 DEF ToSet
  <2>4. \A j \in 1..Len(O!Page) : O!Page[j] \in ToSet(oOut')
    <3> SUFFICES ASSUME NEW j \in 1..Len(O!Page)
                 PROVE  O!Page[j] \in ToSet(oOut')
      OBVIOUS
    <3>1. Len(oOut) + j \in 1..Len(oOut) + Len(O!Page) /\ ~(Len(oOut) + j <= Len(oOut))
            /\ (Len(oOut) + j) - Len(oOut) = j
      BY <1>2
    <3>2. Len(oOut) + j \in 1..Len(all) /\ all[Len(oOut) + j] = O!Page[j]
      BY <1>3, <3>1
    <3> QED
      BY <1>4, <2>1, <2>2, <3>2 DEF ToSet
  <2>5. Behind' \subseteq Behind
    <3> SUFFICES ASSUME NEW r \in Behind' PROVE r \in Behind
      OBVIOUS
    <3>1. r \in oKept /\ r \notin ToSet(oOut') /\ r \notin ToSet(oOut)
      BY <1>5, <2>3 DEF Behind
    <3>2. PICK j \in DOMAIN results :
             j <= start + OffsetPageSize /\ results[j] = r
      BY <1>5 DEF Behind
    <3>3. ~(j > start)
      BY SMTT(30), <1>1, <2>4, <3>1, <3>2, PageOfResults
    <3>4. j <= start
      BY <1>6, <3>3
    <3> QED
      BY <3>1, <3>2, <3>4 DEF Behind
  <2>6. IsFiniteSet(Behind)
    BY <1>1, KeptIsFinite
  <2>7. Cardinality(Behind') <= Cardinality(Behind)
          /\ Cardinality(Behind') \in Nat /\ Cardinality(Behind) \in Nat
    BY <2>5, <2>6, FS_Subset, FS_CardinalityType
  <2>8. Cardinality(Behind) <= removed /\ removed \in Nat
    BY <1>1, <1>5 DEF OffsetInv, OffsetTypes
  <2> QED
    BY <1>5, <2>7, <2>8
<1> QED
  BY <1>5, <1>8, <1>9 DEF OffsetInv

(* An empty page: the offset has passed everything.                        *)
LEMMA OffsetExhausts == ASSUME OffsetInv, O!Exhausted PROVE OffsetInv'
<1>1. OffsetTypes /\ results \in Seq(OffsetRefs) /\ start \in Nat
        /\ Len(results) \in Nat /\ DOMAIN results = 1..Len(results)
  BY DEF OffsetInv, OffsetTypes
<1>2. /\ results' = results /\ oKept' = oKept /\ oMet' = oMet /\ oOut' = oOut
      /\ start' = start /\ removed' = removed /\ oAnswer' = "complete"
      /\ oAnswer = "pending" /\ Len(oOut) < OffsetMaxItems /\ O!Page = <<>>
  BY DEF O!Exhausted
<1>3. \A j \in 1..Len(results) : ~(j > start /\ j <= start + OffsetPageSize)
  BY <1>1, <1>2, PageOfResults
<1>4. \A j \in 1..Len(results) : j <= start
  <2> SUFFICES ASSUME NEW j \in 1..Len(results), j > start PROVE FALSE
    BY <1>1
  <2>1. start + 1 \in 1..Len(results)
    BY <1>1
  <2>2. start + 1 <= start + OffsetPageSize /\ start + 1 > start
    BY <1>1, OffsetConstants
  <2> QED
    BY <1>3, <2>1, <2>2
<1>5. oKept \ ToSet(oOut) = Behind
  BY <1>1, <1>4 DEF OffsetTypes, Behind, ToSet
<1>6. Cardinality(oKept' \ ToSet(oOut')) <= removed'
  BY <1>2, <1>5 DEF OffsetInv
<1>7. OffsetTypes'
  BY <1>1, <1>2 DEF OffsetTypes
<1> QED
  BY <1>2, <1>6, <1>7 DEF OffsetInv

LEMMA NextOffsetInv ==
  ASSUME OffsetInv, O!Next \/ UNCHANGED offsetVars PROVE OffsetInv'
<1>1. CASE \E r \in OffsetRefs, i \in 1..Len(results) + 1 : O!AddItem(r, i)
  BY <1>1, OffsetAdds
<1>2. CASE \E i \in DOMAIN results : O!RemoveItem(i)
  BY <1>2, OffsetRemoves
<1>3. CASE O!Advance
  BY <1>3, OffsetAdvances
<1>4. CASE O!Exhausted
  BY <1>4, OffsetExhausts
<1>5. CASE O!Capped \/ O!RequestFails
  BY <1>5 DEF O!Capped, O!RequestFails, OffsetInv, OffsetTypes
<1>6. CASE UNCHANGED offsetVars
  BY <1>6 DEF offsetVars, OffsetInv, OffsetTypes, Behind
<1> QED
  BY <1>1, <1>2, <1>3, <1>4, <1>5, <1>6 DEF O!Next, O!Step

LEMMA OffsetInvImplies == ASSUME OffsetInv PROVE O!TypeOK /\ MissesFew
<1>1. O!TypeOK
  BY OffsetNames DEF OffsetInv, OffsetTypes, O!TypeOK, IsInjective
<1>2. MissesFew
  BY OffsetNames DEF OffsetInv, OffsetTypes, MissesFew, O!MissesFew
<1> QED
  BY <1>1, <1>2

-----------------------------------------------------------------------------
(* The three side by side: while one of them runs, the others stand still. *)
ListingsInv == LInv /\ WalkInv /\ OffsetInv

LEMMA InitListingsInv == ASSUME MCInit PROVE ListingsInv
  BY InitLInv, InitWalkInv, InitOffsetInv DEF MCInit, ListingsInv

LEMMA NextListingsInv ==
  ASSUME ListingsInv, [MCNext]_MCVars PROVE ListingsInv'
<1>1. [Next]_vars /\ (W!Next \/ UNCHANGED walkVars)
        /\ (O!Next \/ UNCHANGED offsetVars)
  BY DEF MCNext, MCVars
<1> QED
  BY <1>1, NextLInv, NextWalkInv, NextOffsetInv DEF ListingsInv

LEMMA ListingsInvariant == MCSpec => []ListingsInv
<1>1. MCInit => ListingsInv
  BY InitListingsInv
<1>2. ListingsInv /\ [MCNext]_MCVars => ListingsInv'
  BY NextListingsInv
<1> QED
  BY <1>1, <1>2, PTL DEF MCSpec

(* The variables of the three listings keep their types; a listing never   *)
(* has more items than the cap, and no item twice in its source's order.   *)
THEOREM ListingsKeepTypes == MCSpec => []ListingTypes
<1>1. ListingsInv => ListingTypes
  BY OffsetInvImplies DEF ListingsInv, LInv, WalkInv, ListingTypes
<1> QED
  BY <1>1, ListingsInvariant, PTL

(* A complete Confluence listing misses at most as many items as were      *)
(* removed while it was read, wherever items came and went.                *)
THEOREM RemovalsCostOneEach == MCSpec => []MissesFew
<1>1. ListingsInv => MissesFew
  BY OffsetInvImplies DEF ListingsInv
<1> QED
  BY <1>1, ListingsInvariant, PTL

(* A complete file listing misses only files of directories that os.walk   *)
(* could not read.                                                         *)
THEOREM OnlyUnreadAreMissed == MCSpec => []MissesOnlyUnread
<1>1. ListingsInv => MissesOnlyUnread
  BY DEF ListingsInv, WalkInv, MissesOnlyUnread
<1> QED
  BY <1>1, ListingsInvariant, PTL
=============================================================================
