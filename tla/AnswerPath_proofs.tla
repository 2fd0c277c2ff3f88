--------------------------- MODULE AnswerPath_proofs ---------------------------
(***************************************************************************)
(* What AnswerPath promises of a context and of a PASS, for any corpus,    *)
(* settings, limits and questions, whatever is indexed meanwhile.          *)
(***************************************************************************)
EXTENDS AnswerPath, FiniteSums, SequenceTheorems

-----------------------------------------------------------------------------
(* Orders of finite sets.  A theorem that takes an order takes the set R   *)
(* of its pairs.                                                           *)

Orders(R, S) ==
  /\ \A x \in S : <<x, x>> \notin R
  /\ \A x, y, z \in S : <<x, y>> \in R /\ <<y, z>> \in R => <<x, z>> \in R
  /\ \A x, y \in S : x = y \/ <<x, y>> \in R \/ <<y, x>> \in R

Below(R, S, x) == {y \in S : <<y, x>> \in R}
Place(R, S, x) == Cardinality(Below(R, S, x))

LEMMA PlacesRise ==
  ASSUME NEW S, IsFiniteSet(S), NEW R, Orders(R, S)
  PROVE  /\ \A x \in S : Place(R, S, x) \in 0 .. (Cardinality(S) - 1)
         /\ \A x, y \in S : <<x, y>> \in R => Place(R, S, x) < Place(R, S, y)
<1>1. Cardinality(S) \in Nat
  BY FS_CardinalityType
<1>2. ASSUME NEW x \in S
      PROVE  /\ IsFiniteSet(Below(R, S, x)) /\ Place(R, S, x) \in Nat
             /\ IsFiniteSet(Below(R, S, x) \cup {x})
             /\ Cardinality(Below(R, S, x) \cup {x}) = Place(R, S, x) + 1
  <2>1. Below(R, S, x) \in SUBSET S /\ x \notin Below(R, S, x)
    BY DEF Below, Orders
  <2>2. IsFiniteSet(Below(R, S, x))
    BY <2>1, FS_Subset
  <2> QED BY <2>1, <2>2, FS_CardinalityType, FS_AddElement DEF Place
<1>3. ASSUME NEW x \in S PROVE Place(R, S, x) \in 0 .. (Cardinality(S) - 1)
  <2>1. Below(R, S, x) \cup {x} \in SUBSET S
    BY DEF Below
  <2>2. Place(R, S, x) + 1 <= Cardinality(S)
    BY <2>1, <1>2, FS_Subset
  <2>3. Place(R, S, x) \in Nat
    BY <1>2
  <2> QED BY <2>2, <2>3, <1>1
<1>4. ASSUME NEW x \in S, NEW y \in S, <<x, y>> \in R
      PROVE  Place(R, S, x) < Place(R, S, y)
  <2>1. Below(R, S, x) \cup {x} \in SUBSET Below(R, S, y)
    BY <1>4 DEF Below, Orders
  <2>2. Cardinality(Below(R, S, x) \cup {x}) <= Cardinality(Below(R, S, y))
    BY <2>1, <1>2, FS_Subset
  <2>3. /\ Place(R, S, x) \in Nat /\ Place(R, S, y) \in Nat
        /\ Cardinality(Below(R, S, x) \cup {x}) = Place(R, S, x) + 1
    BY <1>2
  <2>4. Place(R, S, x) + 1 <= Place(R, S, y)
    BY <2>2, <2>3 DEF Place
  <2> QED BY <2>3, <2>4
<1> QED BY <1>3, <1>4

(* Every place is taken.                                                   *)
LEMMA PlacesAreTaken ==
  ASSUME NEW S, IsFiniteSet(S), NEW R, Orders(R, S),
         NEW k \in 0 .. (Cardinality(S) - 1)
  PROVE  \E x \in S : Place(R, S, x) = k
<1> DEFINE n == Cardinality(S)
<1> DEFINE f == [x \in S |-> Place(R, S, x)]
<1>1. n \in Nat
  BY FS_CardinalityType
<1>2. f \in Injection(S, 0 .. (n - 1))
  <2>1. f \in [S -> 0 .. (n - 1)]
    BY PlacesRise
  <2>2. ASSUME NEW x \in S, NEW y \in S, x # y PROVE f[x] # f[y]
    <3>1. Place(R, S, x) \in Int /\ Place(R, S, y) \in Int
      BY PlacesRise, <1>1
    <3>2. <<x, y>> \in R \/ <<y, x>> \in R
      BY <2>2 DEF Orders
    <3> QED BY <3>1, <3>2, PlacesRise
  <2> QED BY <2>1, <2>2 DEF Injection, IsInjective
<1>3. IsFiniteSet(0 .. (n - 1)) /\ Cardinality(0 .. (n - 1)) = n
  <2>1. 0 \in Int /\ n - 1 \in Int
    BY <1>1
  <2>2. IsFiniteSet(0 .. (n - 1))
    BY <2>1, FS_Interval
  <2>3. Cardinality(0 .. (n - 1)) = IF 0 > n - 1 THEN 0 ELSE (n - 1) - 0 + 1
    BY <2>1, FS_Interval
  <2> QED BY <1>1, <2>2, <2>3
<1>4. f \in Surjection(S, 0 .. (n - 1))
  BY <1>2, <1>3, FS_Injection
<1> QED BY <1>4 DEF Surjection

LEMMA FirstExists ==
  ASSUME NEW S, IsFiniteSet(S), S # {}, NEW R, Orders(R, S)
  PROVE  \E x \in S : \A y \in S \ {x} : <<x, y>> \in R /\ <<y, x>> \notin R
<1>1. Cardinality(S) \in Nat \ {0}
  BY FS_CardinalityType, FS_EmptySet
<1>2. 0 \in 0 .. (Cardinality(S) - 1)
  BY <1>1
<1>3. PICK x \in S : Place(R, S, x) = 0
  BY <1>2, PlacesAreTaken
<1>4. Below(R, S, x) \in SUBSET S
  BY DEF Below
<1>5. Below(R, S, x) = {}
  BY <1>3, <1>4, FS_Subset, FS_EmptySet DEF Place
<1> QED BY <1>5 DEF Below, Orders

(* The first n are no more than n, and all if there are no more.           *)
LEMMA FirstFew ==
  ASSUME NEW S, IsFiniteSet(S), NEW R, Orders(R, S), NEW n \in Nat
  PROVE  LET F == {x \in S : Place(R, S, x) < n}
         IN  /\ F \subseteq S /\ IsFiniteSet(F) /\ Cardinality(F) <= n
             /\ Cardinality(S) <= n => F = S
<1> DEFINE F == {x \in S : Place(R, S, x) < n}
<1> DEFINE f == [x \in F |-> Place(R, S, x)]
<1>1. Cardinality(S) \in Nat /\ F \in SUBSET S
  BY FS_CardinalityType
<1>2. f \in Injection(F, 0 .. (n - 1))
  <2>1. f \in [F -> 0 .. (n - 1)]
    <3>1. ASSUME NEW x \in F PROVE Place(R, S, x) \in 0 .. (n - 1)
      BY PlacesRise, <1>1
    <3> QED BY <3>1
  <2>2. ASSUME NEW x \in F, NEW y \in F, x # y PROVE f[x] # f[y]
    <3>1. Place(R, S, x) \in Int /\ Place(R, S, y) \in Int
      BY PlacesRise, <1>1
    <3>2. <<x, y>> \in R \/ <<y, x>> \in R
      BY <2>2 DEF Orders
    <3> QED BY <3>1, <3>2, PlacesRise
  <2> QED BY <2>1, <2>2 DEF Injection, IsInjective
<1>3. IsFiniteSet(0 .. (n - 1)) /\ Cardinality(0 .. (n - 1)) = n
  <2>1. 0 \in Int /\ n - 1 \in Int
    OBVIOUS
  <2>2. IsFiniteSet(0 .. (n - 1))
    BY <2>1, FS_Interval
  <2>3. Cardinality(0 .. (n - 1)) = IF 0 > n - 1 THEN 0 ELSE (n - 1) - 0 + 1
    BY <2>1, FS_Interval
  <2> QED BY <2>2, <2>3
<1>4. Cardinality(F) <= n
  BY <1>2, <1>3, FS_Injection
<1>5. Cardinality(S) <= n => F = S
  BY PlacesRise, <1>1
<1> QED BY <1>1, <1>4, <1>5, FS_Subset

(* The largest and the smallest of a finite set of numbers                 *)
LEMMA Extremes ==
  ASSUME NEW V \in SUBSET Int, IsFiniteSet(V), V # {}
  PROVE  /\ Largest(V) \in V /\ \A v \in V : v <= Largest(V)
         /\ Smallest(V) \in V /\ \A v \in V : Smallest(V) <= v
<1> DEFINE Up == {p \in V \X V : p[1] < p[2]}
<1> DEFINE Down == {p \in V \X V : p[1] > p[2]}
<1>1. Orders(Up, V) /\ Orders(Down, V)
  BY DEF Orders
<1>2. \E x \in V : \A y \in V : x <= y
  <2>1. \E x \in V : \A y \in V \ {x} : <<x, y>> \in Up /\ <<y, x>> \notin Up
    <3> HIDE DEF Up
    <3> QED BY <1>1, FirstExists
  <2>2. PICK x \in V : \A y \in V \ {x} : <<x, y>> \in Up
    BY <2>1
  <2>3. ASSUME NEW y \in V PROVE x <= y
    <3>1. x = y \/ <<x, y>> \in Up
      BY <2>2
    <3> QED BY <3>1
  <2> QED BY <2>3
<1>3. \E x \in V : \A y \in V : y <= x
  <2>1. \E x \in V : \A y \in V \ {x} :
          <<x, y>> \in Down /\ <<y, x>> \notin Down
    <3> HIDE DEF Down
    <3> QED BY <1>1, FirstExists
  <2>2. PICK x \in V : \A y \in V \ {x} : <<x, y>> \in Down
    BY <2>1
  <2>3. ASSUME NEW y \in V PROVE y <= x
    <3>1. x = y \/ <<x, y>> \in Down
      BY <2>2
    <3> QED BY <3>1
  <2> QED BY <2>3
<1> QED BY <1>2, <1>3 DEF Largest, Smallest

LEMMA ExtremesOfTwo ==
  ASSUME NEW a \in Int, NEW b \in Int
  PROVE  /\ Largest({a, b}) = IF a < b THEN b ELSE a
         /\ Smallest({a, b}) = IF a < b THEN a ELSE b
<1>1. {a, b} \in SUBSET Int /\ {a, b} # {}
  OBVIOUS
<1>2. IsFiniteSet({a, b})
  <2>1. IsFiniteSet({a} \cup {b})
    BY FS_Singleton, FS_AddElement
  <2>2. {a} \cup {b} = {a, b}
    OBVIOUS
  <2> QED BY <2>1, <2>2
<1> HIDE DEF Largest, Smallest
<1>3. /\ Largest({a, b}) \in {a, b} /\ \A v \in {a, b} : v <= Largest({a, b})
      /\ Smallest({a, b}) \in {a, b} /\ \A v \in {a, b} : Smallest({a, b}) <= v
  BY <1>1, <1>2, Extremes
<1> QED BY <1>3

LEMMA ImageIsFinite ==
  ASSUME NEW S, IsFiniteSet(S), NEW f, DOMAIN f = S, f \in [S -> {f[x] : x \in S}]
  PROVE  /\ IsFiniteSet({f[x] : x \in S})
         /\ Cardinality({f[x] : x \in S}) <= Cardinality(S)
<1>1. f \in Surjection(S, {f[x] : x \in S})
  BY DEF Surjection
<1> QED BY <1>1, FS_Surjection

-----------------------------------------------------------------------------
(* Candidates and their order                                              *)

Candidates == [row : RowType, hybrid : Nat, score : Nat]

Unique(S) == \A c, d \in S : c.row.id = d.row.id => c = d

Cands(S) == S \subseteq Candidates /\ IsFiniteSet(S) /\ Unique(S)

BeforeIn(S) == {p \in S \X S : Before(p[1], p[2])}
InTextIn(S) == {p \in S \X S : InText(p[1], p[2])}

LEMMA CandidateTypes ==
  ASSUME NEW c \in Candidates
  PROVE  /\ c.row \in RowType /\ c.hybrid \in Nat /\ c.score \in Nat
         /\ c.row.id \in Nat /\ c.row.doc \in Nat /\ c.row.ord \in Nat
         /\ c.row.words \in Nat
BY DEF Candidates, RowType

LEMMA CandsOfSubset ==
  ASSUME NEW S, Cands(S), NEW T \in SUBSET S
  PROVE  Cands(T)
<1>1. IsFiniteSet(T)
  BY FS_Subset DEF Cands
<1> QED BY <1>1 DEF Cands, Unique

LEMMA BeforeOrders ==
  ASSUME NEW S, Cands(S)
  PROVE  /\ Orders(BeforeIn(S), S)
         /\ \A x, y \in S : <<x, y>> \in BeforeIn(S) <=> Before(x, y)
         /\ \A x \in S : Place(BeforeIn(S), S, x)
                          = Cardinality({y \in S : Before(y, x)})
<1>1. \A x, y \in S : <<x, y>> \in BeforeIn(S) <=> Before(x, y)
  BY DEF BeforeIn
<1>2. \A x \in S : /\ x.score \in Int /\ x.row.id \in Int
  BY CandidateTypes DEF Cands
<1>3. \A x, y \in S : x.row.id = y.row.id => x = y
  BY DEF Cands, Unique
<1>4. Orders(BeforeIn(S), S)
  BY <1>1, <1>2, <1>3 DEF Orders, Before
<1>5. ASSUME NEW x \in S
      PROVE  Below(BeforeIn(S), S, x) = {y \in S : Before(y, x)}
  BY <1>1 DEF Below
<1> QED BY <1>1, <1>4, <1>5 DEF Place

LEMMA InTextOrders ==
  ASSUME NEW S, Cands(S)
  PROVE  /\ Orders(InTextIn(S), S)
         /\ \A x, y \in S : <<x, y>> \in InTextIn(S) <=> InText(x, y)
         /\ \A x \in S : Place(InTextIn(S), S, x)
                          = Cardinality({y \in S : InText(y, x)})
<1>1. \A x, y \in S : <<x, y>> \in InTextIn(S) <=> InText(x, y)
  BY DEF InTextIn
<1>2. \A x \in S : /\ x.row.id \in Int /\ x.row.doc \in Int /\ x.row.ord \in Int
  BY CandidateTypes DEF Cands
<1>3. \A x, y \in S : x.row.id = y.row.id => x = y
  BY DEF Cands, Unique
<1>4. Orders(InTextIn(S), S)
  BY <1>1, <1>2, <1>3 DEF Orders, InText
<1>5. ASSUME NEW x \in S
      PROVE  Below(InTextIn(S), S, x) = {y \in S : InText(y, x)}
  BY <1>1 DEF Below
<1> QED BY <1>1, <1>4, <1>5 DEF Place

LEMMA FirstBefore ==
  ASSUME NEW S, Cands(S), S # {}
  PROVE  \E x \in S : \A y \in S \ {x} : Before(x, y) /\ ~Before(y, x)
<1>1. PICK x \in S : \A y \in S \ {x} :
        <<x, y>> \in BeforeIn(S) /\ <<y, x>> \notin BeforeIn(S)
  BY BeforeOrders, FirstExists DEF Cands
<1> QED BY <1>1, BeforeOrders

(* Does F have the first of S?                                             *)
HasBest(F, S) == \A x \in S : (\A y \in S \ {x} : Before(x, y)) => x \in F

(* [:n] of the candidates in their order                                   *)
LEMMA BestFew ==
  ASSUME NEW S, Cands(S), NEW n \in Nat, NEW F, F = FirstBy(S, n, Before)
  PROVE  /\ F \subseteq S /\ Cands(F) /\ Cardinality(F) <= n
         /\ n # 0 => HasBest(F, S)
<1>1. F = {x \in S : Place(BeforeIn(S), S, x) < n}
  BY BeforeOrders DEF FirstBy
<1>2. F \subseteq S /\ Cardinality(F) <= n
  BY <1>1, BeforeOrders, FirstFew DEF Cands
<1>3. ASSUME n # 0, NEW x \in S, \A y \in S \ {x} : Before(x, y)
      PROVE  x \in F
  <2>1. \A y \in S : <<y, x>> \notin BeforeIn(S)
    BY <1>3, BeforeOrders DEF Orders
  <2>2. Below(BeforeIn(S), S, x) = {}
    BY <2>1 DEF Below
  <2>3. Place(BeforeIn(S), S, x) = 0
    BY <2>2, FS_EmptySet DEF Place
  <2> QED BY <1>1, <1>3, <2>3
<1>4. n # 0 => HasBest(F, S)
  BY <1>3 DEF HasBest
<1> QED BY <1>2, <1>4, CandsOfSubset

-----------------------------------------------------------------------------
(* Ranking                                                                 *)

LEMMA Quotient ==
  ASSUME NEW a \in Nat, NEW b \in Nat \ {0}
  PROVE  a \div b \in Nat
OBVIOUS

LEMMA NormalizedType ==
  ASSUME NEW V \in SUBSET Int, IsFiniteSet(V), NEW v \in V
  PROVE  Normalized(v, V) \in Nat
<1> DEFINE top == Largest(V)
<1> DEFINE bottom == Smallest(V)
<1>1. /\ top \in Int /\ bottom \in Int /\ v \in Int
      /\ bottom <= v /\ bottom <= top
  BY Extremes
<1> HIDE DEF top, bottom
<1>2. CASE top # bottom
  <2>1. (v - bottom) * 1000 \in Nat /\ top - bottom \in Nat \ {0}
    BY <1>1, <1>2
  <2>2. ((v - bottom) * 1000) \div (top - bottom) \in Nat
    BY <2>1, Quotient
  <2> QED BY <2>2, <1>2 DEF Normalized, top, bottom
<1>3. CASE top = bottom
  BY <1>3 DEF Normalized, top, bottom
<1> QED BY <1>2, <1>3

LEMMA HybridRanks ==
  ASSUME NEW rows \in SUBSET RowType, IsFiniteSet(rows),
         \A r, s \in rows : r.id = s.id => r = s,
         NEW q \in Queries, NEW L, NEW H, H = HybridRank(rows, L, q)
  PROVE  Cands(H) /\ \A c \in H : c.row \in rows
<1> DEFINE lex(r) == IF r.id \in L THEN r.lex[q] ELSE 0
<1> DEFINE Lex == {lex(r) : r \in rows}
<1> DEFINE Vec == {r.vec[q] : r \in rows}
<1> DEFINE hybrid(r) == (700 * Normalized(r.vec[q], Vec)
                           + 300 * Normalized(lex(r), Lex)) \div 1000
<1> DEFINE f == [r \in rows |-> [row |-> r, hybrid |-> hybrid(r), score |-> hybrid(r)]]
<1>1. ASSUME NEW r \in rows PROVE lex(r) \in Int /\ r.vec[q] \in Int
  BY DEF RowType
<1>2. IsFiniteSet(Lex) /\ Lex \subseteq Int
  <2> DEFINE g == [r \in rows |-> lex(r)]
  <2>1. {g[r] : r \in rows} = Lex
    OBVIOUS
  <2>2. g \in [rows -> {g[r] : r \in rows}] /\ DOMAIN g = rows
    OBVIOUS
  <2> HIDE DEF g, Lex
  <2>3. IsFiniteSet(Lex)
    BY <2>1, <2>2, ImageIsFinite
  <2> QED BY <2>3, <1>1 DEF Lex
<1>3. IsFiniteSet(Vec) /\ Vec \subseteq Int
  <2> DEFINE g == [r \in rows |-> r.vec[q]]
  <2>1. {g[r] : r \in rows} = Vec
    OBVIOUS
  <2>2. g \in [rows -> {g[r] : r \in rows}] /\ DOMAIN g = rows
    OBVIOUS
  <2> HIDE DEF g, Vec
  <2>3. IsFiniteSet(Vec)
    BY <2>1, <2>2, ImageIsFinite
  <2> QED BY <2>3, <1>1 DEF Vec
<1>4. ASSUME NEW r \in rows PROVE hybrid(r) \in Nat
  <2>1. lex(r) \in Lex /\ r.vec[q] \in Vec
    OBVIOUS
  <2> DEFINE m == Normalized(r.vec[q], Vec)
  <2> DEFINE n == Normalized(lex(r), Lex)
  <2> HIDE DEF lex, Lex, Vec
  <2>2. m \in Nat /\ n \in Nat
    BY <2>1, <1>2, <1>3, NormalizedType
  <2> HIDE DEF m, n
  <2>3. 700 * m + 300 * n \in Nat
    BY <2>2
  <2>4. (700 * m + 300 * n) \div 1000 \in Nat
    BY <2>3, Quotient
  <2> QED BY <2>4 DEF m, n
<1>5. H = {f[r] : r \in rows}
  BY DEF HybridRank
<1> HIDE DEF hybrid
<1>6. f \in [rows -> {f[r] : r \in rows}] /\ DOMAIN f = rows
  OBVIOUS
<1>7. \A r \in rows : f[r] \in Candidates /\ f[r].row = r
  BY <1>4 DEF Candidates
<1> HIDE DEF f
<1>8. IsFiniteSet(H)
  BY <1>5, <1>6, ImageIsFinite
<1> QED BY <1>5, <1>7, <1>8 DEF Cands, Unique

LEMMA RecencyType == ASSUME NEW k \in Nat PROVE Recency(k) \in Nat
<1>1. 120 - 24 * (k - 1) \in Int /\ 36 \in Int
  OBVIOUS
<1> DEFINE n == 120 - 24 * (k - 1)
<1>2. Recency(k) = IF 36 < n THEN n ELSE 36
  BY <1>1, ExtremesOfTwo DEF Recency
<1> QED BY <1>1, <1>2

LEMMA BoostType ==
  ASSUME NEW T, NEW rows \in Seq(T), NEW id
  PROVE  Boost(id, rows) \in Nat
<1> DEFINE uses == {k \in 1 .. Len(rows) : rows[k].id = id /\ rows[k].used}
<1> DEFINE g == [k \in uses |-> Recency(k)]
<1>1. uses \subseteq Nat /\ IsFiniteSet(uses)
  <2>1. 1 \in Int /\ Len(rows) \in Int
    OBVIOUS
  <2>2. IsFiniteSet(1 .. Len(rows))
    BY <2>1, FS_Interval
  <2> QED BY <2>2, FS_Subset
<1> HIDE DEF uses
<1>2. g \in [uses -> {g[k] : k \in uses}] /\ DOMAIN g = uses
  OBVIOUS
<1>3. {g[k] : k \in uses} = {Recency(k) : k \in uses}
  OBVIOUS
<1> HIDE DEF g
<1>4. IsFiniteSet({Recency(k) : k \in uses})
  BY <1>1, <1>2, <1>3, ImageIsFinite, SMTT(60)
<1>5. {Recency(k) : k \in uses} \in SUBSET Nat
  BY <1>1, RecencyType
<1>6. CASE uses # {}
  <2>1. {Recency(k) : k \in uses} # {}
    BY <1>6
  <2> DEFINE V == {Recency(k) : k \in uses}
  <2>2. V \in SUBSET Int /\ IsFiniteSet(V) /\ V # {}
    BY <1>4, <1>5, <2>1
  <2> HIDE DEF V
  <2>3. Largest(V) \in V
    BY <2>2, Extremes
  <2>4. Largest(V) \in Nat
    BY <2>3, <1>5 DEF V
  <2> QED BY <2>4, <1>6 DEF Boost, uses, V
<1>7. CASE uses = {}
  BY <1>7 DEF Boost, uses
<1> QED BY <1>6, <1>7

LEMMA Boosts ==
  ASSUME NEW S, Cands(S), NEW T, NEW rows \in Seq(T),
         NEW B, B = Boosted(S, rows)
  PROVE  /\ Cands(B)
         /\ \A c \in B : \E d \in S : c.row = d.row
<1> DEFINE f == [c \in S |-> [c EXCEPT !.score = @ + Boost(c.row.id, rows)]]
<1>1. B = {f[c] : c \in S}
  BY DEF Boosted
<1>2. f \in [S -> {f[c] : c \in S}] /\ DOMAIN f = S
  OBVIOUS
<1>3. ASSUME NEW c \in S PROVE f[c] \in Candidates /\ f[c].row = c.row
  <2>1. Boost(c.row.id, rows) \in Nat
    BY BoostType
  <2>2. c \in Candidates
    BY DEF Cands
  <2> QED BY <2>1, <2>2 DEF Candidates
<1> HIDE DEF f
<1>4. IsFiniteSet(B)
  BY <1>1, <1>2, ImageIsFinite DEF Cands
<1> QED BY <1>1, <1>3, <1>4 DEF Cands, Unique

-----------------------------------------------------------------------------
(* Neighbours                                                              *)

RowsOK(rows) ==
  /\ rows \subseteq RowType /\ IsFiniteSet(rows)
  /\ \A r, s \in rows :
       r.id = s.id \/ (r.doc = s.doc /\ r.ord = s.ord) => r = s

LEMMA RowTypes ==
  ASSUME NEW r \in RowType
  PROVE  /\ r.id \in Nat /\ r.doc \in Nat /\ r.ord \in Nat /\ r.words \in Nat
BY DEF RowType

LEMMA NearIsClose ==
  ASSUME CapsOK, NEW r \in RowType, NEW s \in RowType
  PROVE  /\ Distance(r, s) \in Nat
         /\ Near(r, s) => /\ r.doc = s.doc
                          /\ r.ord \in s.ord - NeighborWindow .. s.ord + NeighborWindow
BY RowTypes DEF Distance, Near, CapsOK

LEMMA NeighborType ==
  ASSUME NEW r \in RowType, NEW a \in Candidates
  PROVE  /\ Neighbor(r, a) \in Candidates /\ Neighbor(r, a).row = r
         /\ Neighbor(r, a).score <= a.score
<1>1. a.score \in Nat
  BY CandidateTypes
<1>2. (a.score * 92) \div 100 \in Nat /\ (a.score * 92) \div 100 <= a.score
  BY <1>1
<1> QED BY <1>2 DEF Neighbor, Candidates

(* Neighbours N of rows F, of which g is the chunk each was fetched for    *)
LEMMA NeighborsOf ==
  ASSUME NEW F, F \subseteq RowType, IsFiniteSet(F),
         \A r, s \in F : r.id = s.id => r = s,
         NEW g \in [F -> Candidates],
         NEW N, \A c \in N : \E r \in F : c = Neighbor(r, g[r])
  PROVE  /\ Cands(N) /\ Cardinality(N) <= Cardinality(F)
         /\ \A c \in N : c.row \in F /\ c.score <= g[c.row].score
<1> DEFINE f == [c \in N |-> c.row]
<1>1. ASSUME NEW c \in N
      PROVE  /\ c.row \in F /\ c \in Candidates /\ c.score <= g[c.row].score
             /\ c = Neighbor(c.row, g[c.row])
  <2>1. PICK r \in F : c = Neighbor(r, g[r])
    OBVIOUS
  <2>2. r \in RowType /\ g[r] \in Candidates
    OBVIOUS
  <2> QED BY <2>1, <2>2, NeighborType
<1>2. f \in Injection(N, F)
  BY <1>1 DEF Injection, IsInjective
<1>3. IsFiniteSet(N) /\ Cardinality(N) <= Cardinality(F)
  BY <1>2, FS_Injection
<1>4. Unique(N)
  BY <1>1 DEF Unique
<1> QED BY <1>1, <1>3, <1>4 DEF Cands

(* What the expansions make of rows and the base: at most n new chunks,    *)
(* each near one of the base and none better than all of it                *)
Around(N, rows, base, n) ==
  /\ Cands(N) /\ Cardinality(N) <= n
  /\ \A c \in N :
       /\ c.row \in rows /\ c.row.id \notin Ids(base)
       /\ \E a \in base : Near(c.row, a.row)
       /\ \E a \in base : c.score <= a.score

LEMMA ClosestExists ==
  ASSUME NEW r \in RowType, NEW base, Cands(base),
         \E a \in base : a.row.doc = r.doc
  PROVE  ClosestOf(r, base) \in base
<1> DEFINE S == {a \in base : a.row.doc = r.doc}
<1> DEFINE Lt(a, b) == \/ Distance(r, a.row) < Distance(r, b.row)
                       \/ Distance(r, a.row) = Distance(r, b.row) /\ Before(a, b)
<1> DEFINE R == {p \in S \X S : Lt(p[1], p[2])}
<1>1. Cands(S) /\ S # {}
  BY CandsOfSubset
<1>2. \A a, b \in S : <<a, b>> \in R <=> Lt(a, b)
  OBVIOUS
<1> HIDE DEF R, S
<1>3. \A a \in S : Distance(r, a.row) \in Nat
  BY <1>1, RowTypes, CandidateTypes DEF Distance, Cands
<1>4. Orders(R, S)
  <2>1. /\ \A a \in S : ~Before(a, a)
        /\ \A a, b, c \in S : Before(a, b) /\ Before(b, c) => Before(a, c)
        /\ \A a, b \in S : a = b \/ Before(a, b) \/ Before(b, a)
    BY <1>1, BeforeOrders DEF Orders
  <2> QED BY <1>2, <1>3, <2>1 DEF Orders
<1>5. \E a \in S : \A b \in S \ {a} : <<a, b>> \in R /\ <<b, a>> \notin R
  BY <1>1, <1>4, FirstExists DEF Cands
<1>6. \E a \in base : /\ a.row.doc = r.doc
                      /\ \A b \in base \ {a} : b.row.doc = r.doc => Lt(a, b)
  BY <1>5, <1>2 DEF S
<1> QED BY <1>6 DEF ClosestOf

LEMMA Fetched ==
  ASSUME CapsOK, NEW rows, RowsOK(rows), NEW base, Cands(base), NEW n \in Nat,
         NEW N, N = FetchNeighbors(rows, base, n)
  PROVE  Around(N, rows, base, n)
<1> DEFINE F == {r \in New(rows, base) : \E a \in base : Near(r, a.row)}
<1> DEFINE g == [r \in F |-> ClosestOf(r, base)]
<1> DEFINE found == {Neighbor(r, ClosestOf(r, base)) : r \in F}
<1> DEFINE ranks(c) == {Rank(a, base, Before) : a \in {a \in base : a.row.doc = c.row.doc}}
<1> DEFINE docRank(c) == Smallest(ranks(c))
<1> DEFINE Lt(a, b) == \/ docRank(a) < docRank(b)
                       \/ docRank(a) = docRank(b) /\ InText(a, b)
<1> DEFINE R == {p \in found \X found : Lt(p[1], p[2])}
<1>1. /\ F \subseteq rows /\ F \subseteq RowType /\ IsFiniteSet(F)
      /\ \A r, s \in F : r.id = s.id => r = s
  BY FS_Subset DEF New, RowsOK
<1>2. ASSUME NEW r \in F PROVE ClosestOf(r, base) \in base
  <2>1. \E a \in base : a.row.doc = r.doc
    BY DEF Near
  <2> HIDE DEF F
  <2> QED BY <1>1, <2>1, ClosestExists
<1>3. /\ g \in [F -> Candidates]
      /\ \A c \in found : \E r \in F : c = Neighbor(r, g[r])
  <2> HIDE DEF F
  <2> QED BY <1>2 DEF Cands
<1>4. Cands(found) /\ \A c \in found : c.row \in F /\ c.score <= g[c.row].score
  <2> HIDE DEF F, g, found
  <2> QED BY <1>1, <1>3, NeighborsOf
<1>5. N = {x \in found : Cardinality({y \in found : Lt(y, x)}) < n}
  BY DEF FetchNeighbors, FirstBy
<1>6. ASSUME NEW c \in found PROVE docRank(c) \in Int
  <2> DEFINE B == {a \in base : a.row.doc = c.row.doc}
  <2>1. B # {}
    BY <1>4 DEF Near
  <2>2. IsFiniteSet(B) /\ B \subseteq base
    BY FS_Subset DEF Cands
  <2> DEFINE h == [a \in B |-> Rank(a, base, Before)]
  <2>3. /\ {h[a] : a \in B} = ranks(c)
        /\ h \in [B -> {h[a] : a \in B}] /\ DOMAIN h = B
    OBVIOUS
  <2>4. ASSUME NEW a \in B PROVE Rank(a, base, Before) \in Int
    <3>1. {y \in base : Before(y, a)} \in SUBSET base
      OBVIOUS
    <3>2. IsFiniteSet({y \in base : Before(y, a)})
      BY <3>1, FS_Subset DEF Cands
    <3>3. Cardinality({y \in base : Before(y, a)}) \in Nat
      BY <3>2, FS_CardinalityType
    <3> QED BY <3>3 DEF Rank
  <2>5. ranks(c) \subseteq Int /\ ranks(c) # {}
    BY <2>1, <2>4
  <2> HIDE DEF B, h, ranks
  <2>6. IsFiniteSet(ranks(c))
    BY <2>2, <2>3, ImageIsFinite
  <2> QED BY <2>5, <2>6, Extremes
<1>7. \A a, b \in found : <<a, b>> \in R <=> Lt(a, b)
  OBVIOUS
<1> HIDE DEF F, g, found, docRank, R
<1>8. Orders(R, found)
  <2>1. /\ \A a \in found : ~InText(a, a)
        /\ \A a, b, c \in found : InText(a, b) /\ InText(b, c) => InText(a, c)
        /\ \A a, b \in found : a = b \/ InText(a, b) \/ InText(b, a)
    BY <1>4, InTextOrders DEF Orders
  <2> QED BY <1>6, <1>7, <2>1 DEF Orders
<1>9. N = {x \in found : Place(R, found, x) < n}
  <2>1. ASSUME NEW x \in found PROVE Below(R, found, x) = {y \in found : Lt(y, x)}
    BY <1>7 DEF Below
  <2> QED BY <1>5, <2>1 DEF Place
<1>10. N \subseteq found /\ Cardinality(N) <= n /\ Cands(N)
  BY <1>4, <1>8, <1>9, FirstFew, CandsOfSubset DEF Cands
<1>11. ASSUME NEW c \in found
       PROVE  /\ c.row \in rows /\ c.row.id \notin Ids(base)
              /\ \E a \in base : Near(c.row, a.row)
              /\ \E a \in base : c.score <= a.score
  <2>1. c.row \in F /\ c.score <= g[c.row].score
    BY <1>4
  <2>2. g[c.row] \in base
    BY <1>2, <2>1 DEF g
  <2> QED BY <2>1, <2>2, <1>1 DEF F, New
<1> QED BY <1>10, <1>11 DEF Around

(* [:n] of the candidates in the order of the text                         *)
LEMMA FirstInText ==
  ASSUME NEW S, Cands(S), NEW n \in Nat, NEW F, F = FirstBy(S, n, InText)
  PROVE  F \subseteq S /\ (Cardinality(S) <= n => F = S)
<1>1. F = {x \in S : Place(InTextIn(S), S, x) < n}
  BY InTextOrders DEF FirstBy
<1> QED BY <1>1, InTextOrders, FirstFew, ZenonT(60) DEF Cands

(* A context E is grown from the base by at most n chunks of rows.         *)
Grown(E, rows, base, n) ==
  /\ Cands(E)
  /\ \E N : Around(N, rows, base, n) /\ E \subseteq base \cup N

LEMMA BaseAndAround ==
  ASSUME NEW rows, NEW base, Cands(base), NEW n, NEW N, Around(N, rows, base, n)
  PROVE  Cands(base \cup N)
<1>1. IsFiniteSet(base \cup N)
  BY FS_Union DEF Around, Cands
<1>2. Unique(base \cup N)
  BY DEF Around, Cands, Unique, Ids
<1> QED BY <1>1, <1>2 DEF Around, Cands

LEMMA GrownFromBase ==
  ASSUME NEW rows, NEW base, Cands(base), NEW n \in Nat
  PROVE  Grown(base, rows, base, n)
<1>1. Cands({}) /\ Cardinality({}) = 0
  BY FS_EmptySet DEF Cands, Unique
<1>2. Around({}, rows, base, n)
  BY <1>1 DEF Around
<1> QED BY <1>2 DEF Grown

LEMMA CapType ==
  ASSUME CapsOK, NEW topK \in Nat
  PROVE  Cap(topK) \in Nat \ {0} /\ Cap(topK) <= HardCap
<1> DEFINE most == Largest({topK, DefaultTopK})
<1>1. topK \in Int /\ DefaultTopK \in Nat \ {0} /\ HardCap \in Nat \ {0}
  BY DEF CapsOK
<1>2. most = IF topK < DefaultTopK THEN DefaultTopK ELSE topK
  BY <1>1, ExtremesOfTwo
<1>3. most \in Nat \ {0}
  BY <1>1, <1>2
<1> HIDE DEF most
<1> DEFINE much == 3 * most
<1>4. much \in Nat \ {0}
  BY <1>3
<1> HIDE DEF much
<1>5. Smallest({HardCap, much}) = IF HardCap < much THEN HardCap ELSE much
  BY <1>1, <1>4, ExtremesOfTwo
<1> QED BY <1>1, <1>4, <1>5 DEF Cap, most, much

(* expand_neighbors: the base is not cut if top_k is within the cap.       *)
LEMMA NeighborsExpand ==
  ASSUME CapsOK, NEW rows, RowsOK(rows), NEW S, Cands(S), NEW topK \in Nat,
         NEW base, base = FirstBy(S, topK, Before),
         NEW E, E = ExpandNeighbors(rows, S, topK)
  PROVE  /\ Grown(E, rows, base, HardCap)
         /\ topK <= Cap(topK) => base \subseteq E
<1> DEFINE cap == Cap(topK)
<1> DEFINE room == Largest({0, cap - Cardinality(base)})
<1> DEFINE N == FetchNeighbors(rows, base, room)
<1> DEFINE all == base \cup N
<1>1. Cands(base) /\ Cardinality(base) <= topK
  BY BestFew
<1>2. Cardinality(base) \in Nat /\ cap \in Nat \ {0} /\ cap <= HardCap
  BY <1>1, CapType, FS_CardinalityType DEF Cands
<1>3. room = IF 0 < cap - Cardinality(base) THEN cap - Cardinality(base) ELSE 0
  <2>1. 0 \in Int /\ cap - Cardinality(base) \in Int
    BY <1>2
  <2> HIDE DEF cap
  <2> QED BY <2>1, ExtremesOfTwo
<1>4. room \in Nat /\ room <= HardCap
  BY <1>2, <1>3 DEF CapsOK
<1> HIDE DEF cap, room
<1>5. Around(N, rows, base, room)
  BY <1>1, <1>4, Fetched
<1>6. E = FirstBy(all, cap, InText)
  BY DEF ExpandNeighbors, cap, room
<1> HIDE DEF N
<1>7. Cands(all)
  BY <1>1, <1>5, BaseAndAround
<1>8. cap \in Nat
  BY <1>2
<1>9. E \subseteq all /\ (Cardinality(all) <= cap => E = all)
  <2> HIDE DEF all
  <2> QED BY <1>6, <1>7, <1>8, FirstInText
<1>10. Grown(E, rows, base, HardCap)
  <2>1. Cardinality(N) \in Nat
    BY <1>5, FS_CardinalityType DEF Around, Cands
  <2>2. HardCap \in Nat /\ Cardinality(N) <= room
    BY <1>5 DEF Around, CapsOK
  <2>3. Cardinality(N) <= HardCap
    BY <2>1, <2>2, <1>4
  <2>4. Around(N, rows, base, HardCap)
    BY <1>5, <2>3 DEF Around
  <2> QED BY <2>4, <1>7, <1>9, CandsOfSubset DEF Grown
<1>11. ASSUME topK <= cap PROVE base \subseteq E
  <2>1. Cardinality(N) \in Nat /\ Cardinality(N) <= room
    BY <1>5, FS_CardinalityType DEF Around, Cands
  <2>2. Cardinality(all) = Cardinality(base) + Cardinality(N)
                             - Cardinality(base \cap N)
    BY <1>1, <1>5, FS_Union DEF Around, Cands
  <2>3. base \cap N = {}
    BY <1>5 DEF Around, Ids
  <2>4. Cardinality(all) = Cardinality(base) + Cardinality(N)
    BY <2>1, <2>2, <2>3, <1>2, FS_EmptySet
  <2>5. Cardinality(all) <= cap
    BY <2>1, <2>4, <1>1, <1>2, <1>3, <1>11
  <2> QED BY <2>5, <1>9
<1> QED BY <1>10, <1>11 DEF cap

-----------------------------------------------------------------------------
(* ContextExpansionEngine                                                  *)

(* At most n new rows T, each with a share of the score of the base chunk  *)
(* g[r]                                                                    *)
LEMMA FewAround ==
  ASSUME NEW rows, RowsOK(rows), NEW base, Cands(base), NEW n \in Nat,
         NEW T, T \subseteq New(rows, base), IsFiniteSet(T), Cardinality(T) <= n,
         \A r \in T : \E a \in base : Near(r, a.row),
         NEW g \in [T -> base],
         NEW N, \A c \in N : \E r \in T : c = Neighbor(r, g[r])
  PROVE  Around(N, rows, base, n)
<1>1. /\ T \subseteq rows /\ T \subseteq RowType
      /\ \A r, s \in T : r.id = s.id => r = s
  BY DEF New, RowsOK
<1>2. g \in [T -> Candidates]
  BY DEF Cands
<1>3. /\ Cands(N) /\ Cardinality(N) <= Cardinality(T)
      /\ \A c \in N : c.row \in T /\ c.score <= g[c.row].score
  BY <1>1, <1>2, NeighborsOf
<1>4. Cardinality(N) <= n
  <2>1. Cardinality(N) \in Nat /\ Cardinality(T) \in Nat
    BY <1>3, FS_CardinalityType DEF Cands
  <2> QED BY <2>1, <1>3
<1>5. ASSUME NEW c \in N
      PROVE  /\ c.row \in rows /\ c.row.id \notin Ids(base)
             /\ \E a \in base : Near(c.row, a.row)
             /\ \E a \in base : c.score <= a.score
  <2>1. c.row \in T /\ g[c.row] \in base /\ c.score <= g[c.row].score
    BY <1>3
  <2> QED BY <2>1 DEF New
<1> QED BY <1>3, <1>4, <1>5 DEF Around

LEMMA ChunksAround ==
  ASSUME CapsOK, NEW rows, RowsOK(rows), NEW base, Cands(base),
         NEW N, N = AroundChunks(rows, base)
  PROVE  Around(N, rows, base, ExtraTotal)
<1> DEFINE F == {r \in New(rows, base) : \E a \in base : Near(r, a.row)}
<1> DEFINE anchor(r) == CHOOSE a \in base :
                          /\ Near(r, a.row)
                          /\ \A b \in base \ {a} : Near(r, b.row) => Before(a, b)
<1> DEFINE Lt(r, s) == \/ Before(anchor(r), anchor(s))
                       \/ anchor(r) = anchor(s) /\ r.ord < s.ord
<1> DEFINE T == {r \in F : Cardinality({y \in F : Lt(y, r)}) < ExtraTotal}
<1>1. N = {Neighbor(r, anchor(r)) : r \in T}
  BY DEF AroundChunks, FirstBy
<1>2. ASSUME NEW r \in F
      PROVE  anchor(r) \in base /\ Near(r, anchor(r).row)
  <2> DEFINE S == {a \in base : Near(r, a.row)}
  <2>1. Cands(S) /\ S # {}
    BY CandsOfSubset
  <2> HIDE DEF S
  <2>2. PICK a \in S : \A b \in S \ {a} : Before(a, b)
    BY <2>1, FirstBefore
  <2>3. /\ a \in base /\ Near(r, a.row)
        /\ \A b \in base \ {a} : Near(r, b.row) => Before(a, b)
    BY <2>2 DEF S
  <2> QED BY <2>3
<1>3. /\ F \subseteq New(rows, base) /\ F \subseteq rows
      /\ \A r \in F : \E a \in base : Near(r, a.row)
  BY DEF New
<1>4. IsFiniteSet(F) /\ ExtraTotal \in Nat
  BY <1>3, FS_Subset DEF RowsOK, CapsOK
<1> HIDE DEF F, anchor
<1> DEFINE R == {p \in F \X F : Lt(p[1], p[2])}
<1>5. \A r, s \in F : <<r, s>> \in R <=> Lt(r, s)
  OBVIOUS
<1> HIDE DEF R
<1>6. Orders(R, F)
  <2>1. /\ \A a \in base : ~Before(a, a)
        /\ \A a, b, c \in base : Before(a, b) /\ Before(b, c) => Before(a, c)
        /\ \A a, b \in base : a = b \/ Before(a, b) \/ Before(b, a)
    BY BeforeOrders DEF Orders
  <2>2. \A r \in F : r.ord \in Int
    BY <1>3, RowTypes DEF RowsOK
  <2>3. ASSUME NEW r \in F, NEW s \in F, anchor(r) = anchor(s), r.ord = s.ord
        PROVE  r = s
    BY <1>2, <1>3, <2>3 DEF Near, RowsOK
  <2> QED BY <1>2, <1>5, <2>1, <2>2, <2>3 DEF Orders
<1>7. ASSUME NEW x \in F PROVE Below(R, F, x) = {y \in F : Lt(y, x)}
  BY <1>5 DEF Below
<1>8. T = {r \in F : Place(R, F, r) < ExtraTotal}
  BY <1>7 DEF Place
<1>9. T \subseteq F /\ IsFiniteSet(T) /\ Cardinality(T) <= ExtraTotal
  BY <1>4, <1>6, <1>8, FirstFew, ZenonT(60)
<1> HIDE DEF T
<1> DEFINE g == [r \in T |-> anchor(r)]
<1>10. /\ g \in [T -> base]
       /\ \A c \in N : \E r \in T : c = Neighbor(r, g[r])
  BY <1>1, <1>2, <1>9
<1> HIDE DEF g
<1> QED BY <1>3, <1>4, <1>9, <1>10, FewAround

(* The best chunk first, of several in the order of the text               *)
Better(a, b) == a.score > b.score \/ (a.score = b.score /\ InText(a, b))

LEMMA BestExists ==
  ASSUME NEW S, Cands(S), S # {}
  PROVE  /\ \A a \in S : ~Better(a, a)
         /\ \A a, b, c \in S : Better(a, b) /\ Better(b, c) => Better(a, c)
         /\ \E a \in S : \A b \in S \ {a} : Better(a, b)
<1> DEFINE R == {p \in S \X S : Better(p[1], p[2])}
<1>1. \A a, b \in S : <<a, b>> \in R <=> Better(a, b)
  OBVIOUS
<1> HIDE DEF R
<1>2. \A a \in S : a.score \in Int
  BY CandidateTypes DEF Cands
<1>3. Orders(R, S)
  <2>1. /\ \A a \in S : ~InText(a, a)
        /\ \A a, b, c \in S : InText(a, b) /\ InText(b, c) => InText(a, c)
        /\ \A a, b \in S : a = b \/ InText(a, b) \/ InText(b, a)
    BY InTextOrders DEF Orders
  <2> QED BY <1>1, <1>2, <2>1 DEF Orders, Better
<1>4. \E a \in S : \A b \in S \ {a} : <<a, b>> \in R /\ <<b, a>> \notin R
  BY <1>3, FirstExists DEF Cands
<1> QED BY <1>1, <1>3, <1>4 DEF Orders

LEMMA AnchorExists ==
  ASSUME NEW base, Cands(base), NEW d \in DocsOf(base)
  PROVE  AnchorOf(d, base) \in base /\ AnchorOf(d, base).row.doc = d
<1> DEFINE S == {a \in base : a.row.doc = d}
<1>1. Cands(S) /\ S # {}
  BY CandsOfSubset DEF DocsOf
<1> HIDE DEF S
<1>2. PICK a \in S : \A b \in S \ {a} : Better(a, b)
  BY <1>1, BestExists
<1>3. /\ a \in base /\ a.row.doc = d
      /\ \A b \in base \ {a} : b.row.doc = d =>
           a.score > b.score \/ (a.score = b.score /\ InText(a, b))
  BY <1>2 DEF S, Better
<1> QED BY <1>3 DEF AnchorOf

LEMMA DocsAreOrdered ==
  ASSUME NEW base, Cands(base)
  PROVE  LET D == DocsOf(base) IN
         /\ \A d \in D : ~DocBefore(base, d, d)
         /\ \A d, e, f \in D :
              DocBefore(base, d, e) /\ DocBefore(base, e, f) => DocBefore(base, d, f)
         /\ \A d, e \in D : d = e \/ DocBefore(base, d, e) \/ DocBefore(base, e, d)
<1>1. ASSUME NEW d \in DocsOf(base)
      PROVE  d \in Int /\ AnchorOf(d, base).score \in Int
  <2>1. AnchorOf(d, base) \in base /\ AnchorOf(d, base).row.doc = d
    BY AnchorExists
  <2> QED BY <2>1, CandidateTypes DEF Cands
<1> QED BY <1>1 DEF DocBefore

LEMMA DocsAround ==
  ASSUME CapsOK, NEW rows, RowsOK(rows), NEW base, Cands(base),
         NEW N, N = AroundDocs(rows, base)
  PROVE  Around(N, rows, base, ExtraTotal)
<1> DEFINE near(d) == {r \in New(rows, base) : Near(r, AnchorOf(d, base).row)}
<1> DEFINE ofDoc(d) == {r \in near(d) : Cardinality({y \in near(d) : y.ord < r.ord}) < ExtraPerDoc}
<1> DEFINE F == UNION {ofDoc(d) : d \in ChosenDocs(base)}
<1> DEFINE Lt(r, s) == \/ DocBefore(base, r.doc, s.doc)
                       \/ r.doc = s.doc /\ r.ord < s.ord
<1> DEFINE T == {r \in F : Cardinality({y \in F : Lt(y, r)}) < ExtraTotal}
<1> DEFINE g == [r \in T |-> AnchorOf(r.doc, base)]
<1>1. N = {Neighbor(r, AnchorOf(r.doc, base)) : r \in T}
  BY DEF AroundDocs, FirstBy
<1>2. ChosenDocs(base) \subseteq DocsOf(base)
  BY DEF ChosenDocs, FirstBy
<1>3. ASSUME NEW r \in F
      PROVE  /\ r \in New(rows, base) /\ r \in rows
             /\ r.doc \in DocsOf(base) /\ AnchorOf(r.doc, base) \in base
             /\ Near(r, AnchorOf(r.doc, base).row)
  <2>1. PICK d \in ChosenDocs(base) :
          r \in New(rows, base) /\ Near(r, AnchorOf(d, base).row)
    OBVIOUS
  <2>2. AnchorOf(d, base) \in base /\ AnchorOf(d, base).row.doc = d
    BY <1>2, AnchorExists
  <2>3. r.doc = d
    BY <2>1, <2>2 DEF Near
  <2> QED BY <1>2, <2>1, <2>2, <2>3 DEF New
<1>4. F \subseteq New(rows, base) /\ F \subseteq rows
  BY <1>3
<1>5. IsFiniteSet(F) /\ ExtraTotal \in Nat
  BY <1>4, FS_Subset DEF RowsOK, CapsOK
<1> HIDE DEF F
<1> DEFINE R == {p \in F \X F : Lt(p[1], p[2])}
<1>6. \A r, s \in F : <<r, s>> \in R <=> Lt(r, s)
  OBVIOUS
<1> HIDE DEF R
<1>7. Orders(R, F)
  <2>1. \A r \in F : r.ord \in Int /\ r.doc \in DocsOf(base)
    BY <1>3, <1>4, RowTypes DEF RowsOK
  <2>2. \A r, s \in F : r.doc = s.doc /\ r.ord = s.ord => r = s
    BY <1>4 DEF RowsOK
  <2>3. /\ \A d \in DocsOf(base) : ~DocBefore(base, d, d)
        /\ \A d, e, f \in DocsOf(base) :
             DocBefore(base, d, e) /\ DocBefore(base, e, f) => DocBefore(base, d, f)
        /\ \A d, e \in DocsOf(base) :
             d = e \/ DocBefore(base, d, e) \/ DocBefore(base, e, d)
    BY DocsAreOrdered
  <2> QED BY <1>6, <2>1, <2>2, <2>3 DEF Orders
<1>8. ASSUME NEW x \in F PROVE Below(R, F, x) = {y \in F : Lt(y, x)}
  BY <1>6 DEF Below
<1>9. T = {r \in F : Place(R, F, r) < ExtraTotal}
  BY <1>8 DEF Place
<1>10. T \subseteq F /\ IsFiniteSet(T) /\ Cardinality(T) <= ExtraTotal
  BY <1>5, <1>7, <1>9, FirstFew, ZenonT(60)
<1> HIDE DEF T
<1>11. /\ g \in [T -> base]
       /\ \A c \in N : \E r \in T : c = Neighbor(r, g[r])
  BY <1>1, <1>3, <1>10
<1> HIDE DEF g
<1>12. \A r \in T : \E a \in base : Near(r, a.row)
  BY <1>3, <1>10
<1> QED BY <1>4, <1>5, <1>10, <1>11, <1>12, FewAround

(* The two filters keep the best chunk.                                    *)
LEMMA FiltersKeepBest ==
  ASSUME NEW S, Cands(S), NEW x \in S, \A y \in S \ {x} : Before(x, y) /\ ~Before(y, x),
         NEW K, K = RedundancyFilter(Dedup(S))
  PROVE  K \subseteq S /\ x \in K
<1>1. Dedup(S) \subseteq S
  BY DEF Dedup
<1>2. x \in Dedup(S)
  <2>1. \A d \in S : d.row.id = x.row.id => d = x
    BY DEF Cands, Unique
  <2>2. x.score <= x.score
    BY CandidateTypes DEF Cands
  <2> QED BY <2>1, <2>2 DEF Dedup
<1> QED BY <1>1, <1>2 DEF RedundancyFilter

(* What _budget_select returns, if anything, starts with the best.         *)
LEMMA SelectionStartsWithBest ==
  ASSUME NEW S, Cands(S), NEW m, NEW K, K = BudgetSelect(S, m)
  PROVE  /\ K \subseteq S
         /\ K # {} => \E c \in K : \A s \in S : c.score >= s.score
<1> DEFINE until(c) == {d \in S : d = c \/ Better(d, c)}
<1> DEFINE penalty(c) == IF \E d \in until(c) \ {c} : d.row.emb = c.row.emb
                           THEN 80 ELSE 0
<1> DEFINE fits(c) == /\ c.score - penalty(c) >= MinGain
                      /\ TokensOf(until(c)) <= m
<1>1. K = {c \in S : \A d \in until(c) : fits(d)}
  BY DEF BudgetSelect, Better
<1> HIDE DEF fits
<1>2. ASSUME K # {} PROVE \E c \in K : \A s \in S : c.score >= s.score
  <2>1. PICK k \in S : \A d \in until(k) : fits(d)
    BY <1>1, <1>2
  <2>2. PICK c \in S : \A d \in S \ {c} : Better(c, d)
    BY <2>1, BestExists
  <2>3. c \in until(k)
    BY <2>2
  <2>4. until(c) = {c}
    BY <2>2, BestExists
  <2>5. c \in K
    BY <1>1, <2>1, <2>3, <2>4
  <2>6. \A s \in S : c.score >= s.score
    BY <2>2, CandidateTypes DEF Better, Cands
  <2> QED BY <2>5, <2>6
<1> QED BY <1>1, <1>2

LEMMA BaseHasBest ==
  ASSUME CapsOK, NEW S, Cands(S)
  PROVE  Cands(Base(S)) /\ Base(S) \subseteq S /\ HasBest(Base(S), S)
<1>1. PICK n : n = BaseChunks
  OBVIOUS
<1>2. PICK F : F = FirstBy(S, n, Before)
  OBVIOUS
<1>3. n \in Nat /\ n # 0
  BY <1>1 DEF CapsOK
<1>4. F = Base(S)
  BY <1>1, <1>2 DEF Base
<1>5. F \subseteq S /\ Cands(F) /\ HasBest(F, S)
  BY <1>2, <1>3, BestFew
<1> QED BY <1>4, <1>5

Modes == {"base", "neighbor", "doc_neighbor"}

(* expand: the base and at most ExtraTotal more; whatever the filters and  *)
(* the budget leave has a chunk with the best score of all.                *)
LEMMA EngineExpands ==
  ASSUME CapsOK, NEW rows, RowsOK(rows), NEW S, Cands(S), NEW mode \in Modes, NEW m,
         NEW E, E = Expand(mode, rows, S, m)
  PROVE  /\ Cands(Base(S))
         /\ Grown(E, rows, Base(S), IF mode = "base" THEN 0 ELSE ExtraTotal)
         /\ E # {} => \E c \in E : \A s \in S : c.score >= s.score
<1> DEFINE base == Base(S)
<1>2. Cands(base) /\ HasBest(base, S) /\ base \subseteq S
  BY BaseHasBest
<1>3. ASSUME S # {}
      PROVE  \E x \in base : /\ \A y \in base \ {x} : Before(x, y) /\ ~Before(y, x)
                             /\ \A s \in S : x.score >= s.score
  <2>1. PICK x \in S : \A y \in S \ {x} : Before(x, y) /\ ~Before(y, x)
    BY <1>3, FirstBefore
  <2>2. \A s \in S : x.score >= s.score
    BY <2>1, CandidateTypes DEF Before, Cands
  <2> QED BY <1>2, <2>1, <2>2 DEF HasBest
<1> HIDE DEF base
<1>4. CASE mode = "base"
  <2>1. E = BudgetSelect(base, m)
    BY <1>4 DEF Expand, base
  <2>2. E \subseteq base /\ (E # {} => \E c \in E : \A s \in base : c.score >= s.score)
    BY <1>2, <2>1, SelectionStartsWithBest
  <2>3. Grown(E, rows, base, 0)
    <3>1. Grown(base, rows, base, 0)
      BY <1>2, GrownFromBase
    <3> QED BY <1>2, <2>2, <3>1, CandsOfSubset DEF Grown
  <2>4. ASSUME E # {} PROVE \E c \in E : \A s \in S : c.score >= s.score
    <3>1. PICK c \in E : \A s \in base : c.score >= s.score
      BY <2>2, <2>4
    <3>2. PICK x \in base : \A s \in S : x.score >= s.score
      BY <1>2, <1>3, <2>2, <2>4
    <3>3. \A s \in S : s.score \in Nat
      BY CandidateTypes DEF Cands
    <3>4. c.score \in Nat /\ x.score \in Nat /\ c.score >= x.score
      BY <1>2, <2>2, <3>1, <3>3
    <3> QED BY <3>1, <3>2, <3>3, <3>4
  <2> QED BY <1>2, <1>4, <2>3, <2>4 DEF base
<1>5. CASE mode # "base"
  <2> DEFINE N == IF mode = "neighbor" THEN AroundChunks(rows, base)
                  ELSE AroundDocs(rows, base)
  <2> DEFINE all == base \cup N
  <2> DEFINE K == RedundancyFilter(Dedup(all))
  <2>1. E = BudgetSelect(K, m)
    <3>1. CASE mode = "neighbor"
      BY <3>1 DEF Expand, base
    <3>2. CASE mode = "doc_neighbor"
      BY <3>2 DEF Expand, base
    <3> QED BY <1>5, <3>1, <3>2 DEF Modes
  <2>2. Around(N, rows, base, ExtraTotal)
    <3>1. Around(AroundChunks(rows, base), rows, base, ExtraTotal)
      BY <1>2, ChunksAround
    <3>2. Around(AroundDocs(rows, base), rows, base, ExtraTotal)
      BY <1>2, DocsAround
    <3> QED BY <3>1, <3>2
  <2> HIDE DEF N
  <2>3. Cands(all)
    BY <1>2, <2>2, BaseAndAround
  <2>4. K \subseteq all
    BY DEF RedundancyFilter, Dedup
  <2>5. Cands(K)
    BY <2>3, <2>4, CandsOfSubset
  <2> HIDE DEF K
  <2>6. E \subseteq K /\ (E # {} => \E c \in E : \A s \in K : c.score >= s.score)
    BY <2>1, <2>5, SelectionStartsWithBest
  <2>7. Grown(E, rows, base, ExtraTotal)
    <3>1. E \subseteq all
      BY <2>4, <2>6
    <3>2. Cands(E)
      BY <2>3, <3>1, CandsOfSubset
    <3> QED BY <2>2, <3>1, <3>2 DEF Grown
  <2>8. ASSUME E # {} PROVE \E c \in E : \A s \in S : c.score >= s.score
    <3>1. all # {}
      BY <2>4, <2>6, <2>8
    <3> HIDE DEF all
    <3>2. PICK x \in all : \A y \in all \ {x} : Before(x, y) /\ ~Before(y, x)
      BY <2>3, <3>1, FirstBefore
    <3>3. x \in K
      BY <2>3, <3>2, FiltersKeepBest DEF K
    <3>4. PICK c \in E : \A s \in K : c.score >= s.score
      BY <2>6, <2>8
    <3>5. \A y \in all : y.score \in Nat
      BY <2>3, CandidateTypes DEF Cands
    <3>6. \A s \in S : s.score \in Nat
      BY CandidateTypes DEF Cands
    <3>7. c \in all /\ c.score >= x.score
      BY <2>4, <2>6, <3>3, <3>4
    <3>8. \A y \in all : x.score >= y.score
      BY <3>2, <3>5 DEF Before
    <3>9. ASSUME NEW s \in S PROVE c.score >= s.score
      <4>1. PICK b \in base : \A t \in S : b.score >= t.score
        BY <1>3
      <4>2. b \in all
        BY DEF all
      <4> QED BY <3>5, <3>6, <3>7, <3>8, <4>1, <4>2
    <3> QED BY <3>9
  <2> QED BY <1>2, <1>5, <2>7, <2>8 DEF base
<1> QED BY <1>4, <1>5

-----------------------------------------------------------------------------
(* apply_context_budget                                                    *)

Weights(S) == [c \in S |-> Tokens(c.row.words)]

LEMMA TokensType ==
  ASSUME NEW n \in Nat
  PROVE  /\ Tokens(n) \in Nat \ {0}
         /\ Tokens(n) = IF 1 < (133 * n + 50) \div 100
                          THEN (133 * n + 50) \div 100 ELSE 1
<1> DEFINE k == (133 * n + 50) \div 100
<1>1. k \in Nat /\ 1 \in Int
  BY Quotient
<1> HIDE DEF k
<1>2. Largest({1, k}) = IF 1 < k THEN k ELSE 1
  BY <1>1, ExtremesOfTwo
<1>3. Tokens(n) = Largest({1, k})
  BY DEF Tokens, k
<1> QED BY <1>1, <1>2, <1>3 DEF k

LEMMA WeightsType ==
  ASSUME NEW S, Cands(S)
  PROVE  Weights(S) \in [S -> Nat]
BY TokensType, CandidateTypes DEF Weights, Cands

LEMMA TokensAreSummed ==
  ASSUME NEW S, Cands(S), NEW T \in SUBSET S
  PROVE  TokensOf(T) = Total(Weights(S), T)
<1> DEFINE P(it) ==
      it = [s \in SUBSET T |->
              IF s = {} THEN 0
              ELSE LET x == CHOOSE x \in s : TRUE
                   IN  Tokens(x.row.words) + it[s \ {x}]]
<1> DEFINE w == Weights(S)
<1>1. TokensOf(T) = (CHOOSE it : P(it))[T]
  BY DEF TokensOf, MapThenSumSet, MapThenFoldSet
<1>2. ASSUME NEW it PROVE P(it) <=> Sums(it, w, T)
  <2> DEFINE f == [s \in SUBSET T |->
                     IF s = {} THEN 0
                     ELSE LET x == CHOOSE x \in s : TRUE
                          IN  Tokens(x.row.words) + it[s \ {x}]]
  <2> DEFINE g == [s \in SUBSET T |->
                     IF s = {} THEN 0 ELSE w[OneOf(s)] + it[s \ {OneOf(s)}]]
  <2>1. ASSUME NEW s \in SUBSET T PROVE f[s] = g[s]
    <3>1. CASE s = {}
      BY <3>1
    <3>2. CASE s # {}
      <4>1. OneOf(s) \in s
        BY <3>2 DEF OneOf
      <4>2. w[OneOf(s)] = Tokens(OneOf(s).row.words)
        BY <4>1 DEF Weights
      <4>3. f[s] = Tokens(OneOf(s).row.words) + it[s \ {OneOf(s)}]
        BY <3>2 DEF OneOf
      <4> HIDE DEF w
      <4> QED BY <3>2, <4>2, <4>3
    <3> QED BY <3>1, <3>2
  <2>2. f = g
    <3>1. DOMAIN f = SUBSET T /\ DOMAIN g = SUBSET T
      OBVIOUS
    <3>2. f = [s \in SUBSET T |-> f[s]] /\ g = [s \in SUBSET T |-> g[s]]
      OBVIOUS
    <3> HIDE DEF f, g
    <3> QED BY <2>1, <3>2
  <2>3. P(it) <=> it = f
    OBVIOUS
  <2>4. Sums(it, w, T) <=> it = g
    BY DEF Sums
  <2> QED BY <2>2, <2>3, <2>4
<1>3. IsFiniteSet(T)
  BY FS_Subset DEF Cands
<1> HIDE DEF P
<1>4. PICK f : f = (CHOOSE it : P(it))
  OBVIOUS
<1>5. PICK g : g = (CHOOSE it : Sums(it, w, T))
  OBVIOUS
<1>6. (\E it : Sums(it, w, T)) /\ (\E it : P(it))
  BY <1>2, <1>3, SumsExist
<1>7. Sums(f, w, T) /\ Sums(g, w, T)
  BY <1>2, <1>4, <1>5, <1>6
<1>8. f[T] = g[T]
  BY <1>3, <1>7, SumsAreUnique
<1> QED BY <1>1, <1>4, <1>5, <1>8 DEF Total

LEMMA OneSum ==
  ASSUME NEW c \in Candidates
  PROVE  TokensOf({}) = 0 /\ TokensOf({c}) = Tokens(c.row.words)
<1>1. Cands({c})
  BY FS_Singleton DEF Cands, Unique
<1> DEFINE w == Weights({c})
<1>2. w \in [{c} -> Nat] /\ w[c] = Tokens(c.row.words)
  BY <1>1, WeightsType DEF Weights
<1> HIDE DEF w
<1>3. TokensOf({}) = Total(w, {}) /\ TokensOf({c}) = Total(w, {c})
  BY <1>1, TokensAreSummed DEF w
<1>4. Total(w, {}) = 0
  BY TotalStep, FS_EmptySet
<1>5. Total(w, {c}) = w[c] + Total(w, {c} \ {c})
  <2>1. IsFiniteSet({c}) /\ {c} \in SUBSET {c} /\ c \in {c}
    BY FS_Singleton
  <2> QED BY <1>2, <2>1, TotalWithout
<1>6. {c} \ {c} = {} /\ w[c] \in Nat
  BY <1>2
<1> QED BY <1>2, <1>3, <1>4, <1>5, <1>6

(* The order in which chunks are dropped is total: one chunk stays to the  *)
(* end, and one is dropped first (KeptLonger).                             *)
LEMMA KeptInOrder ==
  ASSUME NEW S, Cands(S), S # {}
  PROVE  /\ \E x \in S : \A y \in S \ {x} : KeptLonger(x, y) /\ ~KeptLonger(y, x)
         /\ \E x \in S : \A y \in S \ {x} : KeptLonger(y, x)
<1> DEFINE R == {p \in S \X S : KeptLonger(p[1], p[2])}
           Q == {p \in S \X S : KeptLonger(p[2], p[1])}
<1>1. /\ \A x, y \in S : <<x, y>> \in R <=> KeptLonger(x, y)
      /\ \A x, y \in S : <<x, y>> \in Q <=> KeptLonger(y, x)
  OBVIOUS
<1>2. \A x \in S : x.score \in Nat /\ x.row.id \in Nat
  BY CandidateTypes DEF Cands
<1>3. /\ \A x \in S : ~KeptLonger(x, x)
      /\ \A x, y, z \in S : KeptLonger(x, y) /\ KeptLonger(y, z) => KeptLonger(x, z)
      /\ \A x, y \in S : x = y \/ KeptLonger(x, y) \/ KeptLonger(y, x)
  BY <1>2 DEF KeptLonger, Cands, Unique
<1> HIDE DEF R, Q
<1>4. Orders(R, S) /\ Orders(Q, S)
  BY <1>1, <1>3 DEF Orders
<1>5. /\ \E x \in S : \A y \in S \ {x} : <<x, y>> \in R /\ <<y, x>> \notin R
      /\ \E x \in S : \A y \in S \ {x} : <<x, y>> \in Q /\ <<y, x>> \notin Q
  BY <1>4, FirstExists DEF Cands
<1> QED
  BY <1>1, <1>5

(* A truncated chunk has its marker, and one token more than was asked for *)
(* or three where next to nothing was (Truncated, estimate_tokens).        *)
LEMMA TruncatedFits ==
  ASSUME NEW words \in Nat, NEW B \in Nat
  PROVE  /\ Truncated(words, B) \in Nat
         /\ Tokens(Truncated(words, B)) <= B + 1 \/ Tokens(Truncated(words, B)) <= 3
<1> DEFINE q == (100 * B) \div 133
           n == Largest({1, q})
           k == Smallest({words, n})
           t == Truncated(words, B)
<1>1. q \in Nat /\ 133 * q <= 100 * B
  OBVIOUS
<1> HIDE DEF q
<1>2. n = IF 1 < q THEN q ELSE 1
  BY <1>1, ExtremesOfTwo
<1>3. n \in Nat
  BY <1>1, <1>2
<1> HIDE DEF n
<1>4. k = IF words < n THEN words ELSE n
  BY <1>3, ExtremesOfTwo
<1>5. k \in Nat /\ k <= n
  BY <1>3, <1>4
<1> HIDE DEF k
<1>6. t = IF B <= 0 THEN 2 ELSE 1 + k
  BY DEF Truncated, k, n, q
<1>7. t \in Nat
  BY <1>5, <1>6
<1>8. 133 * t <= 266 \/ 133 * t <= 133 + 100 * B
  BY <1>1, <1>2, <1>5, <1>6
<1> HIDE DEF t
<1> DEFINE u == (133 * t + 50) \div 100
<1>9. u \in Nat /\ 100 * u <= 133 * t + 50
  BY <1>7
<1>10. Tokens(t) = IF 1 < u THEN u ELSE 1
  BY <1>7, TokensType
<1> HIDE DEF u
<1>11. Tokens(t) <= B + 1 \/ Tokens(t) <= 3
  BY <1>7, <1>8, <1>9, <1>10
<1> QED
  BY <1>7, <1>11 DEF t

(* The settings leave room for the marker of a chunk that is truncated.    *)
Roomy(m) == Margin >= 1 /\ m >= 3

LEMMA EffectiveType ==
  ASSUME CapsOK, NEW m \in Nat
  PROVE  /\ Effective(m) \in Nat /\ Effective(m) <= m
         /\ Effective(m) # 0 => Effective(m) = m - Margin
<1>1. Margin \in Nat /\ m - Margin \in Int /\ 0 \in Int
  BY DEF CapsOK
<1>2. Effective(m) = IF 0 < m - Margin THEN m - Margin ELSE 0
  BY <1>1, ExtremesOfTwo DEF Effective
<1> QED
  BY <1>1, <1>2

(* Of the chunks that are not dropped, the last one had to fit with all    *)
(* the others; the best one had to fit alone.                              *)
LEMMA WhatIsKeptFits ==
  ASSUME NEW S, Cands(S), NEW B \in Nat,
         NEW K, K = {c \in S : TokensOf({d \in S : d = c \/ KeptLonger(d, c)}) <= B},
         K # {}
  PROVE  /\ TokensOf(K) <= B
         /\ \E c \in K : \A s \in S : c.score >= s.score
<1> DEFINE until(c) == {d \in S : d = c \/ KeptLonger(d, c)}
           w == Weights(S)
<1>1. w \in [S -> Nat] /\ \A T \in SUBSET S : TokensOf(T) = Total(w, T)
  BY WeightsType, TokensAreSummed
<1>2. IsFiniteSet(S)
  BY DEF Cands
<1>3. \A c \in S : until(c) \in SUBSET S
  OBVIOUS
<1>4. K \subseteq S /\ \A c \in S : c \in K <=> TokensOf(until(c)) <= B
  OBVIOUS
<1> HIDE DEF w
<1>5. ASSUME NEW U \in SUBSET S, NEW V \in SUBSET U
      PROVE  TokensOf(U) \in Nat /\ TokensOf(V) \in Nat /\ TokensOf(V) <= TokensOf(U)
  <2>1. V \in SUBSET S
    OBVIOUS
  <2>2. Total(w, V) <= Total(w, U) /\ Total(w, U) \in Nat /\ Total(w, V) \in Nat
    BY <1>1, <1>2, <2>1, TotalGrows, TotalWithout
  <2> QED
    BY <1>1, <2>1, <2>2
<1>6. TokensOf(K) <= B
  <2>1. Cands(K)
    BY <1>4, CandsOfSubset
  <2>2. PICK c \in K : \A y \in K \ {c} : KeptLonger(y, c)
    BY <2>1, KeptInOrder
  <2>3. K \in SUBSET until(c) /\ until(c) \in SUBSET S /\ c \in S
    BY <1>4, <2>2
  <2>4. TokensOf(until(c)) <= B
    BY <1>4, <2>3
  <2>5. PICK U : U = until(c)
    OBVIOUS
  <2>6. U \in SUBSET S /\ K \in SUBSET U /\ TokensOf(U) <= B
    BY <2>3, <2>4, <2>5
  <2>7. TokensOf(U) \in Nat /\ TokensOf(K) \in Nat /\ TokensOf(K) <= TokensOf(U)
    BY <1>5, <2>6
  <2> QED
    BY <2>6, <2>7
<1>7. \E c \in K : \A s \in S : c.score >= s.score
  <2>1. PICK x \in S : \A y \in S \ {x} : KeptLonger(x, y) /\ ~KeptLonger(y, x)
    BY <1>4, KeptInOrder
  <2>2. PICK c \in K : TRUE
    OBVIOUS
  <2>3. c \in S /\ TokensOf(until(c)) <= B
    BY <1>4
  <2>4. until(x) \in SUBSET until(c)
    <3>1. until(x) = {x}
      BY <2>1
    <3>2. x \in until(c)
      BY <2>1, <2>3
    <3> QED
      BY <3>1, <3>2
  <2>5. TokensOf(until(x)) <= B
    <3>1. until(c) \in SUBSET S
      OBVIOUS
    <3> HIDE DEF until
    <3> QED
      BY <1>5, <2>3, <2>4, <3>1
  <2>6. x \in K
    BY <1>4, <2>5
  <2>7. \A s \in S : s.score \in Nat
    BY CandidateTypes DEF Cands
  <2>8. \A s \in S : x.score >= s.score
    BY <2>1, <2>7 DEF KeptLonger
  <2> QED
    BY <2>6, <2>8
<1> QED
  BY <1>6, <1>7

(* apply_context_budget: what it leaves is from the context, with the      *)
(* scores it had, has one of the best, and is within the limit.            *)
LEMMA Budgeted ==
  ASSUME CapsOK, NEW S, Cands(S), NEW m \in Nat, NEW A, A = ApplyBudget(S, m)
  PROVE  /\ Cands(A)
         /\ \A a \in A : \E c \in S : a.row.id = c.row.id /\ a.score = c.score
         /\ A # {} => \E a \in A : \A s \in S : a.score >= s.score
         /\ Roomy(m) => TokensOf(A) <= m
<1> DEFINE B == Effective(m)
           K == {c \in S : TokensOf({d \in S : d = c \/ KeptLonger(d, c)}) <= B}
           best == CHOOSE c \in S : \A d \in S \ {c} : Before(c, d)
           cut == [best EXCEPT !.row.words = Truncated(@, B)]
<1>1. B \in Nat /\ B <= m /\ (B # 0 => B = m - Margin)
  BY EffectiveType
<1>2. A = IF S = {} THEN {} ELSE IF K # {} THEN K ELSE {cut}
  BY DEF ApplyBudget
<1>3. K \subseteq S
  OBVIOUS
<1>4. CASE S = {}
  <2>1. A = {} /\ Cands({}) /\ TokensOf({}) = 0
    <3>1. IsFiniteSet({})
      BY FS_EmptySet
    <3>2. Cands({})
      BY <3>1 DEF Cands, Unique
    <3>3. TokensOf({}) = Total(Weights({}), {})
      BY <3>2, TokensAreSummed
    <3>4. Total(Weights({}), {}) = 0
      BY <3>1, TotalStep
    <3> QED
      BY <1>2, <1>4, <3>2, <3>3, <3>4
  <2> QED
    BY <2>1
<1>5. CASE S # {} /\ K # {}
  <2>1. PICK k : k = K
    OBVIOUS
  <2>2. TokensOf(k) <= B /\ \E c \in k : \A s \in S : c.score >= s.score
    <3> HIDE DEF B
    <3> QED
      BY <1>1, <1>5, <2>1, WhatIsKeptFits
  <2>3. Cands(k)
    BY <1>3, <2>1, CandsOfSubset
  <2>4. A = k /\ k \subseteq S
    BY <1>2, <1>3, <1>5, <2>1
  <2>5. TokensOf(k) \in Nat
    <3>1. k \in SUBSET k /\ IsFiniteSet(k)
      BY <2>3 DEF Cands
    <3>2. Total(Weights(k), k) \in Nat
      BY <2>3, <3>1, WeightsType, TotalWithout
    <3> QED
      BY <2>3, <3>1, <3>2, TokensAreSummed
  <2> HIDE DEF B, K
  <2> QED
    BY <1>1, <2>2, <2>3, <2>4, <2>5
<1>6. CASE S # {} /\ K = {}
  <2>1. best \in S /\ \A d \in S \ {best} : Before(best, d)
    BY <1>6, FirstBefore
  <2>2. A = {cut}
    BY <1>2, <1>6
  <2>3. PICK b \in S : b = best /\ b \in Candidates
    BY <2>1 DEF Cands
  <2>4. PICK t : t = Truncated(b.row.words, B)
    OBVIOUS
  <2>5. cut = [b EXCEPT !.row.words = t]
    BY <2>3, <2>4
  <2> HIDE DEF B, K, best, cut
  <2>6. b.row.words \in Nat /\ b.score \in Nat
    BY <2>3, CandidateTypes
  <2>7. t \in Nat /\ (Tokens(t) <= B + 1 \/ Tokens(t) <= 3)
    BY <1>1, <2>4, <2>6, TruncatedFits
  <2>8. /\ cut \in Candidates /\ cut.row.words = t /\ cut.score = b.score
        /\ cut.row.id = b.row.id
    BY <2>3, <2>5, <2>7 DEF Candidates, RowType
  <2>9. Cands({cut})
    BY <2>8, FS_Singleton DEF Cands, Unique
  <2>10. TokensOf({cut}) = Tokens(t) /\ Tokens(t) \in Nat
    BY <2>7, <2>8, OneSum, TokensType
  <2>11. \A s \in S : cut.score >= s.score
    <3>1. \A s \in S : s.score \in Nat
      BY CandidateTypes DEF Cands
    <3> QED
      BY <2>1, <2>3, <2>6, <2>8, <3>1 DEF Before
  <2>12. Roomy(m) => TokensOf(A) <= m
    <3>1. ASSUME Roomy(m) PROVE Tokens(t) <= m
      <4>1. Margin \in Nat /\ Margin >= 1 /\ m >= 3
        BY <3>1 DEF CapsOK, Roomy
      <4>2. CASE Tokens(t) <= 3
        BY <2>10, <4>1, <4>2
      <4>3. CASE Tokens(t) <= B + 1
        BY <1>1, <2>10, <4>1, <4>3
      <4> QED
        BY <2>7, <4>2, <4>3
    <3> QED
      BY <2>2, <2>10, <3>1
  <2> QED
    BY <2>2, <2>3, <2>8, <2>9, <2>11, <2>12
<1> QED
  BY <1>4, <1>5, <1>6

-----------------------------------------------------------------------------
(* The invariant                                                           *)

TraceType == [id : Nat, used : BOOLEAN]

(* How many chunks an expansion may add                                    *)
Room ==
  CASE config.expansion \in {"none", "base"} -> 0
    [] config.expansion = "window" -> HardCap
    [] OTHER -> ExtraTotal

(* The cap leaves room for all the chunks the request asked for.           *)
Covers == config.expansion = "window" => config.topK <= Cap(config.topK)

BestOf(C, S) == C # {} => \E c \in C : \A s \in S : c.score >= s.score

(* What the request has found and chosen is well-formed, also while more   *)
(* documents are indexed.                                                  *)
Shape ==
  /\ config \in Configs /\ chunks \in Corpora /\ query \in Queries
  /\ Cands(ranked) /\ \A c \in ranked : c.row \in OfTenant(chunks)
  /\ Cands(context) /\ traces \in Seq(TraceType)

(* Before the budget the context has grown from the retrieved chunks;      *)
(* after it the scores are theirs, and the tokens fit.                     *)
Chosen ==
  /\ stage = "budget" => Grown(context, OfTenant(chunks), Start, Room)
  /\ stage = "generate" =>
       /\ \A c \in context, s \in Start : c.row.id = s.row.id => c.score = s.score
       /\ Roomy(config.maxTokens) => TokensOf(context) <= config.maxTokens
  /\ stage \in {"budget", "generate"} /\ Covers => BestOf(context, ranked)

(* A reply is for the request that has ended.                              *)
Replied ==
  /\ stage # "idle" => reply = Nothing
  /\ PassIsSupported

AInv == Shape /\ Chosen /\ Replied

LEMMA ConfigTypes ==
  ASSUME SettingsOK, config \in Configs
  PROVE  /\ config.topK \in Nat \ {0} /\ config.expansion \in Expansions
         /\ config.maxTokens \in Nat
BY DEF SettingsOK, ConfigType

LEMMA RowsOfTenant ==
  ASSUME CorporaOK, chunks \in Corpora
  PROVE  /\ RowsOK(OfTenant(chunks)) /\ RowsOK(Visible)
         /\ Visible \subseteq OfTenant(chunks)
         /\ \A r \in OfTenant(chunks) : r.tenant = Tenant
<1>1. OfTenant(chunks) \subseteq chunks /\ Visible \subseteq OfTenant(chunks)
  BY DEF OfTenant, Visible
<1>2. /\ IsFiniteSet(chunks) /\ chunks \subseteq RowType
      /\ \A r, s \in chunks :
           r.id = s.id \/ (r.doc = s.doc /\ r.ord = s.ord) => r = s
  BY DEF CorporaOK
<1>3. IsFiniteSet(OfTenant(chunks)) /\ IsFiniteSet(Visible)
  BY <1>1, <1>2, FS_Subset
<1>4. \A r \in OfTenant(chunks) : r.tenant = Tenant
  BY DEF OfTenant
<1> QED
  BY <1>1, <1>2, <1>3, <1>4 DEF RowsOK

LEMMA StartIsRetrieved ==
  ASSUME SettingsOK, config \in Configs, Cands(ranked)
  PROVE  /\ Start \subseteq ranked /\ Cands(Start) /\ HasBest(Start, ranked)
         /\ config.expansion \in {"none", "window"} =>
              Start = FirstBy(ranked, config.topK, Before)
         /\ config.expansion \notin {"none", "window"} => Start = Base(ranked)
<1>1. CapsOK /\ config.topK \in Nat \ {0}
  BY ConfigTypes DEF SettingsOK
<1>2. CASE config.expansion \in {"none", "window"}
  <2>1. PICK n \in Nat \ {0} : n = config.topK
    BY <1>1
  <2>2. PICK S : S = ranked
    OBVIOUS
  <2>3. PICK F : F = FirstBy(S, n, Before)
    OBVIOUS
  <2>4. F \subseteq S /\ Cands(F) /\ HasBest(F, S)
    BY <2>2, <2>3, BestFew
  <2>5. Start = F
    BY <1>2, <2>1, <2>2, <2>3 DEF Start
  <2> QED
    BY <1>2, <2>1, <2>2, <2>3, <2>4, <2>5
<1>3. CASE config.expansion \notin {"none", "window"}
  <2>1. Start = Base(ranked)
    BY <1>3 DEF Start
  <2>2. PICK S : S = ranked
    OBVIOUS
  <2>3. Cands(Base(S)) /\ Base(S) \subseteq S /\ HasBest(Base(S), S)
    BY <1>1, <2>2, BaseHasBest
  <2> QED
    BY <1>3, <2>1, <2>2, <2>3
<1> QED
  BY <1>2, <1>3

(* A set with the candidate before all others has one of the best scores.  *)
LEMMA FirstIsBest ==
  ASSUME NEW S, Cands(S), NEW F, HasBest(F, S)
  PROVE  BestOf(F, S)
<1>1. CASE S = {}
  BY <1>1 DEF BestOf
<1>2. CASE S # {}
  <2>1. PICK x \in S : \A y \in S \ {x} : Before(x, y)
    BY <1>2, FirstBefore
  <2>2. x \in F
    BY <2>1 DEF HasBest
  <2>3. \A s \in S : s.score \in Nat
    BY CandidateTypes DEF Cands
  <2>4. \A s \in S : x.score >= s.score
    BY <2>1, <2>3 DEF Before
  <2> QED
    BY <2>2, <2>4 DEF BestOf
<1> QED
  BY <1>1, <1>2

(* What grows from visible rows grows from the rows of the tenant.         *)
LEMMA GrownFromMore ==
  ASSUME NEW E, NEW rows, NEW more, rows \subseteq more, NEW base, NEW n,
         Grown(E, rows, base, n)
  PROVE  Grown(E, more, base, n)
<1>1. PICK N : Around(N, rows, base, n) /\ E \subseteq base \cup N
  BY DEF Grown
<1>2. Around(N, more, base, n)
  BY <1>1 DEF Around
<1> QED
  BY <1>1, <1>2 DEF Grown

(* Every expansion adds at most its room, and keeps one of the best, if    *)
(* the cap is not below top_k.                                             *)
LEMMA EveryExpansion ==
  ASSUME SettingsOK, CorporaOK, Shape, stage = "expand", ExpandContext
  PROVE  /\ Grown(context', OfTenant(chunks), Start, Room)
         /\ Covers => BestOf(context', ranked)
<1> USE DEF Shape
<1>1. CapsOK /\ config.topK \in Nat /\ config.expansion \in Expansions
  BY ConfigTypes DEF SettingsOK
<1>2. PICK rows : rows = Visible
  OBVIOUS
<1>3. RowsOK(rows) /\ rows \subseteq OfTenant(chunks)
  BY <1>2, RowsOfTenant
<1>4. PICK S : S = ranked
  OBVIOUS
<1>5. PICK B : B = Start
  OBVIOUS
<1>6. /\ B \subseteq S /\ Cands(B) /\ HasBest(B, S) /\ Cands(S)
      /\ config.expansion \in {"none", "window"} => B = FirstBy(S, config.topK, Before)
      /\ config.expansion \notin {"none", "window"} => B = Base(S)
  BY <1>4, <1>5, StartIsRetrieved
<1>7. PICK E : E = context'
  OBVIOUS
<1>8. SUFFICES Grown(E, rows, B, Room) /\ (Covers => BestOf(E, S))
  BY <1>3, <1>4, <1>5, <1>7, GrownFromMore
<1>9. CASE config.expansion = "none"
  <2>1. E = B
    BY <1>4, <1>6, <1>7, <1>9 DEF ExpandContext
  <2>2. Room = 0
    BY <1>9 DEF Room
  <2>3. Grown(B, rows, B, 0)
    BY <1>6, GrownFromBase
  <2> QED
    BY <1>6, <2>1, <2>2, <2>3, FirstIsBest
<1>10. CASE config.expansion = "window"
  <2>1. E = ExpandNeighbors(rows, S, config.topK)
    BY <1>2, <1>4, <1>7, <1>10 DEF ExpandContext
  <2>2. Room = HardCap
    BY <1>10 DEF Room
  <2>3. PICK n \in Nat : n = config.topK
    BY <1>1
  <2>4. B = FirstBy(S, n, Before) /\ E = ExpandNeighbors(rows, S, n)
    BY <1>6, <1>10, <2>1, <2>3
  <2>5. Grown(E, rows, B, HardCap) /\ (n <= Cap(n) => B \subseteq E)
    BY <1>1, <1>3, <1>6, <2>4, NeighborsExpand
  <2>6. Covers => n <= Cap(n)
    BY <1>10, <2>3 DEF Covers
  <2>7. B \subseteq E => HasBest(E, S)
    BY <1>6 DEF HasBest
  <2> QED
    BY <1>6, <2>2, <2>5, <2>6, <2>7, FirstIsBest
<1>11. CASE config.expansion \in Modes
  <2>1. PICK mode \in Modes : mode = config.expansion
    BY <1>11
  <2>2. mode # "none" /\ mode # "window"
    BY DEF Modes
  <2>3. PICK m : m = config.maxTokens
    OBVIOUS
  <2>4. E = Expand(mode, rows, S, m)
    BY <1>2, <1>4, <1>7, <2>1, <2>2, <2>3 DEF ExpandContext
  <2>5. /\ Grown(E, rows, Base(S), IF mode = "base" THEN 0 ELSE ExtraTotal)
        /\ E # {} => \E c \in E : \A s \in S : c.score >= s.score
    BY <1>1, <1>3, <1>6, <2>4, EngineExpands
  <2>6. Room = IF mode = "base" THEN 0 ELSE ExtraTotal
    BY <2>1, <2>2 DEF Room
  <2> QED
    BY <1>6, <2>1, <2>2, <2>5, <2>6 DEF BestOf
<1> QED
  BY <1>1, <1>9, <1>10, <1>11 DEF Expansions, Modes

LEMMA InitInv ==
  ASSUME SettingsOK, CorporaOK, AnswerInit
  PROVE  AInv
<1>1. Cands({})
  BY FS_EmptySet DEF Cands, Unique
<1>2. <<>> \in Seq(TraceType)
  BY EmptySeq
<1> QED
  BY <1>1, <1>2
  DEF AnswerInit, AInv, Shape, Chosen, Replied, PassIsSupported, Nothing

(* What the choices depend on stays as it is while the request is at work. *)
LEMMA Untouched ==
  ASSUME config' = config, chunks' = chunks, ranked' = ranked, context' = context,
         Shape, Chosen, query' \in Queries, traces' \in Seq(TraceType),
         stage' = stage \/ stage' \notin {"budget", "generate"}
  PROVE  Shape' /\ Chosen'
<1>1. Start' = Start /\ Room' = Room /\ Covers' = Covers
  BY DEF Start, Room, Covers
<1>2. OfTenant(chunks)' = OfTenant(chunks)
  BY DEF OfTenant
<1>3. Shape'
  BY <1>2 DEF Shape
<1>4. Grown(context, OfTenant(chunks), Start, Room)
        => Grown(context, OfTenant(chunks), Start, Room)'
  BY <1>1, <1>2
<1>5. BestOf(context, ranked)' = BestOf(context, ranked)
  BY DEF BestOf
<1>6. Chosen'
  BY <1>1, <1>4, <1>5 DEF Chosen
<1> QED
  BY <1>3, <1>6

(* While a request is at work nothing has been replied.                    *)
LEMMA NoReply ==
  ASSUME reply' = Nothing \/ (reply' = reply /\ stage # "idle" /\ Replied)
  PROVE  Replied'
BY DEF Replied, PassIsSupported, Nothing

LEMMA ReceiveInv ==
  ASSUME AInv, NEW q \in Queries, Receive(q)
  PROVE  AInv'
<1>1. Cands({})
  BY FS_EmptySet DEF Cands, Unique
<1>2. Shape'
  BY <1>1 DEF AInv, Shape, Receive
<1>3. Chosen'
  BY DEF Receive, Chosen
<1>4. Replied'
  BY NoReply DEF Receive
<1> QED
  BY <1>2, <1>3, <1>4 DEF AInv

LEMMA RefuseInv ==
  ASSUME AInv, NEW r, Refuse(r)
  PROVE  AInv'
<1>1. Shape' /\ Chosen'
  BY Untouched DEF AInv, Shape, Refuse
<1>2. reply'.verdict = "none"
  BY DEF Refuse, Nothing
<1>3. Replied'
  BY <1>2 DEF Refuse, Replied, PassIsSupported
<1> QED
  BY <1>1, <1>3 DEF AInv

LEMMA IndexInv ==
  ASSUME AInv, NEW doc, Index(doc)
  PROVE  AInv'
<1>1. Shape' /\ Chosen'
  BY Untouched DEF AInv, Shape, Index
<1>2. Replied'
  BY NoReply DEF AInv, Index
<1> QED
  BY <1>1, <1>2 DEF AInv

LEMMA FetchInv ==
  ASSUME AInv, FetchLexical \/ FetchVector \/ Generate
  PROVE  AInv'
<1>1. Shape' /\ Chosen'
  BY Untouched DEF AInv, Shape, FetchLexical, FetchVector, Generate
<1>2. Replied'
  BY NoReply DEF AInv, FetchLexical, FetchVector, Generate
<1> QED
  BY <1>1, <1>2 DEF AInv

LEMMA RankInv ==
  ASSUME SettingsOK, CorporaOK, AInv, RankCandidates
  PROVE  AInv'
<1> DEFINE found == {r \in Visible : r.id \in lexical \cup nearest}
<1>1. Shape
  BY DEF AInv
<1>2. PICK rows : rows = found
  OBVIOUS
<1>3. /\ rows \subseteq RowType /\ IsFiniteSet(rows) /\ rows \subseteq OfTenant(chunks)
      /\ \A r, s \in rows : r.id = s.id => r = s
  <2>1. RowsOK(Visible) /\ Visible \subseteq OfTenant(chunks)
    BY <1>1, RowsOfTenant DEF Shape
  <2>2. rows \subseteq Visible
    BY <1>2
  <2> QED
    BY <2>1, <2>2, FS_Subset DEF RowsOK
<1>4. PICK L, q, H, past, R :
        /\ L = lexical /\ q = query /\ past = traces
        /\ H = HybridRank(rows, L, q) /\ R = Boosted(H, past)
  OBVIOUS
<1>5. ranked' = R
  BY <1>2, <1>4 DEF RankCandidates
<1>6. q \in Queries /\ past \in Seq(TraceType)
  BY <1>1, <1>4 DEF Shape
<1>7. Cands(H) /\ \A c \in H : c.row \in rows
  <2>1. rows \in SUBSET RowType
    BY <1>3
  <2> QED
    BY <1>3, <1>4, <1>6, <2>1, HybridRanks
<1>8. Cands(R) /\ \A c \in R : \E d \in H : c.row = d.row
  BY <1>4, <1>6, <1>7, Boosts
<1>9. \A c \in R : c.row \in OfTenant(chunks)
  BY <1>3, <1>7, <1>8
<1>10. Shape'
  BY <1>1, <1>5, <1>8, <1>9 DEF Shape, RankCandidates, OfTenant
<1>11. Chosen'
  BY DEF RankCandidates, Chosen
<1>12. Replied'
  BY NoReply DEF AInv, RankCandidates
<1> QED
  BY <1>10, <1>11, <1>12 DEF AInv

LEMMA ExpandInv ==
  ASSUME SettingsOK, CorporaOK, AInv, ExpandContext
  PROVE  AInv'
<1>1. Shape /\ stage = "expand" /\ stage' = "budget"
  BY DEF AInv, ExpandContext
<1>2. Grown(context', OfTenant(chunks), Start, Room) /\ (Covers => BestOf(context', ranked))
  BY <1>1, EveryExpansion
<1>3. /\ config' = config /\ chunks' = chunks /\ ranked' = ranked
      /\ query' = query /\ traces' = traces /\ reply' = reply
  BY DEF ExpandContext
<1>4. /\ Start' = Start /\ Room' = Room /\ Covers' = Covers
      /\ OfTenant(chunks)' = OfTenant(chunks)
  BY <1>3 DEF Start, Room, Covers, OfTenant
<1>5. Cands(context')
  BY <1>2 DEF Grown
<1>6. Shape'
  BY <1>1, <1>3, <1>4, <1>5 DEF Shape
<1>7. Grown(context, OfTenant(chunks), Start, Room)'
  BY <1>2, <1>4
<1>8. Covers' => BestOf(context, ranked)'
  BY <1>2, <1>3, <1>4 DEF BestOf
<1>9. Chosen'
  BY <1>1, <1>7, <1>8 DEF Chosen
<1>10. Replied'
  BY <1>1, <1>3, NoReply DEF AInv
<1> QED
  BY <1>6, <1>9, <1>10 DEF AInv

(* A grown context has the chunks of the base as they are, and any other   *)
(* is a new neighbour of one of them.                                      *)
LEMMA GrownKeeps ==
  ASSUME NEW E, NEW rows, NEW B, Cands(B), NEW n \in Nat, Grown(E, rows, B, n),
         NEW extra, extra = {c \in E : c.row.id \notin Ids(B)}
  PROVE  /\ \A c \in E, s \in B : c.row.id = s.row.id => c.score = s.score
         /\ \A c \in E : c.row \in rows \/ c \in B
         /\ \A c \in extra : c.row \in rows /\ \E s \in B : Near(c.row, s.row)
         /\ Cardinality(extra) <= n
<1>1. PICK N : Around(N, rows, B, n) /\ E \subseteq B \cup N
  BY DEF Grown
<1>2. \A c \in B : c.row.id \in Ids(B)
  BY DEF Ids
<1>3. extra \subseteq N
  BY <1>1, <1>2
<1>4. \A c \in N : /\ c.row \in rows /\ c.row.id \notin Ids(B)
                   /\ \E s \in B : Near(c.row, s.row)
  BY <1>1 DEF Around
<1>5. IsFiniteSet(N) /\ Cardinality(N) <= n
  BY <1>1 DEF Around, Cands
<1>6. Cardinality(extra) <= n
  <2>1. IsFiniteSet(extra) /\ Cardinality(extra) <= Cardinality(N)
    BY <1>3, <1>5, FS_Subset
  <2>2. Cardinality(extra) \in Nat /\ Cardinality(N) \in Nat
    BY <1>5, <2>1, FS_CardinalityType
  <2> QED
    BY <1>5, <2>1, <2>2
<1>7. \A c \in E, s \in B : c.row.id = s.row.id => c.score = s.score
  <2>1. ASSUME NEW c \in E, NEW s \in B, c.row.id = s.row.id
        PROVE  c.score = s.score
    <3>1. c \in B
      BY <1>1, <1>2, <1>4, <2>1
    <3> QED
      BY <2>1, <3>1 DEF Cands, Unique
  <2> QED
    BY <2>1
<1>8. \A c \in E : c.row \in rows \/ c \in B
  BY <1>1, <1>4
<1>9. \A c \in extra : c.row \in rows /\ \E s \in B : Near(c.row, s.row)
  BY <1>3, <1>4
<1> QED
  BY <1>6, <1>7, <1>8, <1>9

LEMMA RoomType ==
  ASSUME SettingsOK, config \in Configs
  PROVE  Room \in Nat
BY ConfigTypes DEF SettingsOK, CapsOK, Room, Expansions

LEMMA CutInv ==
  ASSUME SettingsOK, CorporaOK, AInv, CutContext
  PROVE  AInv'
<1>1. /\ Shape /\ stage = "budget" /\ stage' = "generate"
      /\ Grown(context, OfTenant(chunks), Start, Room)
      /\ Covers => BestOf(context, ranked)
  BY DEF AInv, Chosen, CutContext
<1>2. CapsOK /\ config.maxTokens \in Nat /\ Room \in Nat /\ Cands(Start)
  BY <1>1, ConfigTypes, RoomType, StartIsRetrieved DEF SettingsOK, Shape
<1>3. /\ config' = config /\ chunks' = chunks /\ ranked' = ranked
      /\ query' = query /\ traces' = traces /\ reply' = reply
  BY DEF CutContext
<1>4. PICK S, A, m :
        /\ S = context /\ A = ApplyBudget(S, m)
        /\ m = config.maxTokens /\ m \in Nat
  BY <1>2
<1>5. context' = A
  BY <1>4 DEF CutContext
<1>6. Cands(S)
  BY <1>1, <1>4 DEF Shape
<1>7. /\ Cands(A)
      /\ \A a \in A : \E c \in S : a.row.id = c.row.id /\ a.score = c.score
      /\ A # {} => \E a \in A : \A s \in S : a.score >= s.score
      /\ Roomy(m) => TokensOf(A) <= m
  BY <1>2, <1>4, <1>6, Budgeted, SMTT(60)
<1>8. /\ Start' = Start /\ Room' = Room /\ Covers' = Covers
      /\ OfTenant(chunks)' = OfTenant(chunks)
  BY <1>3 DEF Start, Room, Covers, OfTenant
<1>9. Shape'
  BY <1>1, <1>3, <1>5, <1>7, <1>8 DEF Shape
<1>10. \A c \in A, s \in Start : c.row.id = s.row.id => c.score = s.score
  <2>1. \A c \in S, s \in Start : c.row.id = s.row.id => c.score = s.score
    <3>1. PICK E, rows, B, n :
            /\ E = context /\ rows = OfTenant(chunks) /\ B = Start
            /\ n = Room /\ n \in Nat
      BY <1>2
    <3>2. Grown(E, rows, B, n) /\ Cands(B) /\ n \in Nat
      BY <1>1, <1>2, <3>1
    <3>3. PICK X : X = {c \in E : c.row.id \notin Ids(B)}
      OBVIOUS
    <3>4. \A c \in E, s \in B : c.row.id = s.row.id => c.score = s.score
      BY <3>2, <3>3, GrownKeeps
    <3> QED
      BY <1>4, <3>1, <3>4
  <2> QED
    BY <1>7, <2>1
<1>11. Covers => BestOf(A, ranked)
  <2>1. ASSUME Covers, A # {}
        PROVE  \E a \in A : \A r \in ranked : a.score >= r.score
    <3>1. PICK a \in A : \A s \in S : a.score >= s.score
      BY <1>7, <2>1
    <3>2. S # {}
      BY <1>7, <2>1
    <3>3. PICK c \in S : \A r \in ranked : c.score >= r.score
      BY <1>1, <1>4, <2>1, <3>2 DEF BestOf
    <3>4. \A r \in ranked : r.score \in Nat
      BY <1>1, CandidateTypes DEF Shape, Cands
    <3>5. a.score \in Nat /\ c.score \in Nat
      BY <1>6, <1>7, CandidateTypes DEF Cands
    <3>6. \A r \in ranked : a.score >= r.score
      BY <3>1, <3>3, <3>4, <3>5
    <3> QED
      BY <3>6
  <2> QED
    BY <2>1 DEF BestOf
<1>12. Chosen'
  <2>1. \A c \in context', s \in Start' : c.row.id = s.row.id => c.score = s.score
    BY <1>5, <1>8, <1>10
  <2>2. Roomy(config'.maxTokens) => TokensOf(context') <= config'.maxTokens
    BY <1>3, <1>4, <1>5, <1>7
  <2>3. Covers' => BestOf(context, ranked)'
    BY <1>3, <1>5, <1>8, <1>11 DEF BestOf
  <2>4. stage' # "budget"
    BY <1>1
  <2> QED
    BY <2>1, <2>2, <2>3, <2>4 DEF Chosen
<1>13. Replied'
  BY <1>1, <1>3, NoReply DEF AInv
<1> QED
  BY <1>9, <1>12, <1>13 DEF AInv

(* The order of the context is total, whichever expansion has made it, so  *)
(* there is a first chunk, which the confidence is taken from.             *)
LEMMA ContextHasFirst ==
  ASSUME SettingsOK, Shape, context # {}
  PROVE  \E c \in context : \A d \in context \ {c} : InContext(c, d)
<1> DEFINE base == Base(ranked)
           docs == IF config.expansion = "doc_neighbor" THEN ChosenDocs(base) ELSE {}
<1>1. PICK S : S = context
  OBVIOUS
<1>2. Cands(S) /\ S # {}
  BY <1>1 DEF Shape
<1>3. CASE config.expansion = "none"
  <2>1. PICK c \in S : \A d \in S \ {c} : Before(c, d)
    BY <1>2, FirstBefore
  <2>2. \A d \in S \ {c} : InContext(c, d)
    BY <1>3, <2>1 DEF InContext
  <2> QED
    BY <1>1, <2>2
<1>4. CASE config.expansion # "none"
  <2>1. PICK B : B = base
    OBVIOUS
  <2>2. Cands(B)
    <3>1. PICK R : R = ranked
      OBVIOUS
    <3>2. Cands(Base(R))
      BY <3>1, BaseHasBest DEF SettingsOK, Shape
    <3> QED
      BY <2>1, <3>1, <3>2
  <2>3. PICK D : D = docs
    OBVIOUS
  <2>4. D \subseteq DocsOf(B)
    BY <2>1, <2>3 DEF ChosenDocs, FirstBy
  <2> DEFINE After(d, e) == \/ d \in D /\ e \in D /\ DocBefore(B, d, e)
                            \/ d \in D /\ e \notin D
                            \/ d \notin D /\ e \notin D /\ d < e
             L(a, b) == \/ a.row.doc = b.row.doc /\ InText(a, b)
                        \/ a.row.doc # b.row.doc /\ After(a.row.doc, b.row.doc)
             R == {p \in S \X S : L(p[1], p[2])}
  <2>5. \A a, b \in S : L(a, b) => InContext(a, b)
    BY <1>4, <2>1, <2>3 DEF InContext
  <2>6. \A d, e \in D : /\ ~DocBefore(B, d, d)
                        /\ d = e \/ DocBefore(B, d, e) \/ DocBefore(B, e, d)
    BY <2>2, <2>4, DocsAreOrdered
  <2>7. \A d, e, f \in D : DocBefore(B, d, e) /\ DocBefore(B, e, f) => DocBefore(B, d, f)
    BY <2>2, <2>4, DocsAreOrdered
  <2>8. \A d, e \in Nat : /\ ~After(d, d)
                          /\ d = e \/ After(d, e) \/ After(e, d)
    BY <2>6
  <2>9. \A d, e, f \in Nat : After(d, e) /\ After(e, f) => After(d, f)
    BY <2>7
  <2>10. \A a \in S : a.row.doc \in Nat /\ a.row.ord \in Nat /\ a.row.id \in Nat
    BY <1>2, CandidateTypes DEF Cands
  <2> HIDE DEF After
  <2>11. \A a, b, c \in S :
           /\ ~L(a, a)
           /\ L(a, b) /\ L(b, c) => L(a, c)
           /\ a = b \/ L(a, b) \/ L(b, a)
    <3>1. \A a \in S : ~InText(a, a)
      BY <2>10 DEF InText
    <3>2. \A a, b, c \in S : InText(a, b) /\ InText(b, c) => InText(a, c)
      BY <2>10 DEF InText
    <3>3. \A a, b \in S : a.row.doc = b.row.doc => a = b \/ InText(a, b) \/ InText(b, a)
      BY <1>2, <2>10 DEF InText, Cands, Unique
    <3>4. ASSUME NEW a \in S, NEW b \in S, NEW c \in S, L(a, b), L(b, c)
          PROVE  L(a, c)
      <4>1. /\ a.row.doc \in Nat /\ b.row.doc \in Nat /\ c.row.doc \in Nat
        BY <2>10
      <4>2. InText(a, b) /\ InText(b, c) => InText(a, c)
        BY <3>2
      <4> QED
        BY <2>8, <2>9, <3>4, <4>1, <4>2
    <3>5. \A a, b \in S : a = b \/ L(a, b) \/ L(b, a)
      BY <2>8, <2>10, <3>3
    <3> QED
      BY <3>1, <3>4, <3>5
  <2>12. \A a, b \in S : <<a, b>> \in R <=> L(a, b)
    OBVIOUS
  <2> HIDE DEF L, R
  <2>13. Orders(R, S)
    BY <2>11, <2>12 DEF Orders
  <2>14. IsFiniteSet(S)
    BY <1>2 DEF Cands
  <2>15. PICK c \in S : \A d \in S \ {c} : <<c, d>> \in R
    <3> HIDE DEF base, docs
    <3>1. \E x \in S : \A y \in S \ {x} : <<x, y>> \in R /\ <<y, x>> \notin R
      BY <1>2, <2>13, <2>14, FirstExists
    <3> QED
      BY <3>1
  <2> QED
    BY <1>1, <2>5, <2>12, <2>15
<1> QED
  BY <1>3, <1>4

LEMMA TraceRowsType ==
  ASSUME Cands(ranked)
  PROVE  TraceRows \in Seq(TraceType)
<1>1. PICK S, n : S = ranked /\ n = Cardinality(S)
  OBVIOUS
<1>2. Cands(S) /\ IsFiniteSet(S) /\ n \in Nat
  BY <1>1, FS_CardinalityType DEF Cands
<1> DEFINE at(k) == CHOOSE c \in S : Rank(c, S, Before) = n + 1 - k
<1>3. ASSUME NEW k \in 1 .. n
      PROVE  at(k) \in S
  <2>1. n - k \in 0 .. (Cardinality(S) - 1)
    BY <1>1, <1>2
  <2>2. PICK R : R = BeforeIn(S)
    OBVIOUS
  <2>3. Orders(R, S) /\ \A x \in S : Place(R, S, x) = Cardinality({y \in S : Before(y, x)})
    BY <1>2, <2>2, BeforeOrders
  <2>4. PICK m \in 0 .. (Cardinality(S) - 1) : m = n - k
    BY <2>1
  <2>5. PICK x \in S : Place(R, S, x) = m
    BY <1>2, <2>3, PlacesAreTaken
  <2>6. Rank(x, S, Before) = m + 1
    BY <2>3, <2>5 DEF Rank
  <2>7. m + 1 = n + 1 - k
    BY <1>2, <2>4
  <2> QED
    BY <2>6, <2>7
<1>4. TraceRows = [k \in 1 .. n |->
                     [id |-> at(k).row.id, used |-> at(k).row.id \in Ids(context)]]
  BY <1>1 DEF TraceRows
<1>5. ASSUME NEW k \in 1 .. n
      PROVE  [id |-> at(k).row.id, used |-> at(k).row.id \in Ids(context)] \in TraceType
  <2>1. at(k).row.id \in Nat
    BY <1>2, <1>3, CandidateTypes DEF Cands
  <2> QED
    BY <2>1 DEF TraceType
<1> HIDE DEF at
<1> QED
  BY <1>2, <1>4, <1>5

LEMMA NewestType ==
  ASSUME SettingsOK, NEW s \in Seq(TraceType)
  PROVE  Newest(s) \in Seq(TraceType)
<1>1. /\ Len(s) \in Nat /\ TraceWindow \in Nat
      /\ Len(s) \in Int /\ TraceWindow \in Int
  BY DEF SettingsOK
<1>2. PICK n : n = Smallest({TraceWindow, Len(s)})
  OBVIOUS
<1>3. n \in Nat /\ n <= Len(s)
  <2>1. n = IF TraceWindow < Len(s) THEN TraceWindow ELSE Len(s)
    BY <1>1, <1>2, ExtremesOfTwo
  <2> QED
    BY <1>1, <2>1
<1>4. \A k \in 1 .. n : s[k] \in TraceType
  BY <1>1, <1>3, ElementOfSeq
<1>5. SubSeq(s, 1, n) \in Seq(TraceType)
  BY <1>3, <1>4, SubSeqProperties
<1> QED
  BY <1>2, <1>5 DEF Newest

(* AgentPipeline.run lets an answer through only above the threshold, and  *)
(* the verification only if everything in it is supported.                 *)
LEMMA PassNeeds ==
  ASSUME SettingsOK, Shape, PipelineVerdict(Analysed) = "PASS"
  PROVE  /\ context # {} /\ PipelineResult(Analysed) = "answer"
         /\ config.generation =>
              /\ output = "supported"
              /\ \E c \in context : c.score \in Threshold..1000
<1>1. /\ Analysed.needed = FALSE /\ Analysed.confidence = Confidence
      /\ Analysed.threshold = IF config.generation THEN Threshold ELSE -1
      /\ Analysed.verdict = Verdict
  BY DEF Analysed
<1>2. PipelineResult(Analysed) # "clarification"
  BY <1>1 DEF PipelineResult, DepthExceeded, Clarifies
<1>3. PipelineResult(Analysed) = "answer" /\ Verdict = "PASS"
  BY <1>1, <1>2 DEF PipelineVerdict
<1>4. context # {} /\ (config.generation => output = "supported")
  BY <1>3 DEF Verdict
<1>5. ConfidenceOK(Confidence) /\ ~(Confidence < Analysed.threshold)
  <2>1. CASE ~ConfidenceOK(Confidence)
    BY <1>1, <1>3, <2>1 DEF PipelineResult, DepthExceeded, Clarifies
  <2>2. CASE ConfidenceOK(Confidence) /\ Confidence < Analysed.threshold
    BY <1>1, <1>3, <2>2 DEF PipelineResult, DepthExceeded, Clarifies
  <2> QED
    BY <2>1, <2>2
<1>6. ASSUME config.generation
      PROVE  \E c \in context : c.score \in Threshold..1000
  <2> DEFINE first == CHOOSE c \in context : \A d \in context \ {c} : InContext(c, d)
  <2>1. first \in context
    BY <1>4, ContextHasFirst
  <2>2. Confidence = first.score
    BY <1>4, <1>6 DEF Confidence
  <2> HIDE DEF first
  <2>3. Threshold \in Nat /\ Analysed.threshold = Threshold
    BY <1>1, <1>6 DEF SettingsOK
  <2>4. first.score \in 0..1000 /\ ~(first.score < Threshold)
    BY <1>5, <2>2, <2>3 DEF ConfidenceOK
  <2>5. PICK k \in 0..1000 : k = first.score
    BY <2>4
  <2>6. k \in Threshold..1000
    BY <2>3, <2>4, <2>5
  <2> QED
    BY <2>1, <2>5, <2>6
<1> QED
  BY <1>3, <1>4, <1>6

LEMMA AnalyseInv ==
  ASSUME SettingsOK, AInv, Analyse
  PROVE  AInv'
<1>1. Shape /\ stage = "analyse" /\ stage' = "idle"
  BY DEF AInv, Analyse
<1>2. /\ config' = config /\ chunks' = chunks /\ ranked' = ranked
      /\ query' = query /\ context' = context /\ output' = output
  BY DEF Analyse
<1>3. traces' \in Seq(TraceType)
  <2>1. TraceRows \in Seq(TraceType) /\ traces \in Seq(TraceType)
    BY <1>1, TraceRowsType DEF Shape
  <2>2. Newest(TraceRows \o traces) \in Seq(TraceType)
    BY <1>1, <2>1, ConcatProperties, NewestType
  <2> QED
    BY <2>1, <2>2 DEF Analyse
<1>4. Shape' /\ Chosen'
  BY <1>1, <1>2, <1>3, Untouched DEF AInv, Shape
<1>5. reply'.result = PipelineResult(Analysed) /\ reply'.verdict = PipelineVerdict(Analysed)
  BY DEF Analyse
<1>6. Replied'
  <2>1. ASSUME reply'.verdict = "PASS"
        PROVE  /\ context # {} /\ reply'.result = "answer"
               /\ config.generation =>
                    /\ output = "supported"
                    /\ \E c \in context : c.score \in Threshold..1000
    BY <1>1, <1>5, <2>1, PassNeeds
  <2>2. PassIsSupported'
    BY <1>2, <2>1 DEF PassIsSupported
  <2> QED
    BY <1>1, <2>2 DEF Replied
<1> QED
  BY <1>4, <1>6 DEF AInv

LEMMA StepInv ==
  ASSUME SettingsOK, CorporaOK, AInv, [AnswerNext]_answerVars
  PROVE  AInv'
<1>1. CASE \E q \in Queries : Receive(q)
  BY <1>1, ReceiveInv
<1>2. CASE EmbeddingFails \/ PromptTooLong \/ OutputRaises
  BY <1>2, RefuseInv DEF EmbeddingFails, PromptTooLong, OutputRaises
<1>3. CASE FetchLexical \/ FetchVector \/ Generate
  BY <1>3, FetchInv
<1>4. CASE RankCandidates
  BY <1>4, RankInv
<1>5. CASE ExpandContext
  BY <1>5, ExpandInv
<1>6. CASE CutContext
  BY <1>6, CutInv
<1>7. CASE Analyse
  BY <1>7, AnalyseInv
<1>8. CASE \E doc \in Late : Index(doc)
  BY <1>8, IndexInv
<1>9. CASE UNCHANGED answerVars
  <2>1. /\ UNCHANGED <<config, chunks, requests, stage, query>>
        /\ UNCHANGED <<ranked, context, output, reply, traces>>
    BY <1>9 DEF answerVars
  <2>2. Shape' /\ Chosen'
    BY <2>1, Untouched DEF AInv, Shape
  <2>3. Replied'
    BY <2>1 DEF AInv, Replied, PassIsSupported
  <2> QED
    BY <2>2, <2>3 DEF AInv
<1> QED
  BY <1>1, <1>2, <1>3, <1>4, <1>5, <1>6, <1>7, <1>8, <1>9 DEF AnswerNext

(* The invariant holds however many documents are indexed and requests     *)
(* answered, in whichever order.                                           *)
THEOREM AnswerInvariant ==
  ASSUME SettingsOK, CorporaOK
  PROVE  AnswerSpec => []AInv
<1>1. AnswerInit => AInv
  BY InitInv
<1>2. AInv /\ [AnswerNext]_answerVars => AInv'
  BY StepInv
<1> QED
  BY <1>1, <1>2, PTL DEF AnswerSpec

-----------------------------------------------------------------------------
(* Before the budget (fetch_neighbors, the modes of the engine, and the    *)
(* tenant_id of every statement): a chunk of the context belongs to the    *)
(* tenant, and was retrieved or is from a window around what was.          *)
THEOREM ContextJustified ==
  ASSUME SettingsOK, CorporaOK
  PROVE  AnswerSpec => []ContextIsJustified
<1>1. AInv => ContextIsJustified
  <2> DEFINE extra == {c \in context : c.row.id \notin Ids(Start)}
  <2>1. SUFFICES ASSUME AInv, stage = "budget"
                 PROVE  /\ \A c \in context : c.row.tenant = Tenant
                        /\ \A c \in extra : \E s \in Start :
                             /\ c.row.doc = s.row.doc
                             /\ c.row.ord \in s.row.ord - NeighborWindow
                                               .. s.row.ord + NeighborWindow
                        /\ Cardinality(extra) <= Room
    BY DEF ContextIsJustified, Room
  <2>2. Shape /\ CapsOK /\ Room \in Nat /\ Cands(Start) /\ Start \subseteq ranked
    BY <2>1, RoomType, StartIsRetrieved DEF AInv, SettingsOK, Shape
  <2>3. PICK E, rows, B, n :
          /\ E = context /\ rows = OfTenant(chunks) /\ B = Start
          /\ n = Room /\ n \in Nat
    BY <2>2
  <2>4. Grown(E, rows, B, n) /\ Cands(B) /\ n \in Nat
    BY <2>1, <2>2, <2>3 DEF AInv, Chosen
  <2>5. PICK X : X = {c \in E : c.row.id \notin Ids(B)}
    OBVIOUS
  <2>6. /\ \A c \in E : c.row \in rows \/ c \in B
        /\ \A c \in X : c.row \in rows /\ \E s \in B : Near(c.row, s.row)
        /\ Cardinality(X) <= n
    BY <2>4, <2>5, GrownKeeps
  <2>7. \A c \in E : c.row.tenant = Tenant
    <3>1. \A r \in rows : r.tenant = Tenant
      BY <2>2, <2>3, RowsOfTenant DEF Shape
    <3>2. \A c \in B : c.row \in rows
      BY <2>2, <2>3 DEF Shape
    <3> QED
      BY <2>6, <3>1, <3>2
  <2>8. \A c \in X : \E s \in B :
          /\ c.row.doc = s.row.doc
          /\ c.row.ord \in s.row.ord - NeighborWindow .. s.row.ord + NeighborWindow
    <3>1. ASSUME NEW c \in X
          PROVE  \E s \in B :
                   /\ c.row.doc = s.row.doc
                   /\ c.row.ord \in s.row.ord - NeighborWindow
                                     .. s.row.ord + NeighborWindow
      <4>1. PICK s \in B : Near(c.row, s.row)
        BY <2>6
      <4>2. c.row \in RowType /\ s.row \in RowType
        BY <2>4, <2>5, CandidateTypes DEF Cands, Grown
      <4> QED
        BY <2>2, <4>1, <4>2, NearIsClose
    <3> QED
      BY <3>1
  <2> QED
    BY <2>3, <2>5, <2>6, <2>7, <2>8
<1> QED
  BY <1>1, AnswerInvariant, PTL

(* A retrieved chunk keeps its score through the expansion, where it may   *)
(* be a neighbour as well, and through the budget (expand_neighbors,       *)
(* ContextExpansionEngine.expand, apply_context_budget).                   *)
THEOREM ScoresAreKept ==
  ASSUME SettingsOK, CorporaOK
  PROVE  AnswerSpec => []RetrievedKeepScores
<1>1. AInv => RetrievedKeepScores
  <2>1. SUFFICES ASSUME AInv, stage = "budget"
                 PROVE  \A c \in context, s \in Start :
                          c.row.id = s.row.id => c.score = s.score
    BY DEF AInv, Chosen, RetrievedKeepScores
  <2>2. Room \in Nat /\ Cands(Start)
    BY <2>1, RoomType, StartIsRetrieved DEF AInv, Shape
  <2>3. PICK E, rows, B, n :
          /\ E = context /\ rows = OfTenant(chunks) /\ B = Start
          /\ n = Room /\ n \in Nat
    BY <2>2
  <2>4. Grown(E, rows, B, n) /\ Cands(B) /\ n \in Nat
    BY <2>1, <2>2, <2>3 DEF AInv, Chosen
  <2>5. PICK X : X = {c \in E : c.row.id \notin Ids(B)}
    OBVIOUS
  <2>6. \A c \in E, s \in B : c.row.id = s.row.id => c.score = s.score
    BY <2>4, <2>5, GrownKeeps
  <2> QED
    BY <2>3, <2>6
<1> QED
  BY <1>1, AnswerInvariant, PTL

(* apply_context_budget never leaves more than MAX_CONTEXT_TOKENS, with    *)
(* the chunk it may truncate, if the safety margin is not 0 and there is   *)
(* room for a marker: neither setting is validated, the defaults are 256   *)
(* and 65536.                                                              *)
THEOREM BudgetHolds ==
  ASSUME SettingsOK, CorporaOK, \A c \in Configs : Roomy(c.maxTokens)
  PROVE  AnswerSpec => []ContextFits
<1>1. AInv => ContextFits
  BY DEF AInv, Shape, Chosen, ContextFits
<1> QED
  BY <1>1, AnswerInvariant, PTL

(* Through expansion, filters and budget a context keeps a chunk with the  *)
(* best score of what was retrieved.                                       *)
THEOREM BestStays ==
  ASSUME SettingsOK, CorporaOK
  PROVE  AnswerSpec => []BestIsKept
<1>1. AInv => BestIsKept
  BY DEF AInv, Chosen, Covers, BestOf, BestIsKept
<1> QED
  BY <1>1, AnswerInvariant, PTL

(* only_sources: a PASS has sources, a confidence above the threshold and, *)
(* if it was generated, only supported sentences (verify_answer,           *)
(* AgentPipeline.run, post_query).                                         *)
THEOREM PassSupported ==
  ASSUME SettingsOK, CorporaOK
  PROVE  AnswerSpec => []PassIsSupported
<1>1. AInv => PassIsSupported
  BY DEF AInv, Replied
<1> QED
  BY <1>1, AnswerInvariant, PTL

=============================================================================
