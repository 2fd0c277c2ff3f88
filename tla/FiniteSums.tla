------------------------------ MODULE FiniteSums ------------------------------
(***************************************************************************)
(* Lemmas about sums over finite sets, as MapThenSumSet of the community   *)
(* modules takes them, for the proof modules that extend this one.         *)
(***************************************************************************)
EXTENDS Integers, FiniteSetTheorems, TLAPS

-----------------------------------------------------------------------------
(* Sums over finite sets.  Where a proof needs an induction it takes a     *)
(* smallest set of those it wants to show empty.                           *)

LEMMA SmallestSet ==
  ASSUME NEW S, IsFiniteSet(S), NEW X \in SUBSET (SUBSET S), X # {}
  PROVE  \E M \in X : \A T \in X : T \subseteq M => T = M
<1>1. X \subseteq FiniteSubsetsOf(S)
  BY FS_Subset DEF FiniteSubsetsOf
<1>2. \E M \in X : \A T \in X : ~(<<T, M>> \in StrictSubsetOrdering(S))
  BY <1>1, FS_StrictSubsetOrderingWellFounded, WFMin
<1>3. PICK M \in X : \A T \in X : ~(<<T, M>> \in StrictSubsetOrdering(S))
  BY <1>2
<1>4. ASSUME NEW T \in X, T \subseteq M, T # M PROVE FALSE
  <2>1. <<T, M>> \in StrictSubsetOrdering(S)
    BY <1>4 DEF StrictSubsetOrdering
  <2> QED BY <1>3, <2>1
<1> QED BY <1>4

OneOf(s) == CHOOSE x \in s : TRUE

(* The sums of the weights w over the subsets of S, as MapThenSumSet takes *)
(* them                                                                    *)
Sums(it, w, S) ==
  it = [s \in SUBSET S |->
          IF s = {} THEN 0 ELSE w[OneOf(s)] + it[s \ {OneOf(s)}]]

Total(w, S) == (CHOOSE it : Sums(it, w, S))[S]

LEMMA SumsAreUnique ==
  ASSUME NEW w, NEW S, NEW T, NEW U, IsFiniteSet(U), U \subseteq S, U \subseteq T,
         NEW f, Sums(f, w, S), NEW g, Sums(g, w, T)
  PROVE  f[U] = g[U]
<1> DEFINE X == {V \in SUBSET U : f[V] # g[V]}
<1>1. ASSUME X # {} PROVE FALSE
  <2>1. PICK V \in X : \A W \in X : W \subseteq V => W = V
    <3>1. X \in SUBSET (SUBSET U)
      OBVIOUS
    <3> HIDE DEF X
    <3> QED BY <1>1, <3>1, SmallestSet
  <2>2. CASE V = {}
    <3>1. f[V] = 0 /\ g[V] = 0
      BY <2>2 DEF Sums
    <3> QED BY <3>1
  <2>3. CASE V # {}
    <3> DEFINE x == OneOf(V)
    <3>1. x \in V /\ V \in SUBSET S /\ V \in SUBSET T
      BY <2>3 DEF OneOf
    <3>2. f[V \ {x}] = g[V \ {x}]
      <4>1. V \ {x} \subseteq V /\ V \ {x} # V /\ V \ {x} \in SUBSET U
        BY <3>1
      <4>2. V \ {x} \notin X
        BY <2>1, <4>1
      <4> QED BY <4>1, <4>2
    <3>3. f[V] = w[x] + f[V \ {x}] /\ g[V] = w[x] + g[V \ {x}]
      BY <2>3, <3>1 DEF Sums
    <3>4. f[V] = g[V]
      BY <3>2, <3>3
    <3> QED BY <3>4
  <2> QED BY <2>2, <2>3
<1> QED BY <1>1

LEMMA SumsExist ==
  ASSUME NEW w, NEW S, IsFiniteSet(S)
  PROVE  \E it : Sums(it, w, S)
<1> DEFINE X == {T \in SUBSET S : ~\E it : Sums(it, w, T)}
<1>1. ASSUME X # {} PROVE FALSE
  <2>1. PICK T \in X : \A W \in X : W \subseteq T => W = T
    <3>1. X \in SUBSET (SUBSET S)
      OBVIOUS
    <3> HIDE DEF X
    <3> QED BY <1>1, <3>1, SmallestSet
  <2>2. ASSUME NEW W \in SUBSET T, W # T
        PROVE  IsFiniteSet(W) /\ Sums(CHOOSE it : Sums(it, w, W), w, W)
    <3>1. W \notin X /\ W \in SUBSET S
      BY <2>1, <2>2
    <3>2. \E it : Sums(it, w, W)
      BY <3>1
    <3> QED BY <3>1, <3>2, FS_Subset
  <2> DEFINE rest(s) == Total(w, s \ {OneOf(s)})
  <2> DEFINE f == [s \in SUBSET T |->
                     IF s = {} THEN 0 ELSE w[OneOf(s)] + rest(s)]
  <2>3. ASSUME NEW s \in SUBSET T, s # {}
        PROVE  f[s \ {OneOf(s)}] = rest(s)
    <3> DEFINE W == s \ {OneOf(s)}
    <3>1. OneOf(s) \in s
      BY <2>3 DEF OneOf
    <3>2. W \in SUBSET T /\ W # T
      BY <3>1
    <3>3. PICK h : h = (CHOOSE it : Sums(it, w, W))
      OBVIOUS
    <3> HIDE DEF W
    <3>4. Sums(h, w, W) /\ Total(w, W) = h[W]
      BY <2>2, <3>2, <3>3 DEF Total
    <3>5. CASE W = {}
      <4>1. h[W] = 0
        BY <3>4, <3>5 DEF Sums
      <4>2. f[W] = 0
        BY <3>2, <3>5
      <4> QED BY <3>4, <4>1, <4>2 DEF W
    <3>6. CASE W # {}
      <4> DEFINE V == W \ {OneOf(W)}
      <4>1. OneOf(W) \in W
        BY <3>6 DEF OneOf
      <4>2. V \in SUBSET T /\ V # T /\ V \subseteq W
        BY <3>2, <4>1
      <4>3. PICK k : k = (CHOOSE it : Sums(it, w, V))
        OBVIOUS
      <4>4. Sums(k, w, V) /\ Total(w, V) = k[V] /\ IsFiniteSet(V)
        BY <2>2, <4>2, <4>3 DEF Total
      <4>5. h[V] = k[V]
        BY <3>4, <4>2, <4>4, SumsAreUnique
      <4>6. h[W] = w[OneOf(W)] + h[V]
        BY <3>4, <3>6 DEF Sums
      <4>7. f[W] = w[OneOf(W)] + Total(w, V)
        BY <3>2, <3>6
      <4> QED BY <3>4, <4>4, <4>5, <4>6, <4>7 DEF W
    <3> QED BY <3>5, <3>6
  <2>4. Sums(f, w, T)
    <3>1. \A s \in SUBSET T :
            f[s] = IF s = {} THEN 0 ELSE w[OneOf(s)] + f[s \ {OneOf(s)}]
      BY <2>3
    <3>2. f = [s \in SUBSET T |-> f[s]]
      OBVIOUS
    <3> HIDE DEF f
    <3> QED BY <3>1, <3>2 DEF Sums
  <2> QED BY <2>1, <2>4
<1> QED BY <1>1

LEMMA TotalStep ==
  ASSUME NEW w, NEW S, IsFiniteSet(S)
  PROVE  /\ Total(w, {}) = 0
         /\ S # {} => Total(w, S) = w[OneOf(S)] + Total(w, S \ {OneOf(S)})
<1>1. ASSUME NEW T, IsFiniteSet(T)
      PROVE  \E it : Sums(it, w, T) /\ Total(w, T) = it[T]
  <2>1. PICK f : f = (CHOOSE it : Sums(it, w, T))
    OBVIOUS
  <2>2. Sums(f, w, T)
    BY <1>1, <2>1, SumsExist
  <2> QED BY <2>1, <2>2 DEF Total
<1>2. Total(w, {}) = 0
  <2>1. PICK it : Sums(it, w, {}) /\ Total(w, {}) = it[{}]
    BY <1>1, FS_EmptySet
  <2> QED BY <2>1 DEF Sums
<1>3. ASSUME S # {} PROVE Total(w, S) = w[OneOf(S)] + Total(w, S \ {OneOf(S)})
  <2> DEFINE T == S \ {OneOf(S)}
  <2>1. IsFiniteSet(T) /\ T \subseteq S
    BY FS_Subset
  <2>2. PICK f : Sums(f, w, S) /\ Total(w, S) = f[S]
    BY <1>1
  <2>3. PICK g : Sums(g, w, T) /\ Total(w, T) = g[T]
    BY <1>1, <2>1
  <2>4. f[T] = g[T]
    BY <2>1, <2>2, <2>3, SumsAreUnique
  <2>5. f[S] = w[OneOf(S)] + f[T]
    BY <1>3, <2>2 DEF Sums
  <2> QED BY <2>2, <2>3, <2>4, <2>5
<1> QED BY <1>2, <1>3

(* The order of the summands does not matter.                              *)
LEMMA TotalWithout ==
  ASSUME NEW S, IsFiniteSet(S), NEW w \in [S -> Nat], NEW U \in SUBSET S
  PROVE  /\ Total(w, U) \in Nat
         /\ \A c \in U : Total(w, U) = w[c] + Total(w, U \ {c})
<1> DEFINE OK(T) == /\ Total(w, T) \in Nat
                    /\ \A c \in T : Total(w, T) = w[c] + Total(w, T \ {c})
<1> DEFINE X == {T \in SUBSET S : ~OK(T)}
<1>1. ASSUME X # {} PROVE FALSE
  <2> HIDE DEF OK
  <2>1. PICK T \in X : \A W \in X : W \subseteq T => W = T
    <3>1. X \in SUBSET (SUBSET S)
      OBVIOUS
    <3> HIDE DEF X
    <3> QED BY <1>1, <3>1, SmallestSet
  <2>2. IsFiniteSet(T) /\ T \in SUBSET S
    BY FS_Subset
  <2>3. ASSUME NEW W \in SUBSET T, W # T PROVE OK(W)
    BY <2>1, <2>3
  <2>4. CASE T = {}
    <3>1. Total(w, {}) = 0
      BY TotalStep
    <3>2. OK({})
      BY <3>1 DEF OK
    <3> QED BY <2>4, <3>2
  <2>5. CASE T # {}
    <3> DEFINE x == OneOf(T)
    <3>1. x \in T
      BY <2>5 DEF OneOf
    <3>2. Total(w, T) = w[x] + Total(w, T \ {x})
      BY <2>2, <2>5, TotalStep
    <3> HIDE DEF x
    <3>3. OK(T \ {x})
      BY <2>3, <3>1
    <3>4. Total(w, T) \in Nat
      BY <2>2, <3>1, <3>2, <3>3 DEF OK
    <3>5. ASSUME NEW c \in T PROVE Total(w, T) = w[c] + Total(w, T \ {c})
      <4>1. CASE c = x
        BY <3>2, <4>1
      <4>2. CASE c # x
        <5>1. /\ c \in T \ {x} /\ x \in T \ {c}
              /\ (T \ {x}) \ {c} = (T \ {c}) \ {x}
          BY <3>1, <4>2
        <5>2. Total(w, T \ {x}) = w[c] + Total(w, (T \ {x}) \ {c})
          BY <3>3, <5>1 DEF OK
        <5>3. OK(T \ {c})
          BY <2>3
        <5>4. Total(w, T \ {c}) = w[x] + Total(w, (T \ {c}) \ {x})
          BY <5>1, <5>3 DEF OK
        <5>5. OK((T \ {x}) \ {c})
          BY <2>3, <3>1
        <5>6. /\ w[x] \in Nat /\ w[c] \in Nat
              /\ Total(w, (T \ {x}) \ {c}) \in Nat
          BY <2>2, <3>1, <5>5 DEF OK
        <5> QED BY <3>2, <5>1, <5>2, <5>4, <5>6
      <4> QED BY <4>1, <4>2
    <3>6. OK(T)
      BY <3>4, <3>5 DEF OK
    <3> QED BY <3>6
  <2> QED BY <2>4, <2>5
<1> QED BY <1>1

(* A part has no larger sum.                                               *)
LEMMA TotalGrows ==
  ASSUME NEW S, IsFiniteSet(S), NEW w \in [S -> Nat], NEW U \in SUBSET S,
         NEW V \in SUBSET U
  PROVE  Total(w, V) <= Total(w, U)
<1> DEFINE X == {T \in SUBSET S : V \subseteq T /\ ~(Total(w, V) <= Total(w, T))}
<1>1. ASSUME X # {} PROVE FALSE
  <2>1. PICK T \in X : \A W \in X : W \subseteq T => W = T
    <3>1. X \in SUBSET (SUBSET S)
      OBVIOUS
    <3> HIDE DEF X
    <3> QED BY <1>1, <3>1, SmallestSet
  <2>2. Total(w, V) \in Nat /\ Total(w, T) \in Nat
    BY TotalWithout
  <2>3. PICK c \in T : c \notin V
    BY <2>1, <2>2
  <2>4. T \ {c} \in SUBSET S /\ V \subseteq T \ {c} /\ T \ {c} \notin X
    BY <2>1, <2>3
  <2>5. Total(w, V) <= Total(w, T \ {c})
    BY <2>4
  <2>6. Total(w, T \ {c}) \in Nat /\ w[c] \in Nat
    BY <2>4, TotalWithout
  <2>7. Total(w, T) = w[c] + Total(w, T \ {c})
    BY TotalWithout
  <2>8. Total(w, V) <= Total(w, T)
    BY <2>2, <2>5, <2>6, <2>7
  <2> QED BY <2>8
<1> QED BY <1>1
===============================================================================
