--------------------------- MODULE Chunking_proofs ---------------------------
(***************************************************************************)
(* What Chunking promises of the chunks of any document, for any sizes.    *)
(* The parser leaves blocks in order that cover the lines (BlocksOK); the  *)
(* chunks built so far are pieces of the first blocks (Pieces), and pieces *)
(* of the next blocks can be put after them (PiecesJoin).                  *)
(***************************************************************************)
EXTENDS Chunking, FiniteSums, SequenceTheorems, NaturalsInduction

-----------------------------------------------------------------------------
(* The smallest and the largest of a set of numbers                        *)

LEMMA SmallestNumber ==
  ASSUME NEW X \in SUBSET Nat, X # {}
  PROVE  \E m \in X : \A x \in X : m <= x
<1>1. PICK m \in X : \A x \in X : ~(<<x, m>> \in OpToRel(<, Nat))
  BY NatLessThanWellFounded, WFMin
<1>2. ASSUME NEW x \in X PROVE m <= x
  <2>1. ~(x < m)
    BY <1>1 DEF OpToRel
  <2> QED BY <2>1
<1> QED BY <1>2

LEMMA Chain ==
  ASSUME NEW w \in Int, NEW x \in Int, NEW y \in Int, NEW z \in Int,
         x <= y, y <= z
  PROVE  (w <= x => w <= z) /\ (w < x => w < z)
OBVIOUS

LEMMA Wider ==
  ASSUME NEW w \in Int, NEW x \in Int, NEW y \in Int, NEW z \in Int,
         w <= x, y <= z, NEW q \in x..(y - 1)
  PROVE  q \in w..(z - 1)
OBVIOUS

LEMMA LargestNumber ==
  ASSUME NEW X \in SUBSET Nat, X # {}, NEW b \in Nat, \A x \in X : x <= b
  PROVE  \E m \in X : \A x \in X : x <= m
<1> DEFINE Y == {b - x : x \in X}
<1>1. Y \in SUBSET Nat /\ Y # {}
  <2>1. \A x \in X : x \in Nat /\ b - x \in Nat
    OBVIOUS
  <2> QED BY <2>1
<1>2. PICK y \in Y : \A z \in Y : y <= z
  <2> HIDE DEF Y
  <2> QED BY <1>1, SmallestNumber
<1>3. PICK m \in X : y = b - m
  OBVIOUS
<1>4. ASSUME NEW x \in X PROVE x <= m
  <2>1. b - x \in Y
    OBVIOUS
  <2>2. b - m <= b - x
    BY <1>2, <1>3, <2>1
  <2> QED BY <2>2
<1> QED BY <1>4

-----------------------------------------------------------------------------
(* Positions in a document                                                 *)

Line == [kind : Kinds, words : Nat]

Document(d) ==
  /\ d \in Seq(Line)
  /\ \A k \in 1..Len(d) : d[k].kind = "blank" <=> d[k].words = 0

Sizes(d) == [k \in 1..Len(d) |-> d[k].words]
Pos(d) == [k \in 1..(Len(d) + 1) |-> Total(Sizes(d), 1..(k - 1))]

LEMMA Positions ==
  ASSUME NEW d, Document(d)
  PROVE  /\ Pos(d) \in [1..(Len(d) + 1) -> Nat]
         /\ \A k \in 1..Len(d) : Pos(d)[k + 1] = Pos(d)[k] + d[k].words
         /\ \A j, k \in 1..(Len(d) + 1) : j <= k => Pos(d)[j] <= Pos(d)[k]
<1> DEFINE S == 1..Len(d)
<1> DEFINE w == Sizes(d)
<1>1. Len(d) \in Nat /\ \A k \in S : d[k] \in Line
  BY DEF Document
<1>2. IsFiniteSet(S) /\ w \in [S -> Nat]
  <2>1. 1 \in Int /\ Len(d) \in Int
    BY <1>1
  <2>2. IsFiniteSet(S)
    BY <2>1, FS_Interval
  <2>3. \A k \in S : d[k].words \in Nat
    BY <1>1 DEF Line
  <2> QED BY <2>2, <2>3 DEF Sizes
<1>3. \A k \in S : w[k] = d[k].words
  BY DEF Sizes
<1> HIDE DEF w
<1>4. ASSUME NEW k \in 1..(Len(d) + 1)
      PROVE  Pos(d)[k] = Total(w, 1..(k - 1)) /\ 1..(k - 1) \in SUBSET S
  BY <1>1, <1>4 DEF Pos, w
<1>5. Pos(d) \in [1..(Len(d) + 1) -> Nat]
  <2>1. \A k \in 1..(Len(d) + 1) : Pos(d)[k] \in Nat
    BY SMTT(30), <1>2, <1>4, TotalWithout
  <2> QED BY <2>1 DEF Pos
<1>6. ASSUME NEW k \in 1..Len(d) PROVE Pos(d)[k + 1] = Pos(d)[k] + d[k].words
  <2>1. k \in 1..(Len(d) + 1) /\ k + 1 \in 1..(Len(d) + 1) /\ (k + 1) - 1 = k
    BY <1>1
  <2>2. k \in 1..k /\ (1..k) \ {k} = 1..(k - 1) /\ 1..k \in SUBSET S
    BY <1>1
  <2>3. Total(w, 1..k) = w[k] + Total(w, 1..(k - 1))
    BY SMTT(30), <1>2, <2>2, TotalWithout
  <2>4. Pos(d)[k + 1] = Total(w, 1..k) /\ Pos(d)[k] = Total(w, 1..(k - 1))
    BY <1>4, <2>1
  <2>5. w[k] \in Nat /\ Pos(d)[k] \in Nat
    BY <1>2, <1>5, <2>1
  <2> QED BY <1>3, <2>3, <2>4, <2>5
<1>7. ASSUME NEW j \in 1..(Len(d) + 1), NEW k \in 1..(Len(d) + 1), j <= k
      PROVE  Pos(d)[j] <= Pos(d)[k]
  <2>1. 1..(j - 1) \in SUBSET (1..(k - 1))
    BY <1>1, <1>7
  <2> QED BY <1>2, <1>4, <2>1, TotalGrows
<1> QED BY <1>5, <1>6, <1>7

LEMMA AtIsPos ==
  ASSUME Document(lines), NEW k \in 1..(Len(lines) + 1)
  PROVE  At(k) = Pos(lines)[k]
<1> DEFINE T == 1..(k - 1)
<1> DEFINE w == Sizes(lines)
<1> DEFINE P(it) ==
      it = [s \in SUBSET T |->
              IF s = {} THEN 0
              ELSE LET x == CHOOSE x \in s : TRUE
                   IN  lines[x].words + it[s \ {x}]]
<1>1. At(k) = (CHOOSE it : P(it))[T]
  BY DEF At, MapThenSumSet, MapThenFoldSet
<1>2. ASSUME NEW it PROVE P(it) <=> Sums(it, w, T)
  <2> DEFINE f == [s \in SUBSET T |->
                     IF s = {} THEN 0
                     ELSE LET x == CHOOSE x \in s : TRUE
                          IN  lines[x].words + it[s \ {x}]]
  <2> DEFINE g == [s \in SUBSET T |->
                     IF s = {} THEN 0 ELSE w[OneOf(s)] + it[s \ {OneOf(s)}]]
  <2>1. ASSUME NEW s \in SUBSET T PROVE f[s] = g[s]
    <3>1. CASE s = {}
      BY <3>1
    <3>2. CASE s # {}
      <4>1. OneOf(s) \in s /\ Len(lines) \in Nat
        BY <3>2 DEF OneOf, Document
      <4>2. OneOf(s) \in 1..Len(lines)
        <5>1. OneOf(s) \in 1..(k - 1)
          BY <4>1
        <5> QED BY <4>1, <5>1
      <4>3. w[OneOf(s)] = lines[OneOf(s)].words
        BY <4>2 DEF Sizes
      <4>4. f[s] = lines[OneOf(s)].words + it[s \ {OneOf(s)}]
        BY <3>2 DEF OneOf
      <4> HIDE DEF w
      <4> QED BY <3>2, <4>3, <4>4
    <3> QED BY <3>1, <3>2
  <2>2. f = g
    <3>1. f = [s \in SUBSET T |-> f[s]] /\ g = [s \in SUBSET T |-> g[s]]
      OBVIOUS
    <3> HIDE DEF f, g
    <3> QED BY <2>1, <3>1
  <2>3. P(it) <=> it = f
    OBVIOUS
  <2>4. Sums(it, w, T) <=> it = g
    BY DEF Sums
  <2> QED BY <2>2, <2>3, <2>4
<1>3. IsFiniteSet(T)
  BY FS_Interval DEF Document
<1>4. Pos(lines)[k] = Total(w, T)
  BY DEF Pos
<1> HIDE DEF P, w, T
<1>5. PICK f : f = (CHOOSE it : P(it))
  OBVIOUS
<1>6. PICK g : g = (CHOOSE it : Sums(it, w, T))
  OBVIOUS
<1>7. (\E it : Sums(it, w, T)) /\ (\E it : P(it))
  BY <1>2, <1>3, SumsExist
<1>8. Sums(f, w, T) /\ Sums(g, w, T)
  BY <1>2, <1>5, <1>6, <1>7
<1>9. f[T] = g[T]
  BY <1>3, <1>8, SumsAreUnique
<1> QED BY <1>1, <1>4, <1>5, <1>6, <1>9 DEF Total

-----------------------------------------------------------------------------
(* Blocks                                                                  *)

BlockTypes == {"code", "table", "list", "quote", "paragraph"}

BlockSet(d) ==
  [type : BlockTypes, line : 1..Len(d), end : 1..(Len(d) + 1), section : Nat]

(* A block starts with words, one that is not code has words in each line, *)
(* and a table has at least its head and the line under it.                *)
BlockOK(d, b) ==
  /\ b \in BlockSet(d)
  /\ b.line < b.end
  /\ d[b.line].kind # "blank"
  /\ b.type # "code" => \A k \in b.line..(b.end - 1) : d[k].kind # "blank"
  /\ b.type = "table" => b.line + 2 <= b.end

BlocksOK(d, bs) ==
  /\ bs \in Seq(BlockSet(d))
  /\ \A n \in 1..Len(bs) : BlockOK(d, bs[n])
  /\ \A m, n \in 1..Len(bs) : m < n => bs[m].end <= bs[n].line

InBlock(bs, k) == \E n \in 1..Len(bs) : k \in bs[n].line..(bs[n].end - 1)

Covered(d, bs, k) == InBlock(bs, k) \/ d[k].kind \in {"heading", "blank"}

(* A block that ends by line k can be put after blocks that end before it. *)
LEMMA BlocksAppend ==
  ASSUME NEW d, NEW bs, BlocksOK(d, bs), NEW b, BlockOK(d, b),
         \A n \in 1..Len(bs) : bs[n].end <= b.line
  PROVE  /\ BlocksOK(d, Append(bs, b))
         /\ Len(Append(bs, b)) = Len(bs) + 1
         /\ \A n \in 1..(Len(bs) + 1) :
              Append(bs, b)[n] = IF n = Len(bs) + 1 THEN b ELSE bs[n]
         /\ \A k \in Int : InBlock(bs, k) => InBlock(Append(bs, b), k)
         /\ \A k \in b.line..(b.end - 1) : InBlock(Append(bs, b), k)
<1> DEFINE new == Append(bs, b)
<1>1. new \in Seq(BlockSet(d)) /\ Len(bs) \in Nat /\ Len(new) = Len(bs) + 1
  BY DEF BlocksOK, BlockOK
<1>2. \A n \in 1..(Len(bs) + 1) :
        new[n] = IF n = Len(bs) + 1 THEN b ELSE bs[n]
  BY DEF BlocksOK, BlockOK
<1> HIDE DEF new
<1>3. /\ \A n \in 1..Len(new) : n = Len(bs) + 1 \/ n \in 1..Len(bs)
      /\ \A n \in 1..Len(bs) : n \in 1..Len(new) /\ new[n] = bs[n]
      /\ Len(bs) + 1 \in 1..Len(new) /\ new[Len(bs) + 1] = b
  BY <1>1, <1>2
<1>4. \A n \in 1..Len(new) : BlockOK(d, new[n])
  BY <1>3 DEF BlocksOK
<1>5. ASSUME NEW m \in 1..Len(new), NEW n \in 1..Len(new), m < n
      PROVE  new[m].end <= new[n].line
  <2>1. m \in 1..Len(bs)
    <3>1. m # Len(bs) + 1
      BY <1>1, <1>5
    <3> QED BY <1>3, <3>1
  <2>2. CASE n = Len(bs) + 1
    BY <1>3, <2>1, <2>2
  <2>3. CASE n \in 1..Len(bs)
    BY <1>3, <1>5, <2>1, <2>3 DEF BlocksOK
  <2> QED BY <1>3, <2>2, <2>3
<1>6. BlocksOK(d, new)
  BY <1>1, <1>4, <1>5 DEF BlocksOK
<1>7. ASSUME NEW k \in Int, InBlock(bs, k) PROVE InBlock(new, k)
  <2>1. PICK n \in 1..Len(bs) : k \in bs[n].line..(bs[n].end - 1)
    BY <1>7 DEF InBlock
  <2>2. n \in 1..Len(new) /\ new[n] = bs[n]
    BY <1>3
  <2> QED BY <2>1, <2>2 DEF InBlock
<1>8. ASSUME NEW k \in b.line..(b.end - 1) PROVE InBlock(new, k)
  <2>1. Len(bs) + 1 \in 1..Len(new) /\ new[Len(bs) + 1] = b
    BY <1>3
  <2> QED BY <1>8, <2>1 DEF InBlock
<1> QED BY <1>1, <1>2, <1>6, <1>7, <1>8 DEF new

-----------------------------------------------------------------------------
(* _parse_markdown_blocks                                                  *)

OpenSet(d) ==
  [type : BlockTypes \ {"table"}, line : 1..Len(d), section : Nat]

OpenOK ==
  \/ open = None /\ code = FALSE
  \/ /\ open \in OpenSet(lines)
     /\ open.line < i /\ lines[open.line].kind # "blank"
     /\ code = (open.type = "code")
     /\ ~code => \A k \in open.line..(i - 1) : lines[k].kind # "blank"

ParseInv ==
  /\ Document(lines) /\ i \in 1..(Len(lines) + 1) /\ section \in Nat
  /\ code \in BOOLEAN /\ OpenOK
  /\ BlocksOK(lines, blocks)
  /\ \A n \in 1..Len(blocks) :
       blocks[n].end <= IF open = None THEN i ELSE open.line
  /\ \A k \in 1..(i - 1) :
       Covered(lines, blocks, k) \/ (open # None /\ open.line <= k)

(* A flush before the next line, or after the fence that ends the code     *)
LEMMA FlushParses ==
  ASSUME ParseInv, NEW k \in i..(Len(lines) + 1), k = i \/ code
  PROVE  /\ BlocksOK(lines, Flushed(k))
         /\ \A n \in 1..Len(Flushed(k)) : Flushed(k)[n].end <= k
         /\ \A j \in 1..(i - 1) : Covered(lines, Flushed(k), j)
         /\ code => \A j \in i..(k - 1) : Covered(lines, Flushed(k), j)
<1>1. /\ Len(lines) \in Nat /\ k \in 1..(Len(lines) + 1) /\ i \in Nat
      /\ Len(blocks) \in Nat
  BY DEF ParseInv, Document, BlocksOK
<1>2. CASE open = None
  <2>1. Flushed(k) = blocks /\ ~code
    BY <1>2 DEF Flushed, ParseInv, OpenOK, None
  <2>2. \A n \in 1..Len(blocks) : blocks[n].end <= k
    BY <1>1, <1>2, <2>1 DEF ParseInv
  <2>3. \A j \in 1..(i - 1) : Covered(lines, blocks, j)
    BY <1>2 DEF ParseInv
  <2> QED BY <2>1, <2>2, <2>3 DEF ParseInv
<1>3. CASE open # None
  <2> DEFINE b == Block(open, k)
  <2>1. /\ open \in OpenSet(lines)
        /\ open.line < i /\ lines[open.line].kind # "blank"
        /\ code = (open.type = "code")
        /\ ~code => \A h \in open.line..(i - 1) : lines[h].kind # "blank"
    BY <1>3 DEF ParseInv, OpenOK
  <2>2. /\ b.type = open.type /\ b.line = open.line /\ b.end = k
        /\ b = [type |-> open.type, line |-> open.line, end |-> k,
                section |-> open.section]
    BY DEF Block
  <2>3. BlockOK(lines, b)
    <3>1. b \in BlockSet(lines)
      BY <1>1, <2>1, <2>2 DEF OpenSet, BlockSet
    <3>2. b.line < b.end /\ lines[b.line].kind # "blank" /\ b.type # "table"
      BY <1>1, <2>1, <2>2 DEF OpenSet, BlockTypes
    <3>3. b.type # "code" => \A h \in b.line..(b.end - 1) : lines[h].kind # "blank"
      BY <2>1, <2>2
    <3> QED BY <3>1, <3>2, <3>3 DEF BlockOK
  <2>4. \A n \in 1..Len(blocks) : blocks[n].end <= b.line
    BY <1>3, <2>2 DEF ParseInv
  <2>5. BlocksOK(lines, blocks)
    BY DEF ParseInv
  <2> HIDE DEF b
  <2> DEFINE new == Append(blocks, b)
  <2>6. /\ BlocksOK(lines, new) /\ Len(new) = Len(blocks) + 1
        /\ \A n \in 1..(Len(blocks) + 1) :
             new[n] = IF n = Len(blocks) + 1 THEN b ELSE blocks[n]
        /\ \A h \in Int : InBlock(blocks, h) => InBlock(new, h)
        /\ \A h \in b.line..(b.end - 1) : InBlock(new, h)
    BY <2>3, <2>4, <2>5, BlocksAppend
  <2>7. Flushed(k) = new
    BY <1>3 DEF Flushed, b
  <2> HIDE DEF new
  <2>8. ASSUME NEW n \in 1..Len(new) PROVE new[n].end <= k
    <3>1. n = Len(blocks) + 1 \/ n \in 1..Len(blocks)
      BY <1>1, <2>6
    <3>2. ASSUME n \in 1..Len(blocks) PROVE blocks[n].end <= k
      <4>1. blocks[n].end \in Int /\ blocks[n].end <= open.line /\ open.line \in Int
        <5>1. blocks[n] \in BlockSet(lines)
          BY <2>5, <3>2 DEF BlocksOK, BlockOK
        <5>2. blocks[n].end \in Int
          BY <5>1 DEF BlockSet
        <5> QED BY <2>1, <2>2, <2>4, <3>2, <5>2 DEF OpenSet
      <4> QED BY <1>1, <2>1, <4>1
    <3> QED BY <1>1, <2>2, <2>6, <3>1, <3>2
  <2>9. ASSUME NEW j \in 1..(i - 1) PROVE Covered(lines, new, j)
    <3>1. CASE Covered(lines, blocks, j)
      BY <2>6, <3>1 DEF Covered
    <3>2. CASE open.line <= j
      <4>1. j \in b.line..(b.end - 1)
        BY <1>1, <2>1, <2>2, <3>2
      <4> QED BY <2>6, <4>1 DEF Covered
    <3> QED BY <1>3, <3>1, <3>2 DEF ParseInv
  <2>10. ASSUME NEW j \in i..(k - 1) PROVE Covered(lines, new, j)
    <3>1. j \in b.line..(b.end - 1)
      BY <1>1, <2>1, <2>2 DEF OpenSet
    <3> QED BY <2>6, <3>1 DEF Covered
  <2> QED BY <2>6, <2>7, <2>8, <2>9, <2>10
<1> QED BY <1>2, <1>3

(* A step that flushes before line k and goes on to line i'                *)
LEMMA FlushStep ==
  ASSUME ParseInv, NEW k \in i..(Len(lines) + 1), k = i \/ code,
         UNCHANGED lines, blocks' = Flushed(k),
         i' \in k..(Len(lines) + 1), section' \in Nat, code' \in BOOLEAN,
         OpenOK', open' # None => open'.line \in k..(Len(lines) + 1),
         \A j \in k..(i' - 1) :
           \/ lines[j].kind \in {"heading", "blank"}
           \/ open' # None /\ open'.line <= j
  PROVE  ParseInv'
<1>1. /\ BlocksOK(lines, blocks')
      /\ \A n \in 1..Len(blocks') : blocks'[n].end <= k
      /\ \A j \in 1..(i - 1) : Covered(lines, blocks', j)
      /\ code => \A j \in i..(k - 1) : Covered(lines, blocks', j)
  BY FlushParses
<1>2. /\ Len(lines) \in Nat /\ i \in 1..(Len(lines) + 1) /\ Len(blocks') \in Nat
      /\ k \in Int /\ i' \in Int
  BY <1>1 DEF ParseInv, Document, BlocksOK
<1>3. ASSUME NEW n \in 1..Len(blocks')
      PROVE  blocks'[n].end <= IF open' = None THEN i' ELSE open'.line
  <2>1. blocks'[n].end \in Int
    <3>1. blocks'[n] \in BlockSet(lines)
      BY <1>1 DEF BlocksOK, BlockOK
    <3> QED BY <3>1 DEF BlockSet
  <2>2. blocks'[n].end <= k
    BY <1>1
  <2>3. CASE open' = None
    BY <1>2, <2>1, <2>2, <2>3
  <2>4. CASE open' # None
    <3>1. open'.line \in Int /\ k <= open'.line
      BY <1>2, <2>4
    <3> QED BY <1>2, <2>1, <2>2, <2>4, <3>1
  <2> QED BY <2>3, <2>4
<1>4. ASSUME NEW j \in 1..(i' - 1)
      PROVE  Covered(lines, blocks', j) \/ (open' # None /\ open'.line <= j)
  <2>1. \/ j \in 1..(i - 1)
        \/ code /\ j \in i..(k - 1)
        \/ j \in k..(i' - 1)
    <3>1. i \in Int /\ k \in Int /\ i' \in Int
      BY <1>2
    <3> QED BY <3>1
  <2> QED BY <1>1, <2>1 DEF Covered
<1>5. Document(lines) /\ i' \in 1..(Len(lines) + 1)
  BY <1>2 DEF ParseInv
<1> QED BY <1>1, <1>3, <1>4, <1>5 DEF ParseInv

LEMMA TableEnds ==
  ASSUME Document(lines), NEW k \in 1..(Len(lines) + 1)
  PROVE  /\ EndOfTable(k) \in k..(Len(lines) + 1)
         /\ \A h \in k..(EndOfTable(k) - 1) : lines[h].kind \in {"row", "rule"}
<1> DEFINE P(j) ==
      /\ j <= Len(lines) => lines[j].kind \notin {"row", "rule"}
      /\ \A h \in k..(j - 1) : lines[h].kind \in {"row", "rule"}
<1> DEFINE X == {j \in k..(Len(lines) + 1) :
                   j <= Len(lines) => lines[j].kind \notin {"row", "rule"}}
<1>1. Len(lines) \in Nat
  BY DEF Document
<1>2. X \in SUBSET Nat /\ Len(lines) + 1 \in X
  BY <1>1
<1>3. PICK m \in X : \A x \in X : m <= x
  <2> HIDE DEF X
  <2> QED BY <1>2, SmallestNumber
<1>4. ASSUME NEW h \in k..(m - 1) PROVE lines[h].kind \in {"row", "rule"}
  <2>1. ~(m <= h) /\ h \in k..(Len(lines) + 1) /\ h <= Len(lines)
    BY <1>1
  <2>2. h \notin X
    BY <1>3, <2>1
  <2> QED BY <2>1, <2>2
<1>5. m \in k..(Len(lines) + 1) /\ P(m)
  BY <1>4
<1>6. EndOfTable(k) = CHOOSE j \in k..(Len(lines) + 1) : P(j)
  BY DEF EndOfTable
<1>7. EndOfTable(k) \in k..(Len(lines) + 1) /\ P(EndOfTable(k))
  <2> HIDE DEF P
  <2> QED BY <1>5, <1>6
<1> QED BY <1>7

LEMMA FenceParses ==
  ASSUME ParseInv, CloseFence \/ OpenFence PROVE ParseInv'
<1>1. /\ UNCHANGED <<lines, section>> /\ i' = i + 1 /\ i <= Len(lines)
      /\ lines[i].kind = "fence"
  BY DEF CloseFence, OpenFence, Reads, Parsed
<1>2. Len(lines) \in Nat /\ i \in Nat /\ section \in Nat /\ i >= 1
  BY DEF ParseInv, Document
<1>3. CASE CloseFence
  <2>1. code /\ open' = None /\ code' = FALSE /\ blocks' = Flushed(i + 1)
    BY <1>3 DEF CloseFence
  <2>2. OpenOK'
    BY <2>1 DEF OpenOK
  <2>3. i + 1 \in i..(Len(lines) + 1) /\ i' \in (i + 1)..(Len(lines) + 1)
        /\ (i + 1)..(i' - 1) = {}
    BY <1>1, <1>2
  <2> QED BY <1>1, <1>2, <2>1, <2>2, <2>3, FlushStep
<1>4. CASE OpenFence
  <2>1. /\ open' = Opened("code") /\ code' = TRUE /\ blocks' = Flushed(i)
    BY <1>4 DEF OpenFence
  <2>2. open' = [type |-> "code", line |-> i, section |-> section]
    BY <2>1 DEF Opened
  <2>3. /\ open' \in OpenSet(lines)
        /\ open'.line = i /\ open'.type = "code"
    BY <1>1, <1>2, <2>2 DEF OpenSet, BlockTypes
  <2>4. OpenOK'
    <3>1. open'.line < i' /\ lines'[open'.line].kind # "blank"
      BY <1>1, <1>2, <2>3
    <3>2. open' \in OpenSet(lines') /\ code' = (open'.type = "code") /\ code'
      BY <1>1, <2>1, <2>3
    <3> QED BY <3>1, <3>2 DEF OpenOK
  <2>5. /\ i \in i..(Len(lines) + 1) /\ i' \in i..(Len(lines) + 1)
        /\ \A j \in i..(i' - 1) : i <= j
    BY <1>1, <1>2
  <2>6. open' # None
    BY <2>3, <1>2 DEF None
  <2> QED BY <1>1, <1>2, <2>1, <2>3, <2>4, <2>5, <2>6, FlushStep
<1> QED BY <1>3, <1>4

LEMMA InCodeParses == ASSUME ParseInv, InCode PROVE ParseInv'
<1>1. /\ UNCHANGED <<lines, blocks, open, code, section>> /\ i' = i + 1
      /\ i <= Len(lines) /\ code
  BY DEF InCode, Reads, Parsed
<1>2. Len(lines) \in Nat /\ i \in Nat /\ i >= 1
  BY DEF ParseInv, Document
<1>3. /\ open # None
      /\ open \in OpenSet(lines)
      /\ open.line < i /\ lines[open.line].kind # "blank" /\ open.type = "code"
  <2>1. open # None
    <3>1. CASE open = None /\ code = FALSE
      BY <1>1, <3>1
    <3>2. CASE open \in OpenSet(lines)
      BY <1>2, <3>2 DEF OpenSet, None
    <3> QED BY <3>1, <3>2 DEF ParseInv, OpenOK
  <2> QED BY <1>1, <2>1 DEF ParseInv, OpenOK
<1>4. OpenOK'
  <2>1. open.line < i'
    BY <1>1, <1>2, <1>3 DEF OpenSet
  <2> QED BY <1>1, <1>3, <2>1 DEF OpenOK
<1>5. ASSUME NEW k \in 1..(i' - 1)
      PROVE  Covered(lines, blocks, k) \/ open.line <= k
  <2>1. k \in 1..(i - 1) \/ k = i
    BY <1>1, <1>2
  <2> QED BY <1>2, <1>3, <2>1 DEF OpenSet, ParseInv
<1>6. i' \in 1..(Len(lines) + 1)
  BY <1>1, <1>2
<1> QED BY <1>1, <1>3, <1>4, <1>5, <1>6 DEF ParseInv

LEMMA HeadingParses ==
  ASSUME ParseInv, Heading \/ Blank PROVE ParseInv'
<1>1. /\ UNCHANGED <<lines, code>> /\ i' = i + 1 /\ i <= Len(lines) /\ ~code
      /\ lines[i].kind \in {"heading", "blank"} /\ section' \in {i, section}
      /\ open' = None /\ blocks' = Flushed(i)
  BY DEF Heading, Blank, Reads, Parsed
<1>2. /\ Len(lines) \in Nat /\ i \in Nat /\ i >= 1 /\ section \in Nat
      /\ code \in BOOLEAN
  BY DEF ParseInv, Document
<1>3. OpenOK'
  BY <1>1, <1>2 DEF OpenOK
<1>4. /\ i \in i..(Len(lines) + 1) /\ i' \in i..(Len(lines) + 1)
      /\ \A j \in i..(i' - 1) : j = i
  BY <1>1, <1>2
<1> QED BY <1>1, <1>2, <1>3, <1>4, FlushStep

LEMMA TextParses == ASSUME ParseInv, Text PROVE ParseInv'
<1>1. /\ UNCHANGED <<lines, code, section>> /\ i' = i + 1 /\ i <= Len(lines)
      /\ ~code /\ lines[i].kind # "blank"
  BY DEF Text, Reads, Parsed
<1>2. /\ Len(lines) \in Nat /\ i \in Nat /\ i >= 1 /\ section \in Nat
      /\ code \in BOOLEAN
  BY DEF ParseInv, Document
<1>3. LineType \in {"list", "quote", "paragraph"}
  BY DEF LineType
<1>4. CASE open.type = LineType
  <2>1. UNCHANGED <<blocks, open>> /\ open # None
    BY <1>3, <1>4 DEF Text, None
  <2>2. /\ open \in OpenSet(lines)
        /\ open.line < i /\ lines[open.line].kind # "blank"
        /\ open.type # "code"
        /\ \A k \in open.line..(i - 1) : lines[k].kind # "blank"
    BY <1>1, <2>1 DEF ParseInv, OpenOK
  <2>3. open.line < i' /\ \A k \in open.line..(i' - 1) : lines[k].kind # "blank"
    <3>1. \A k \in open.line..(i' - 1) : k \in open.line..(i - 1) \/ k = i
      BY <1>1, <1>2, <2>2
    <3> QED BY <1>1, <1>2, <2>2, <3>1 DEF OpenSet
  <2>4. OpenOK'
    BY <1>1, <1>2, <2>1, <2>2, <2>3 DEF OpenOK
  <2>5. ASSUME NEW k \in 1..(i' - 1)
        PROVE  Covered(lines, blocks, k) \/ open.line <= k
    <3>1. k \in 1..(i - 1) \/ k = i
      BY <1>1, <1>2
    <3> QED BY <1>2, <2>2, <3>1 DEF OpenSet, ParseInv
  <2>6. i' \in 1..(Len(lines) + 1)
    BY <1>1, <1>2
  <2> QED BY <1>1, <2>1, <2>4, <2>5, <2>6 DEF ParseInv
<1>5. CASE open.type # LineType
  <2>1. open' = Opened(LineType) /\ blocks' = Flushed(i)
    BY <1>5 DEF Text
  <2>2. open' = [type |-> LineType, line |-> i, section |-> section]
    BY <2>1 DEF Opened
  <2>3. /\ open' \in OpenSet(lines)
        /\ open'.line = i /\ open'.type # "code"
    BY <1>1, <1>2, <1>3, <2>2 DEF OpenSet, BlockTypes
  <2>4. \A j \in i..(i' - 1) : j = i
    BY <1>1, <1>2
  <2>5. OpenOK'
    BY <1>1, <1>2, <2>3, <2>4 DEF OpenOK
  <2>6. i \in i..(Len(lines) + 1) /\ i' \in i..(Len(lines) + 1)
    BY <1>1, <1>2
  <2>7. open' # None
    BY <2>3, <1>2 DEF None
  <2> QED BY <1>1, <1>2, <2>1, <2>3, <2>4, <2>5, <2>6, <2>7, FlushStep
<1> QED BY <1>4, <1>5

LEMMA TableParses == ASSUME ParseInv, Table PROVE ParseInv'
<1> DEFINE j == EndOfTable(i + 2)
<1> DEFINE b == Block(Opened("table"), j)
<1>1. /\ UNCHANGED <<lines, code, section>> /\ i' = j /\ i < Len(lines)
      /\ ~code /\ lines[i].kind = "row" /\ lines[i + 1].kind = "rule"
      /\ blocks' = Append(Flushed(i), b) /\ open' = None
  BY DEF Table, HeadOfTable, Reads, Parsed
<1>2. /\ Len(lines) \in Nat /\ i \in Nat /\ i >= 1 /\ section \in Nat
      /\ code \in BOOLEAN /\ Document(lines)
  BY DEF ParseInv, Document
<1>3. /\ j \in (i + 2)..(Len(lines) + 1)
      /\ \A h \in (i + 2)..(j - 1) : lines[h].kind \in {"row", "rule"}
  <2>1. i + 2 \in 1..(Len(lines) + 1)
    BY <1>1, <1>2
  <2> QED BY <1>2, <2>1, TableEnds
<1> HIDE DEF j
<1>4. b = [type |-> "table", line |-> i, end |-> j, section |-> section]
  BY DEF Block, Opened
<1>5. \A h \in i..(j - 1) : lines[h].kind # "blank"
  <2>1. \A h \in i..(j - 1) : h = i \/ h = i + 1 \/ h \in (i + 2)..(j - 1)
    BY <1>2, <1>3
  <2> QED BY <1>1, <1>3, <2>1
<1>6. BlockOK(lines, b)
  <2>1. b \in BlockSet(lines)
    BY <1>1, <1>2, <1>3, <1>4 DEF BlockSet, BlockTypes
  <2>2. b.line < b.end /\ b.line + 2 <= b.end /\ lines[b.line].kind # "blank"
    BY <1>1, <1>2, <1>3, <1>4
  <2> QED BY <1>4, <1>5, <2>1, <2>2 DEF BlockOK
<1>7. b.line = i /\ b.end = j
  BY <1>4
<1> HIDE DEF b
<1> DEFINE f == Flushed(i)
<1>8. /\ BlocksOK(lines, f)
      /\ \A n \in 1..Len(f) : f[n].end <= i
      /\ \A h \in 1..(i - 1) : Covered(lines, f, h)
  <2>1. i \in i..(Len(lines) + 1)
    BY <1>1, <1>2
  <2> QED BY <2>1, FlushParses
<1>9. blocks' = Append(f, b)
  BY <1>1
<1> HIDE DEF f
<1>10. /\ BlocksOK(lines, blocks') /\ Len(blocks') = Len(f) + 1
       /\ \A n \in 1..(Len(f) + 1) :
            blocks'[n] = IF n = Len(f) + 1 THEN b ELSE f[n]
       /\ \A h \in Int : InBlock(f, h) => InBlock(blocks', h)
       /\ \A h \in i..(j - 1) : InBlock(blocks', h)
  BY <1>6, <1>7, <1>8, <1>9, BlocksAppend
<1>11. ASSUME NEW n \in 1..Len(blocks') PROVE blocks'[n].end <= i'
  <2>1. Len(f) \in Nat
    BY <1>8 DEF BlocksOK
  <2>2. CASE n = Len(f) + 1
    BY <1>1, <1>3, <1>7, <1>10, <2>1, <2>2
  <2>3. CASE n \in 1..Len(f)
    <3>1. blocks'[n] = f[n] /\ f[n].end <= i
      BY <1>8, <1>10, <2>1, <2>3
    <3>2. f[n].end \in Int
      <4>1. f[n] \in BlockSet(lines)
        BY <1>8, <2>3 DEF BlocksOK, BlockOK
      <4> QED BY <4>1, <1>2 DEF BlockSet
    <3> QED BY <1>1, <1>2, <1>3, <3>1, <3>2
  <2> QED BY <1>10, <2>1, <2>2, <2>3
<1>12. ASSUME NEW h \in 1..(i' - 1) PROVE Covered(lines, blocks', h)
  <2>1. h \in 1..(i - 1) \/ h \in i..(j - 1)
    BY <1>1, <1>2, <1>3
  <2> QED BY <1>8, <1>10, <2>1 DEF Covered
<1>13. OpenOK' /\ i' \in 1..(Len(lines) + 1)
  BY <1>1, <1>2, <1>3 DEF OpenOK
<1> QED BY <1>1, <1>2, <1>10, <1>11, <1>12, <1>13 DEF ParseInv

-----------------------------------------------------------------------------
(* Pieces: chunks of the blocks m to n                                     *)

ChunkSet == [from : Nat, to : Nat, words : Nat, first : Nat, last : Nat]

PieceOK(p, bs, c, m, n) ==
  /\ c.first \in m..n /\ c.last \in c.first..n
  /\ p[bs[c.first].line] <= c.from /\ c.from < p[bs[c.last].end]
  /\ c.to <= p[bs[c.last].end]

(* SizesBounded of one chunk                                               *)
SizeOK(p, bs, c) ==
  \/ c.words <= Most
  \/ bs[c.first].type = "code"
  \/ c.first < c.last /\ c.words < Least + Most
  \/ \E k \in bs[c.first].line..(bs[c.first].end - 1) :
       /\ c.from = p[k]
       /\ c.to <= p[IF bs[c.first].type = "table" /\ k = bs[c.first].line
                      THEN k + 2 ELSE k + 1]

(* A chunk c and a later one, e: next says whether it comes right after it *)
Apart(bs, c, e, next) ==
  /\ c.from < e.from
  /\ \/ c.to <= e.from
     \/ /\ c.first = e.last /\ bs[c.first].type = "paragraph"
        /\ c.to - e.from <= Overlap
        /\ 2 * Overlap <= Most => next

Reaches(G, q) == \E c \in 1..Len(G) : q \in G[c].from..(G[c].to - 1)

HasWhole(G, x, y) == \E c \in 1..Len(G) : G[c].from <= x /\ y <= G[c].to

Kept(p, b, G) ==
  /\ \A q \in p[b.line]..(p[b.end] - 1) : Reaches(G, q)
  /\ b.type = "code" => HasWhole(G, p[b.line], p[b.end])
  /\ b.type = "table" => HasWhole(G, p[b.line], p[b.line + 2])

Pieces(p, bs, G, m, n) ==
  /\ G \in Seq(ChunkSet)
  /\ \A c \in 1..Len(G) : PieceOK(p, bs, G[c], m, n) /\ SizeOK(p, bs, G[c])
  /\ \A c, e \in 1..Len(G) : c < e => Apart(bs, G[c], G[e], e = c + 1)
  /\ \A b \in m..n : Kept(p, bs[b], G)

(* Where the blocks are: each has words, and the next starts after it.     *)
LEMMA BlockPositions ==
  ASSUME NEW d, Document(d), NEW bs, BlocksOK(d, bs), NEW n \in 1..Len(bs)
  PROVE  /\ bs[n].line \in 1..Len(d) /\ bs[n].end \in 1..(Len(d) + 1)
         /\ bs[n].line < bs[n].end
         /\ Pos(d)[bs[n].line] \in Nat /\ Pos(d)[bs[n].end] \in Nat
         /\ Pos(d)[bs[n].line] < Pos(d)[bs[n].end]
         /\ \A m \in 1..Len(bs) :
              n < m => Pos(d)[bs[n].end] <= Pos(d)[bs[m].line]
         /\ \A m \in 1..Len(bs) : n <= m =>
              /\ Pos(d)[bs[n].line] <= Pos(d)[bs[m].line]
              /\ Pos(d)[bs[n].end] <= Pos(d)[bs[m].end]
<1> DEFINE p == Pos(d)
<1>1. /\ p \in [1..(Len(d) + 1) -> Nat]
      /\ \A k \in 1..Len(d) : p[k + 1] = p[k] + d[k].words
      /\ \A j, k \in 1..(Len(d) + 1) : j <= k => p[j] <= p[k]
  BY Positions
<1> HIDE DEF p
<1>2. Len(d) \in Nat /\ \A k \in 1..Len(d) : d[k] \in Line
  BY DEF Document
<1>3. ASSUME NEW m \in 1..Len(bs)
      PROVE  /\ bs[m].line \in 1..Len(d) /\ bs[m].end \in 1..(Len(d) + 1)
             /\ bs[m].line < bs[m].end /\ d[bs[m].line].kind # "blank"
  <2>1. BlockOK(d, bs[m])
    BY DEF BlocksOK
  <2> QED BY <2>1 DEF BlockOK, BlockSet
<1>4. ASSUME NEW m \in 1..Len(bs)
      PROVE  /\ p[bs[m].line] \in Nat /\ p[bs[m].end] \in Nat
             /\ p[bs[m].line] < p[bs[m].end]
  <2> DEFINE k == bs[m].line
  <2>1. /\ k \in 1..Len(d) /\ k + 1 \in 1..(Len(d) + 1) /\ k \in 1..(Len(d) + 1)
        /\ k + 1 <= bs[m].end /\ bs[m].end \in 1..(Len(d) + 1)
    BY <1>2, <1>3
  <2>2. d[k].kind # "blank"
    BY <1>3
  <2> HIDE DEF k
  <2>3. d[k].words \in Nat /\ d[k].words # 0
    BY <1>2, <2>1, <2>2 DEF Document, Line
  <2>4. p[k + 1] = p[k] + d[k].words /\ p[k + 1] <= p[bs[m].end]
    BY <1>1, <2>1
  <2>5. p[k] \in Nat /\ p[bs[m].end] \in Nat
    BY <1>1, <2>1
  <2>6. p[k] < p[bs[m].end]
    BY <2>3, <2>4, <2>5
  <2> QED BY <2>5, <2>6 DEF k
<1>5. ASSUME NEW m \in 1..Len(bs), n < m
      PROVE  p[bs[n].end] <= p[bs[m].line]
  <2>1. bs[n].end <= bs[m].line
    BY <1>5 DEF BlocksOK
  <2>2. bs[n].end \in 1..(Len(d) + 1) /\ bs[m].line \in 1..(Len(d) + 1)
    BY <1>2, <1>3
  <2> QED BY <1>1, <2>1, <2>2
<1>6. ASSUME NEW m \in 1..Len(bs), n <= m
      PROVE  p[bs[n].line] <= p[bs[m].line] /\ p[bs[n].end] <= p[bs[m].end]
  <2>1. CASE n = m
    BY <1>4, <2>1
  <2>2. CASE n < m
    BY <1>4, <1>5, <2>2
  <2> QED BY <1>6, <2>1, <2>2
<1> QED BY <1>3, <1>4, <1>5, <1>6 DEF p

LEMMA NoPieces == ASSUME NEW p, NEW bs PROVE Pieces(p, bs, <<>>, 1, 0)
BY DEF Pieces

(* Pieces of the next blocks come after pieces of the first ones.          *)
LEMMA PiecesJoin ==
  ASSUME NEW d, Document(d), NEW bs, BlocksOK(d, bs),
         NEW m \in 0..Len(bs), NEW n \in m..Len(bs),
         NEW G, Pieces(Pos(d), bs, G, 1, m),
         NEW H, Pieces(Pos(d), bs, H, m + 1, n)
  PROVE  Pieces(Pos(d), bs, G \o H, 1, n)
<1> DEFINE p == Pos(d)
<1> DEFINE J == G \o H
<1>1. G \in Seq(ChunkSet) /\ H \in Seq(ChunkSet) /\ Len(bs) \in Nat
  BY DEF Pieces, BlocksOK
<1>2. /\ J \in Seq(ChunkSet) /\ Len(J) = Len(G) + Len(H)
      /\ Len(G) \in Nat /\ Len(H) \in Nat
      /\ \A c \in 1..Len(J) :
           J[c] = IF c <= Len(G) THEN G[c] ELSE H[c - Len(G)]
  BY <1>1
<1> HIDE DEF J
<1>3. ASSUME NEW c \in 1..Len(J)
      PROVE  \/ c \in 1..Len(G) /\ J[c] = G[c]
             \/ /\ c - Len(G) \in 1..Len(H) /\ ~(c <= Len(G))
                /\ J[c] = H[c - Len(G)]
  BY <1>2
<1>4. /\ \A c \in 1..Len(G) : c \in 1..Len(J) /\ J[c] = G[c]
      /\ \A c \in 1..Len(H) : c + Len(G) \in 1..Len(J) /\ J[c + Len(G)] = H[c]
  <2>1. ASSUME NEW c \in 1..Len(H)
        PROVE  c + Len(G) \in 1..Len(J) /\ J[c + Len(G)] = H[c]
    <3>1. /\ c + Len(G) \in 1..Len(J) /\ ~(c + Len(G) <= Len(G))
          /\ (c + Len(G)) - Len(G) = c
      BY <1>2
    <3> QED BY <1>2, <3>1
  <2> QED BY <1>2, <2>1
<1>5. ASSUME NEW c \in 1..Len(J)
      PROVE  PieceOK(p, bs, J[c], 1, n) /\ SizeOK(p, bs, J[c])
  <2>1. CASE c \in 1..Len(G) /\ J[c] = G[c]
    <3>1. PieceOK(p, bs, G[c], 1, m) /\ SizeOK(p, bs, G[c])
      BY <2>1 DEF Pieces
    <3>2. G[c] \in ChunkSet /\ G[c].first \in 1..m /\ G[c].last \in (G[c].first)..m
      BY <1>1, <2>1, <3>1 DEF PieceOK
    <3>3. G[c].first \in 1..n /\ G[c].last \in (G[c].first)..n
      BY <1>1, <3>2
    <3> QED BY <2>1, <3>1, <3>3 DEF PieceOK
  <2>2. CASE c - Len(G) \in 1..Len(H) /\ J[c] = H[c - Len(G)]
    <3> DEFINE e == c - Len(G)
    <3>1. PieceOK(p, bs, H[e], m + 1, n) /\ SizeOK(p, bs, H[e])
      BY <2>2 DEF Pieces
    <3>2. H[e].first \in 1..n
      BY <1>1, <3>1 DEF PieceOK
    <3> QED BY <2>2, <3>1, <3>2 DEF PieceOK
  <2> QED BY <1>3, <2>1, <2>2
<1>6. ASSUME NEW c \in 1..Len(J), NEW e \in 1..Len(J), c < e
      PROVE  Apart(bs, J[c], J[e], e = c + 1)
  <2>1. CASE c \in 1..Len(G) /\ J[c] = G[c] /\ e \in 1..Len(G) /\ J[e] = G[e]
    BY <1>6, <2>1 DEF Pieces
  <2>2. CASE /\ c - Len(G) \in 1..Len(H) /\ J[c] = H[c - Len(G)]
             /\ e - Len(G) \in 1..Len(H) /\ J[e] = H[e - Len(G)]
    <3> DEFINE x == c - Len(G)
    <3> DEFINE y == e - Len(G)
    <3>1. x < y /\ (y = x + 1 <=> e = c + 1)
      BY <1>2, <1>6
    <3>2. x \in 1..Len(H) /\ y \in 1..Len(H) /\ J[c] = H[x] /\ J[e] = H[y]
      BY <2>2
    <3> HIDE DEF x, y
    <3>3. Apart(bs, H[x], H[y], y = x + 1)
      BY <3>1, <3>2 DEF Pieces
    <3> QED BY <3>1, <3>2, <3>3 DEF Apart
  <2>3. CASE /\ c \in 1..Len(G) /\ J[c] = G[c]
             /\ e - Len(G) \in 1..Len(H) /\ J[e] = H[e - Len(G)]
    <3> DEFINE x == G[c]
    <3> DEFINE y == H[e - Len(G)]
    <3>1. PieceOK(p, bs, x, 1, m) /\ PieceOK(p, bs, y, m + 1, n)
      BY <2>3 DEF Pieces
    <3>2. x \in ChunkSet /\ y \in ChunkSet
      BY <1>1, <2>3
    <3> HIDE DEF x, y
    <3>3. x.from \in Nat /\ x.to \in Nat /\ y.from \in Nat
      BY <3>2 DEF ChunkSet
    <3>4. x.last \in 1..Len(bs) /\ y.first \in 1..Len(bs) /\ x.last < y.first
      <4>1. /\ x.first \in 1..m /\ x.last \in (x.first)..m
            /\ y.first \in (m + 1)..n
        BY <3>1 DEF PieceOK
      <4> QED BY SMTT(30), <1>1, <4>1
    <3>5. /\ p[bs[x.last].end] <= p[bs[y.first].line]
          /\ p[bs[x.last].end] \in Nat /\ p[bs[y.first].line] \in Nat
      BY <3>4, BlockPositions
    <3>6. /\ p[bs[y.first].line] <= y.from /\ x.from < p[bs[x.last].end]
          /\ x.to <= p[bs[x.last].end]
      BY <3>1 DEF PieceOK
    <3>7. x.from < y.from /\ x.to <= y.from
      <4> HIDE DEF p
      <4> DEFINE u == p[bs[x.last].end]
      <4> DEFINE v == p[bs[y.first].line]
      <4>1. /\ x.from \in Int /\ x.to \in Int /\ y.from \in Int
            /\ u \in Int /\ v \in Int
        BY SMTT(30), <3>3, <3>5
      <4>2. u <= v /\ v <= y.from /\ x.from < u /\ x.to <= u
        BY <3>5, <3>6
      <4> HIDE DEF u, v
      <4> QED BY <4>1, <4>2, Chain
    <3>8. Apart(bs, x, y, e = c + 1)
      BY <3>7 DEF Apart
    <3> QED BY <2>3, <3>8 DEF x, y
  <2>4. ~(~(c <= Len(G)) /\ e \in 1..Len(G))
    BY <1>2, <1>6
  <2> QED BY <1>3, <2>1, <2>2, <2>3, <2>4
<1>7. ASSUME NEW b \in 1..n PROVE Kept(p, bs[b], J)
  <2> HIDE DEF p
  <2>1. CASE Kept(p, bs[b], G)
    <3>1. \A q : Reaches(G, q) => Reaches(J, q)
      BY <1>4 DEF Reaches
    <3>2. \A x, y : HasWhole(G, x, y) => HasWhole(J, x, y)
      BY <1>4 DEF HasWhole
    <3> QED BY <2>1, <3>1, <3>2 DEF Kept
  <2>2. CASE Kept(p, bs[b], H)
    <3>1. \A q : Reaches(H, q) => Reaches(J, q)
      BY <1>4 DEF Reaches
    <3>2. \A x, y : HasWhole(H, x, y) => HasWhole(J, x, y)
      BY <1>4 DEF HasWhole
    <3> QED BY <2>2, <3>1, <3>2 DEF Kept
  <2>3. b \in 1..m \/ b \in (m + 1)..n
    BY <1>1
  <2> QED BY <2>1, <2>2, <2>3 DEF Pieces, p
<1> QED BY <1>2, <1>5, <1>6, <1>7 DEF Pieces, J

(* Blocks that are merged are one piece.                                   *)
LEMMA OnePiece ==
  ASSUME NEW d, Document(d), NEW bs, BlocksOK(d, bs),
         NEW m \in 1..Len(bs), NEW n \in m..Len(bs), NEW words \in Nat,
         \/ words <= Most
         \/ m < n /\ words < Least + Most
         \/ bs[m].type = "code"
  PROVE  Pieces(Pos(d), bs,
                <<Chunk(Pos(d)[bs[m].line], Pos(d)[bs[n].end], words, m, n)>>,
                m, n)
<1> DEFINE p == Pos(d)
<1> DEFINE c == Chunk(p[bs[m].line], p[bs[n].end], words, m, n)
<1> DEFINE G == <<c>>
<1>1. Len(bs) \in Nat /\ n \in 1..Len(bs) /\ m <= n
  BY DEF BlocksOK
<1>2. /\ p[bs[m].line] \in Nat /\ p[bs[n].end] \in Nat
      /\ p[bs[m].line] < p[bs[n].end]
  <2>1. /\ p[bs[m].line] \in Nat /\ p[bs[n].line] \in Nat /\ p[bs[n].end] \in Nat
        /\ p[bs[m].line] <= p[bs[n].line] /\ p[bs[n].line] < p[bs[n].end]
    BY <1>1, BlockPositions
  <2> HIDE DEF p
  <2> QED BY <2>1
<1>3. /\ c \in ChunkSet /\ c.first = m /\ c.last = n /\ c.words = words
      /\ c.from = p[bs[m].line] /\ c.to = p[bs[n].end]
  <2>1. c = [from |-> p[bs[m].line], to |-> p[bs[n].end], words |-> words,
             first |-> m, last |-> n]
    BY DEF Chunk
  <2> HIDE DEF p, c
  <2> QED BY <1>1, <1>2, <2>1 DEF ChunkSet
<1>4. PieceOK(p, bs, c, m, n)
  <2> HIDE DEF p, c
  <2> QED BY <1>1, <1>2, <1>3 DEF PieceOK
<1>5. SizeOK(p, bs, c)
  <2> HIDE DEF p, c
  <2> QED BY <1>3 DEF SizeOK
<1>6. ASSUME NEW b \in m..n PROVE Kept(p, bs[b], G)
  <2>1. b \in 1..Len(bs) /\ m <= b /\ b <= n
    BY <1>1
  <2>2. /\ p[bs[m].line] <= p[bs[b].line] /\ p[bs[b].end] <= p[bs[n].end]
        /\ p[bs[b].line] \in Nat /\ p[bs[b].end] \in Nat
    BY <1>1, <2>1, BlockPositions
  <2>3. ASSUME bs[b].type = "table"
        PROVE  p[bs[b].line + 2] \in Nat /\ p[bs[b].line + 2] <= p[bs[b].end]
    <3>1. BlockOK(d, bs[b]) /\ Len(d) \in Nat
      BY <2>1 DEF BlocksOK, Document
    <3>2. /\ bs[b].line + 2 \in 1..(Len(d) + 1) /\ bs[b].end \in 1..(Len(d) + 1)
          /\ bs[b].line + 2 <= bs[b].end
      BY SMTT(30), <2>3, <3>1 DEF BlockOK, BlockSet
    <3> QED BY <3>2, Positions
  <2>4. 1 \in 1..Len(G) /\ G[1] = c
    OBVIOUS
  <2> HIDE DEF p, c, G
  <2>5. \A q \in p[bs[b].line]..(p[bs[b].end] - 1) : Reaches(G, q)
    <3>1. ASSUME NEW q \in p[bs[b].line]..(p[bs[b].end] - 1)
          PROVE  q \in G[1].from..(G[1].to - 1)
      <4> DEFINE u == p[bs[b].line]
      <4> DEFINE v == p[bs[b].end]
      <4>1. c.from <= u /\ v <= c.to
        BY <1>3, <2>2
      <4>2. c.from \in Int /\ c.to \in Int /\ u \in Int /\ v \in Int
        BY <1>2, <1>3, <2>2
      <4> HIDE DEF u, v
      <4>3. q \in c.from..(c.to - 1)
        BY <3>1, <4>1, <4>2, Wider DEF u, v
      <4> QED BY <2>4, <4>3
    <3> QED BY <2>4, <3>1 DEF Reaches
  <2>6. HasWhole(G, p[bs[b].line], p[bs[b].end])
    BY <1>3, <2>2, <2>4 DEF HasWhole
  <2>7. bs[b].type = "table" => HasWhole(G, p[bs[b].line], p[bs[b].line + 2])
    <3>1. bs[b].type = "table" => p[bs[b].line + 2] <= c.to
      BY <1>2, <1>3, <2>2, <2>3
    <3> QED BY <1>3, <2>2, <2>4, <3>1 DEF HasWhole
  <2> QED BY <2>5, <2>6, <2>7 DEF Kept
<1>7. G \in Seq(ChunkSet) /\ Len(G) = 1 /\ G[1] = c
  BY <1>3
<1> HIDE DEF p, c, G
<1>8. \A x, y \in 1..Len(G) : ~(x < y)
  BY <1>7
<1>9. \A x \in 1..Len(G) : G[x] = c
  BY <1>7
<1> QED BY <1>4, <1>5, <1>6, <1>7, <1>8, <1>9 DEF Pieces, G, c, p

-----------------------------------------------------------------------------
(* _split_large_block: windows of a paragraph                              *)

LEMMA Products ==
  ASSUME NEW s \in Nat, NEW a \in Nat, NEW b \in Nat, a <= b
  PROVE  a * s \in Nat /\ b * s \in Nat /\ a * s <= b * s
<1>1. (b - a) * s \in Nat /\ b * s = a * s + (b - a) * s /\ a * s \in Nat
  OBVIOUS
<1> QED BY <1>1

(* The first window that reaches the end                                   *)
LEMMA WindowCount ==
  ASSUME NEW most \in Nat \ {0}, NEW step \in 1..most, NEW size \in Nat \ {0}
  PROVE  \E c \in 1..size : /\ (c - 1) * step + most >= size
                            /\ c > 1 => (c - 2) * step + most < size
<1> DEFINE X == {c \in 1..size : (c - 1) * step + most >= size}
<1>1. (size - 1) * step >= size - 1
  <2>1. size - 1 \in Nat /\ step - 1 \in Nat
    OBVIOUS
  <2>2. (size - 1) * (step - 1) \in Nat
    BY <2>1
  <2>3. (size - 1) * step = (size - 1) * (step - 1) + (size - 1)
    OBVIOUS
  <2> QED BY <2>1, <2>2, <2>3
<1>2. X \in SUBSET Nat /\ size \in X
  <2>1. (size - 1) * step \in Int
    OBVIOUS
  <2> QED BY <1>1, <2>1
<1>3. PICK c \in X : \A x \in X : c <= x
  <2> HIDE DEF X
  <2> QED BY <1>2, SmallestNumber
<1>4. ASSUME c > 1 PROVE (c - 2) * step + most < size
  <2>1. c - 1 \in 1..size /\ ~(c <= c - 1) /\ (c - 1) - 1 = c - 2
    BY <1>4
  <2>2. c - 1 \notin X
    BY <1>3, <2>1
  <2>3. ~((c - 2) * step + most >= size)
    BY <2>1, <2>2
  <2>4. (c - 2) * step \in Int
    BY <2>1
  <2> QED BY <2>3, <2>4
<1> QED BY <1>4

(* The windows of the numbers a to z - 1, each most long and step after    *)
(* the one before                                                          *)
StartOf(a, step, c) == a + (c - 1) * step

LEMMA WindowsOrdered ==
  ASSUME NEW most \in Nat \ {0}, NEW step \in 1..most,
         NEW a \in Nat, NEW c \in Nat \ {0}, NEW e \in Nat \ {0}, c < e
  PROVE  /\ StartOf(a, step, c) \in Nat /\ StartOf(a, step, e) \in Nat
         /\ StartOf(a, step, c) + step <= StartOf(a, step, e)
         /\ e # c + 1 => StartOf(a, step, c) + 2 * step <= StartOf(a, step, e)
<1>1. /\ (e - 1) * step = (c - 1) * step + (e - c) * step
      /\ (c - 1) * step \in Nat /\ (e - 1) * step \in Nat
  <2>1. (e - 1) * step = (c - 1) * step + (e - c) * step
    OBVIOUS
  <2>2. c - 1 \in Nat /\ e - 1 \in Nat /\ step \in Nat
    OBVIOUS
  <2> QED BY <2>1, <2>2, Products
<1>2. (e - c) * step >= step /\ (e - c) * step \in Nat
  <2>1. 1 * step <= (e - c) * step /\ (e - c) * step \in Nat
    <3>1. 1 \in Nat /\ e - c \in Nat /\ 1 <= e - c /\ step \in Nat
      OBVIOUS
    <3> QED BY <3>1, Products
  <2> QED BY <2>1
<1>3. e # c + 1 => (e - c) * step >= 2 * step
  <2>1. ASSUME e # c + 1 PROVE 2 * step <= (e - c) * step
    <3>1. 2 \in Nat /\ e - c \in Nat /\ 2 <= e - c /\ step \in Nat
      BY <2>1
    <3> QED BY <3>1, Products
  <2> QED BY <2>1, <1>2
<1> DEFINE u == (c - 1) * step
<1> DEFINE v == (e - 1) * step
<1> DEFINE w == (e - c) * step
<1>4. /\ u \in Nat /\ v \in Nat /\ w \in Nat /\ v = u + w /\ w >= step
      /\ e # c + 1 => w >= 2 * step
  BY <1>1, <1>2, <1>3
<1> HIDE DEF u, v, w
<1>5. /\ a + u \in Nat /\ a + v \in Nat /\ a + u + step <= a + v
      /\ e # c + 1 => a + u + 2 * step <= a + v
  BY <1>4
<1> QED BY <1>5 DEF StartOf, u, v

LEMMA WindowPieces ==
  ASSUME SizesOK, Document(lines), BlocksOK(lines, blocks),
         NEW n \in 1..Len(blocks), blocks[n].type = "paragraph"
  PROVE  Pieces(Pos(lines), blocks, Windows(n), n, n)
<1> DEFINE b == blocks[n]
<1> DEFINE p == Pos(lines)
<1> DEFINE a == p[b.line]
<1> DEFINE z == p[b.end]
<1> DEFINE size == z - a
<1> DEFINE step == Most - Smaller(Overlap, Most - 1)
<1> DEFINE count == CHOOSE c \in 1..size :
                      /\ (c - 1) * step + Most >= size
                      /\ c > 1 => (c - 2) * step + Most < size
<1> DEFINE from(c) == a + (c - 1) * step
<1> DEFINE to(c) == Smaller(from(c) + Most, z)
<1> DEFINE W == [c \in 1..count |-> Chunk(from(c), to(c), to(c) - from(c), n, n)]
<1>1. /\ b.line \in 1..Len(lines) /\ b.end \in 1..(Len(lines) + 1)
      /\ a \in Nat /\ z \in Nat /\ a < z
  BY BlockPositions
<1>2. /\ step \in 1..Most /\ Most \in Nat \ {0} /\ Most - step <= Overlap
      /\ 2 * Overlap <= Most => Most <= 2 * step
      /\ Overlap \in Nat
  BY DEF SizesOK, Smaller
<1>3. At(b.line) = a /\ At(b.end) = z
  <2>1. Len(lines) \in Nat
    BY DEF Document
  <2>2. b.line \in 1..(Len(lines) + 1) /\ b.end \in 1..(Len(lines) + 1)
    BY <1>1, <2>1
  <2> HIDE DEF b
  <2> QED BY <2>2, AtIsPos
<1>4. Words(b) = size
  BY <1>3 DEF Words
<1>5. Windows(n) = W
  BY <1>3, <1>4 DEF Windows
<1> HIDE DEF a, z, p
<1>6. size \in Nat \ {0}
  BY <1>1
<1> HIDE DEF size, step
<1>7. /\ count \in 1..size
      /\ (count - 1) * step + Most >= size
      /\ count > 1 => (count - 2) * step + Most < size
  BY <1>2, <1>6, WindowCount
<1> HIDE DEF count
<1>8. \A c : from(c) = StartOf(a, step, c)
  BY DEF StartOf
<1>9. ASSUME NEW c \in 1..count
      PROVE  /\ c \in Nat \ {0} /\ from(c) \in Nat /\ a <= from(c)
             /\ from(c) < z /\ to(c) \in Nat /\ from(c) <= to(c)
             /\ to(c) <= z /\ to(c) <= from(c) + Most
             /\ to(c) = z \/ to(c) = from(c) + Most
  <2>1. c \in Nat \ {0} /\ c - 1 \in Nat /\ count - 1 \in Nat /\ step \in Nat
        /\ c - 1 <= count - 1
    BY <1>2, <1>6, <1>7
  <2>2. (c - 1) * step \in Nat /\ (c - 1) * step <= (count - 1) * step
        /\ (count - 1) * step \in Nat
    BY <2>1, Products
  <2>3. (count - 1) * step < size
    <3>1. CASE count = 1
      BY <1>2, <1>6, <3>1
    <3>2. CASE count > 1
      <4>1. (count - 1) * step = (count - 2) * step + step
        BY <1>2, <1>6, <1>7
      <4>2. (count - 2) * step \in Int
        BY <1>2, <1>6, <1>7
      <4> QED BY <1>2, <1>6, <1>7, <3>2, <4>1, <4>2
    <3> QED BY <1>6, <1>7, <3>1, <3>2
  <2> DEFINE u == (c - 1) * step
  <2>4. u \in Nat /\ u < size
    BY <1>6, <2>2, <2>3
  <2>5. from(c) = a + u
    OBVIOUS
  <2> HIDE DEF u
  <2>6. from(c) \in Nat /\ a <= from(c) /\ from(c) < z
    BY <1>1, <2>4, <2>5 DEF size
  <2> HIDE DEF from
  <2> QED BY SMTT(30), <1>1, <1>2, <2>1, <2>6 DEF Smaller
<1>10. ASSUME NEW c \in 1..count, NEW e \in 1..count, c < e
       PROVE  /\ from(c) < from(e)
              /\ to(c) - from(e) <= Overlap
              /\ (2 * Overlap <= Most /\ e # c + 1) => to(c) <= from(e)
  <2>1. /\ c \in Nat \ {0} /\ e \in Nat \ {0} /\ from(c) \in Nat
        /\ from(e) \in Nat /\ to(c) \in Nat /\ to(c) <= from(c) + Most
    BY <1>9
  <2>2. /\ from(c) + step <= from(e)
        /\ e # c + 1 => from(c) + 2 * step <= from(e)
    BY <1>2, <1>1, <1>8, <1>10, <2>1, WindowsOrdered
  <2> HIDE DEF from, to
  <2> QED BY <1>2, <2>1, <2>2
<1>11. ASSUME NEW q \in a..(z - 1)
       PROVE  \E c \in 1..count : q \in from(c)..(to(c) - 1)
  <2> DEFINE X == {c \in 1..count : from(c) <= q}
  <2>1. 1 \in X /\ X \in SUBSET Nat /\ count \in Nat /\ \A x \in X : x <= count
    <3>1. count \in Nat \ {0} /\ 1 \in 1..count
      BY <1>6, <1>7
    <3>2. from(1) = a
      BY <1>1, <1>2
    <3> QED BY <1>1, <3>1, <3>2
  <2>2. PICK c \in X : \A x \in X : x <= c
    <3> HIDE DEF X
    <3> QED BY <2>1, LargestNumber
  <2>3. c \in 1..count /\ from(c) <= q /\ from(c) \in Nat /\ q \in Int /\ q < z
    BY <1>1, <1>9
  <2>4. ASSUME to(c) = from(c) + Most, ~(q < from(c) + Most) PROVE FALSE
    <3>1. CASE c = count
      <4>1. from(c) + Most >= z
        <5> DEFINE u == (c - 1) * step
        <5>1. u + Most >= size /\ u \in Int
          BY <1>2, <1>6, <1>7, <2>3, <3>1
        <5>2. from(c) = a + u
          OBVIOUS
        <5> HIDE DEF u, from
        <5> QED BY <1>1, <1>2, <5>1, <5>2 DEF size
      <4> HIDE DEF from, to
      <4> QED BY <1>1, <1>2, <2>3, <2>4, <4>1
    <3>2. CASE c # count
      <4>1. c + 1 \in 1..count
        BY <2>1, <2>3, <3>2
      <4>2. from(c + 1) = from(c) + step
        <5>1. ((c + 1) - 1) * step = (c - 1) * step + step
          BY <1>2, <2>3, <2>1
        <5>2. (c - 1) * step \in Int
          BY <1>2, <2>3, <2>1
        <5> QED BY <1>1, <1>2, <5>1, <5>2
      <4>3. c + 1 \notin X
        <5>1. c \in Nat /\ ~(c + 1 <= c)
          BY <2>1
        <5>2. c + 1 \in X => c + 1 <= c
          BY <2>2
        <5> QED BY <5>1, <5>2
      <4>4. ~(from(c + 1) <= q)
        BY <4>1, <4>3
      <4> HIDE DEF from, to
      <4> QED BY <1>2, <2>3, <2>4, <4>2, <4>4
    <3> QED BY <3>1, <3>2
  <2>5. q < to(c)
    <3>1. to(c) = z \/ to(c) = from(c) + Most
      BY <1>9, <2>3
    <3> HIDE DEF from, to
    <3> QED BY <2>3, <2>4, <3>1
  <2>6. to(c) \in Nat
    BY <1>9, <2>3
  <2> HIDE DEF from, to
  <2>7. q \in from(c)..(to(c) - 1)
    BY <2>3, <2>5, <2>6
  <2> QED BY <2>3, <2>7
<1> HIDE DEF from, to
<1>12. /\ W \in [1..count -> ChunkSet] /\ count \in Nat
       /\ \A c \in 1..count :
            /\ W[c].first = n /\ W[c].last = n /\ W[c].from = from(c)
            /\ W[c].to = to(c) /\ W[c].words = to(c) - from(c)
  <2>1. ASSUME NEW c \in 1..count
        PROVE  LET x == Chunk(from(c), to(c), to(c) - from(c), n, n)
               IN  /\ x \in ChunkSet /\ x.first = n /\ x.last = n
                   /\ x.from = from(c) /\ x.to = to(c)
                   /\ x.words = to(c) - from(c)
    <3>1. from(c) \in Nat /\ to(c) \in Nat /\ to(c) - from(c) \in Nat /\ n \in Nat
      BY <1>9
    <3> QED BY <3>1 DEF Chunk, ChunkSet
  <2>2. count \in Nat
    BY <1>6, <1>7
  <2> QED BY <2>1, <2>2
<1> HIDE DEF W
<1>13. W \in Seq(ChunkSet) /\ Len(W) = count
  BY <1>12
<1>14. ASSUME NEW c \in 1..Len(W)
       PROVE  PieceOK(p, blocks, W[c], n, n) /\ SizeOK(p, blocks, W[c])
  <2>1. /\ c \in 1..count /\ n \in n..n /\ a <= from(c) /\ from(c) < z
        /\ to(c) <= z
    BY <1>9, <1>13
  <2>2. PieceOK(p, blocks, W[c], n, n)
    BY <1>12, <2>1 DEF PieceOK, a, z
  <2>3. W[c].words <= Most
    BY SMTT(30), <1>2, <1>9, <1>12, <2>1
  <2> QED BY <2>2, <2>3 DEF SizeOK
<1>15. ASSUME NEW c \in 1..Len(W), NEW e \in 1..Len(W), c < e
       PROVE  Apart(blocks, W[c], W[e], e = c + 1)
  <2>1. c \in 1..count /\ e \in 1..count /\ from(e) \in Nat /\ to(c) \in Nat
    BY <1>9, <1>13
  <2>2. /\ from(c) < from(e) /\ to(c) - from(e) <= Overlap
        /\ (2 * Overlap <= Most /\ e # c + 1) => to(c) <= from(e)
    BY <1>10, <1>15, <2>1
  <2>3. to(c) <= from(e) \/ (2 * Overlap <= Most => e = c + 1)
    BY <2>2
  <2> QED BY <1>12, <2>1, <2>2, <2>3 DEF Apart
<1>16. Kept(p, b, W)
  <2>1. ASSUME NEW q \in a..(z - 1) PROVE Reaches(W, q)
    <3>1. PICK c \in 1..count : q \in from(c)..(to(c) - 1)
      BY <1>11
    <3> QED BY <1>12, <1>13, <3>1 DEF Reaches
  <2> QED BY <2>1 DEF Kept, a, z
<1>17. \A x \in n..n : x = n
  OBVIOUS
<1> QED BY <1>5, <1>13, <1>14, <1>15, <1>16, <1>17 DEF Pieces, p

-----------------------------------------------------------------------------
(* _split_large_block: the lines of a table, a list or a quote             *)

CutAt(b, s, k) ==
  k < b.end /\ At(k + 1) - At(s[Len(s)]) > Most /\ ~Protected(b, k)

NextStarts(b, s, k) == IF CutAt(b, s, k) THEN Append(s, k) ELSE s

(* f[k] is where the chunks of the lines from b.line to k start.           *)
Starts(b, f, to) ==
  f = [k \in b.line..to |->
         IF k = b.line THEN <<b.line>> ELSE NextStarts(b, f[k - 1], k)]

LEMMA StartsExist ==
  ASSUME NEW b, b.line \in Nat, NEW to \in Nat, b.line <= to
  PROVE  \E f : Starts(b, f, to)
<1> DEFINE X == {t \in b.line..to : ~\E f : Starts(b, f, t)}
<1>1. ASSUME X # {} PROVE FALSE
  <2>1. PICK t \in X : \A x \in X : t <= x
    <3>1. X \in SUBSET Nat
      OBVIOUS
    <3> HIDE DEF X
    <3> QED BY <1>1, <3>1, SmallestNumber
  <2>2. t \in b.line..to /\ ~\E f : Starts(b, f, t)
    OBVIOUS
  <2>3. CASE t = b.line
    <3> DEFINE f == [k \in b.line..t |-> <<b.line>>]
    <3>1. \A k \in b.line..t : k = b.line
      BY <2>3
    <3>2. f = [k \in b.line..t |->
                 IF k = b.line THEN <<b.line>> ELSE NextStarts(b, f[k - 1], k)]
      BY <3>1
    <3> QED BY <2>2, <3>2 DEF Starts
  <2>4. CASE t # b.line
    <3>1. t - 1 \in b.line..to /\ ~(t <= t - 1)
      BY <2>2, <2>4
    <3>2. t - 1 \notin X
      BY <2>1, <3>1
    <3>3. PICK g : Starts(b, g, t - 1)
      BY <3>1, <3>2
    <3> DEFINE F(h, k) ==
          IF k = b.line THEN <<b.line>> ELSE NextStarts(b, h[k - 1], k)
    <3> DEFINE f == [k \in b.line..t |-> F(g, k)]
    <3>4. g = [k \in b.line..(t - 1) |-> F(g, k)]
      BY <3>3 DEF Starts
    <3>5. \A k \in b.line..(t - 1) : k \in b.line..t
      BY <2>2
    <3>6. \A k \in b.line..(t - 1) : f[k] = g[k]
      <4> HIDE DEF F
      <4> QED BY <3>4, <3>5
    <3>7. ASSUME NEW k \in b.line..t PROVE F(g, k) = F(f, k)
      <4>1. CASE k = b.line
        BY <4>1
      <4>2. CASE k # b.line
        <5>1. k - 1 \in b.line..(t - 1)
          BY <2>2, <4>2
        <5>2. f[k - 1] = g[k - 1]
          BY <3>6, <5>1
        <5> HIDE DEF f
        <5> QED BY <5>2
      <4> QED BY <4>1, <4>2
    <3>8. f = [k \in b.line..t |-> F(f, k)]
      <4>1. [k \in b.line..t |-> F(g, k)] = [k \in b.line..t |-> F(f, k)]
        <5> HIDE DEF f, F
        <5> QED BY <3>7
      <4> QED BY <4>1
    <3> QED BY <2>2, <3>8 DEF Starts
  <2> QED BY <2>3, <2>4
<1>2. to \in b.line..to
  OBVIOUS
<1> QED BY <1>1, <1>2

(* The lines from x to y - 1 are few enough, or there is no cut in them.   *)
Fits(b, x, y) ==
  \/ Pos(lines)[y] - Pos(lines)[x] <= Most
  \/ y <= x + 1
  \/ b.type = "table" /\ x = b.line /\ y <= b.line + 2

StartsOK(b, s, k) ==
  /\ s \in Seq(Nat) /\ Len(s) \in Nat \ {0} /\ s[1] = b.line
  /\ \A j \in 1..Len(s) : s[j] \in b.line..(b.end - 1) /\ s[j] <= k
  /\ \A j, h \in 1..Len(s) : j < h => s[j] < s[h]
  /\ \A j \in 1..Len(s) : j < Len(s) => Fits(b, s[j], s[j + 1])
  /\ Fits(b, s[Len(s)], IF k < b.end THEN k + 1 ELSE k)
  /\ b.type = "table" => \A j \in 1..Len(s) : s[j] # b.line + 1

LEMMA FirstStart ==
  ASSUME NEW b, BlockOK(lines, b), Document(lines)
  PROVE  StartsOK(b, <<b.line>>, b.line)
<1>1. /\ b.line \in Nat /\ b.end \in Nat /\ b.line < b.end
      /\ b.line \in b.line..(b.end - 1) /\ b.line # b.line + 1
  BY DEF BlockOK, BlockSet, Document
<1> DEFINE s == <<b.line>>
<1>2. s \in Seq(Nat) /\ Len(s) = 1 /\ s[1] = b.line
  BY <1>1
<1>3. Fits(b, b.line, b.line + 1)
  BY <1>1 DEF Fits
<1> HIDE DEF s
<1>4. \A j \in 1..Len(s) : j = 1 /\ ~(j < Len(s)) /\ s[j] = b.line
  BY <1>2
<1>5. \A j, h \in 1..Len(s) : ~(j < h)
  BY <1>2
<1>6. (IF b.line < b.end THEN b.line + 1 ELSE b.line) = b.line + 1
  BY <1>1
<1>7. Fits(b, s[Len(s)], IF b.line < b.end THEN b.line + 1 ELSE b.line)
  BY <1>2, <1>3, <1>6
<1>8. \A j \in 1..Len(s) : s[j] \in b.line..(b.end - 1) /\ s[j] <= b.line
  BY <1>1, <1>4
<1> QED BY <1>1, <1>2, <1>4, <1>5, <1>7, <1>8 DEF StartsOK, s

LEMMA NextStart ==
  ASSUME NEW b, BlockOK(lines, b), Document(lines), SizesOK,
         NEW k \in (b.line + 1)..b.end, NEW s, StartsOK(b, s, k - 1)
  PROVE  StartsOK(b, NextStarts(b, s, k), k)
<1>1. /\ b.line \in Nat /\ b.end \in Nat /\ k \in Nat /\ b.line < k /\ k <= b.end
      /\ b.end <= Len(lines) + 1 /\ Len(lines) \in Nat /\ b.line \in 1..Len(lines)
  BY DEF BlockOK, BlockSet, Document
<1> DEFINE last == s[Len(s)]
<1>2. /\ s \in Seq(Nat) /\ Len(s) \in Nat \ {0} /\ s[1] = b.line
      /\ \A j \in 1..Len(s) :
           s[j] \in b.line..(b.end - 1) /\ s[j] \in Nat /\ s[j] < k
      /\ \A j, h \in 1..Len(s) : j < h => s[j] < s[h]
      /\ \A j \in 1..Len(s) : j < Len(s) => Fits(b, s[j], s[j + 1])
      /\ b.type = "table" => \A j \in 1..Len(s) : s[j] # b.line + 1
  <2>1. ASSUME NEW j \in 1..Len(s)
        PROVE  s[j] \in b.line..(b.end - 1) /\ s[j] \in Nat /\ s[j] < k
    <3>1. s[j] \in b.line..(b.end - 1) /\ s[j] <= k - 1
      BY DEF StartsOK
    <3> QED BY <1>1, <3>1
  <2> QED BY <2>1 DEF StartsOK
<1>3. Fits(b, last, k)
  <2>1. k - 1 < b.end /\ (k - 1) + 1 = k
    BY <1>1
  <2>2. Fits(b, last, IF k - 1 < b.end THEN (k - 1) + 1 ELSE k - 1)
    BY DEF StartsOK
  <2> QED BY <2>1, <2>2
<1>4. Len(s) \in 1..Len(s) /\ last \in b.line..(b.end - 1) /\ last < k
      /\ last \in Nat
  <2>1. Len(s) \in 1..Len(s)
    BY <1>2
  <2> QED BY <1>2, <2>1
<1>5. CASE CutAt(b, s, k)
  <2> DEFINE t == Append(s, k)
  <2>1. k < b.end /\ ~Protected(b, k) /\ NextStarts(b, s, k) = t
    BY <1>5 DEF CutAt, NextStarts
  <2>2. /\ t \in Seq(Nat) /\ Len(t) = Len(s) + 1 /\ t[Len(s) + 1] = k
        /\ \A j \in 1..Len(s) : t[j] = s[j]
    BY <1>1, <1>2
  <2> HIDE DEF t
  <2>3. \A j \in 1..Len(t) : j = Len(s) + 1 \/ j \in 1..Len(s)
    BY <1>2, <2>2
  <2>4. k \in b.line..(b.end - 1) /\ k <= k
    BY <1>1, <2>1
  <2>5. ASSUME NEW j \in 1..Len(t)
        PROVE  t[j] \in b.line..(b.end - 1) /\ t[j] <= k
    <3>1. CASE j = Len(s) + 1
      BY <2>2, <2>4, <3>1
    <3>2. CASE j \in 1..Len(s)
      <4>1. t[j] = s[j] /\ s[j] \in b.line..(b.end - 1) /\ s[j] < k /\ s[j] \in Nat
        BY <1>2, <2>2, <3>2
      <4>2. s[j] <= k
        BY <1>1, <4>1
      <4> QED BY <4>1, <4>2
    <3> QED BY <2>3, <3>1, <3>2
  <2>6. ASSUME NEW j \in 1..Len(t), NEW h \in 1..Len(t), j < h
        PROVE  t[j] < t[h]
    <3>1. j \in 1..Len(s)
      BY <1>2, <2>2, <2>6
    <3>2. CASE h = Len(s) + 1
      BY <1>2, <2>2, <3>1, <3>2
    <3>3. CASE h \in 1..Len(s)
      BY <1>2, <2>2, <2>6, <3>1, <3>3
    <3> QED BY <2>3, <3>2, <3>3
  <2>7. ASSUME NEW j \in 1..Len(t), j < Len(t)
        PROVE  Fits(b, t[j], t[j + 1])
    <3>1. j \in 1..Len(s)
      BY <1>2, <2>2, <2>7
    <3>2. CASE j = Len(s)
      BY <1>3, <2>2, <3>1, <3>2
    <3>3. CASE j # Len(s)
      <4>1. j + 1 \in 1..Len(s) /\ j < Len(s)
        BY <1>2, <3>1, <3>3
      <4>2. t[j] = s[j] /\ t[j + 1] = s[j + 1]
        BY <2>2, <3>1, <4>1
      <4> QED BY <1>2, <3>1, <4>1, <4>2
    <3> QED BY <3>2, <3>3
  <2>8. Fits(b, t[Len(t)], IF k < b.end THEN k + 1 ELSE k)
    <3>1. (IF k < b.end THEN k + 1 ELSE k) = k + 1 /\ k + 1 <= k + 1
      BY <1>1, <2>1
    <3> QED BY <2>2, <3>1 DEF Fits
  <2>9. ASSUME b.type = "table", NEW j \in 1..Len(t) PROVE t[j] # b.line + 1
    <3>1. k # b.line + 1
      BY <2>1, <2>9 DEF Protected
    <3>2. j \in 1..Len(s) => s[j] # b.line + 1
      BY <1>2, <2>9
    <3> QED BY <2>2, <2>3, <3>1, <3>2
  <2>10. Len(t) \in Nat \ {0} /\ t[1] = b.line
    <3>1. 1 \in 1..Len(s)
      BY <1>2
    <3>2. t[1] = b.line
      BY <1>2, <2>2, <3>1
    <3> QED BY <1>2, <2>2, <3>2
  <2> QED BY <2>1, <2>2, <2>5, <2>6, <2>7, <2>8, <2>9, <2>10 DEF StartsOK
<1>6. CASE ~CutAt(b, s, k)
  <2>1. NextStarts(b, s, k) = s
    BY <1>6 DEF NextStarts
  <2>2. \A j \in 1..Len(s) : s[j] \in b.line..(b.end - 1) /\ s[j] <= k
    <3>1. ASSUME NEW j \in 1..Len(s)
          PROVE  s[j] \in b.line..(b.end - 1) /\ s[j] <= k
      <4>1. s[j] \in b.line..(b.end - 1) /\ s[j] \in Nat /\ s[j] < k
        BY <1>2
      <4> QED BY <1>1, <4>1
    <3> QED BY <3>1
  <2>3. Fits(b, last, IF k < b.end THEN k + 1 ELSE k)
    <3>1. CASE ~(k < b.end)
      <4>1. (IF k < b.end THEN k + 1 ELSE k) = k
        BY <3>1
      <4> QED BY <1>3, <4>1
    <3>2. CASE k < b.end
      <4>1. (IF k < b.end THEN k + 1 ELSE k) = k + 1
        BY <3>2
      <4>2. k + 1 \in 1..(Len(lines) + 1) /\ last \in 1..(Len(lines) + 1)
        BY <1>1, <1>4, <3>2
      <4>3. At(k + 1) = Pos(lines)[k + 1] /\ At(last) = Pos(lines)[last]
        BY <4>2, AtIsPos
      <4>4. Pos(lines)[k + 1] \in Nat /\ Pos(lines)[last] \in Nat /\ Most \in Nat
        BY <4>2, Positions DEF SizesOK
      <4>5. CASE Protected(b, k)
        <5>1. b.type = "table" /\ k = b.line + 1
          BY <4>5 DEF Protected
        <5>2. last = b.line /\ k + 1 <= b.line + 2
          BY <1>1, <1>4, <5>1
        <5> QED BY <4>1, <5>1, <5>2 DEF Fits
      <4>6. CASE ~(At(k + 1) - At(last) > Most)
        <5>1. Pos(lines)[k + 1] - Pos(lines)[last] <= Most
          BY <4>3, <4>4, <4>6
        <5> QED BY <4>1, <5>1 DEF Fits
      <4> QED BY <1>6, <3>2, <4>5, <4>6 DEF CutAt
    <3> QED BY <3>1, <3>2
  <2> QED BY <1>2, <2>1, <2>2, <2>3 DEF StartsOK
<1> QED BY <1>5, <1>6

LEMMA StartsHold ==
  ASSUME NEW b, BlockOK(lines, b), Document(lines), SizesOK,
         NEW f, Starts(b, f, b.end)
  PROVE  \A k \in b.line..b.end : StartsOK(b, f[k], k)
<1> DEFINE X == {k \in b.line..b.end : ~StartsOK(b, f[k], k)}
<1>1. b.line \in Nat /\ b.end \in Nat /\ b.line < b.end
  BY DEF BlockOK, BlockSet, Document
<1>2. \A k \in b.line..b.end :
        f[k] = IF k = b.line THEN <<b.line>> ELSE NextStarts(b, f[k - 1], k)
  BY DEF Starts
<1>3. ASSUME X # {} PROVE FALSE
  <2>1. PICK k \in X : \A x \in X : k <= x
    <3>1. X \in SUBSET Nat
      BY <1>1
    <3> HIDE DEF X
    <3> QED BY <1>3, <3>1, SmallestNumber
  <2>2. k \in b.line..b.end /\ ~StartsOK(b, f[k], k)
    OBVIOUS
  <2>3. CASE k = b.line
    <3>1. f[k] = <<b.line>>
      BY <1>2, <2>2, <2>3
    <3> QED BY <2>2, <2>3, <3>1, FirstStart
  <2>4. CASE k # b.line
    <3>1. k \in (b.line + 1)..b.end /\ k - 1 \in b.line..b.end /\ ~(k <= k - 1)
      BY <1>1, <2>2, <2>4
    <3>2. StartsOK(b, f[k - 1], k - 1)
      BY <2>1, <3>1
    <3>3. f[k] = NextStarts(b, f[k - 1], k)
      BY <1>2, <2>2, <2>4
    <3>4. StartsOK(b, NextStarts(b, f[k - 1], k), k)
      BY <3>1, <3>2, NextStart
    <3> QED BY <2>2, <3>3, <3>4
  <2> QED BY <2>3, <2>4
<1> QED BY <1>3

(* Each line of a block that is not code has words.                        *)
LEMMA LinePositions ==
  ASSUME Document(lines), NEW b, BlockOK(lines, b), b.type # "code",
         NEW x \in b.line..b.end, NEW y \in b.line..b.end
  PROVE  /\ x \in 1..(Len(lines) + 1) /\ Pos(lines)[x] \in Nat
         /\ x <= y => Pos(lines)[x] <= Pos(lines)[y]
         /\ x < y => Pos(lines)[x] < Pos(lines)[y]
<1> DEFINE p == Pos(lines)
<1>1. /\ p \in [1..(Len(lines) + 1) -> Nat]
      /\ \A k \in 1..Len(lines) : p[k + 1] = p[k] + lines[k].words
      /\ \A j, k \in 1..(Len(lines) + 1) : j <= k => p[j] <= p[k]
  BY Positions
<1> HIDE DEF p
<1>2. /\ b.line \in 1..Len(lines) /\ b.end \in 1..(Len(lines) + 1)
      /\ Len(lines) \in Nat
  BY DEF BlockOK, BlockSet, Document
<1>3. x \in 1..(Len(lines) + 1) /\ y \in 1..(Len(lines) + 1)
  BY <1>2
<1>4. p[x] \in Nat /\ p[y] \in Nat
  BY <1>1, <1>3
<1>5. ASSUME x < y PROVE p[x] < p[y]
  <2>1. /\ x \in 1..Len(lines) /\ x \in b.line..(b.end - 1)
        /\ x + 1 \in 1..(Len(lines) + 1) /\ x + 1 <= y
    BY <1>2, <1>5
  <2>2. lines[x].kind # "blank"
    BY <2>1 DEF BlockOK
  <2>3. lines[x].words \in Nat /\ lines[x].words # 0
    <3>1. lines[x] \in Line /\ (lines[x].kind = "blank" <=> lines[x].words = 0)
      BY <2>1 DEF Document
    <3> QED BY <2>2, <3>1 DEF Line
  <2>4. p[x + 1] = p[x] + lines[x].words /\ p[x + 1] <= p[y]
    BY <1>1, <1>3, <2>1
  <2> QED BY <1>4, <2>3, <2>4
<1> QED BY <1>1, <1>3, <1>4, <1>5 DEF p

LEMMA ArrayIsSeq ==
  ASSUME NEW S, NEW n \in Nat, NEW g \in [1..n -> S]
  PROVE  g \in Seq(S) /\ Len(g) = n
OBVIOUS

(* Lines cut at s are pieces of the block.                                 *)
LEMMA CutPieces ==
  ASSUME Document(lines), BlocksOK(lines, blocks),
         NEW n \in 1..Len(blocks),
         blocks[n].type # "code", blocks[n].type # "paragraph",
         NEW s, StartsOK(blocks[n], s, blocks[n].end)
  PROVE  LET end(c) == IF c = Len(s) THEN blocks[n].end ELSE s[c + 1]
             at(k) == Pos(lines)[k]
         IN  Pieces(Pos(lines), blocks,
                    [c \in 1..Len(s) |-> Chunk(at(s[c]), at(end(c)),
                                           at(end(c)) - at(s[c]), n, n)], n, n)
<1> DEFINE b == blocks[n]
<1> DEFINE p == Pos(lines)
<1> DEFINE end(c) == IF c = Len(s) THEN b.end ELSE s[c + 1]
<1> DEFINE G == [c \in 1..Len(s) |->
                   Chunk(p[s[c]], p[end(c)], p[end(c)] - p[s[c]], n, n)]
<1>1. BlockOK(lines, b)
  BY DEF BlocksOK
<1>2. b.line \in Nat /\ b.end \in Nat /\ b.line < b.end
  BY <1>1 DEF BlockOK, BlockSet, Document
<1>3. /\ s \in Seq(Nat) /\ Len(s) \in Nat \ {0} /\ s[1] = b.line
      /\ \A j \in 1..Len(s) : s[j] \in b.line..(b.end - 1)
      /\ \A j, h \in 1..Len(s) : j < h => s[j] < s[h]
      /\ \A j \in 1..Len(s) : j < Len(s) => Fits(b, s[j], s[j + 1])
      /\ Fits(b, s[Len(s)], b.end)
      /\ b.type = "table" => \A j \in 1..Len(s) : s[j] # b.line + 1
  <2>1. (IF b.end < b.end THEN b.end + 1 ELSE b.end) = b.end
    BY <1>2
  <2> QED BY <2>1 DEF StartsOK
<1>4. ASSUME NEW x \in b.line..b.end, NEW y \in b.line..b.end
      PROVE  /\ p[x] \in Nat
             /\ x <= y => p[x] <= p[y]
             /\ x < y => p[x] < p[y]
  <2>1. b.type # "code"
    OBVIOUS
  <2> HIDE DEF b
  <2> QED BY <1>1, <2>1, LinePositions
<1> HIDE DEF b, p
<1>5. ASSUME NEW c \in 1..Len(s)
      PROVE  /\ s[c] \in b.line..b.end /\ end(c) \in b.line..b.end
             /\ s[c] < b.end /\ s[c] < end(c) /\ Fits(b, s[c], end(c))
             /\ \A e \in 1..Len(s) : c < e => end(c) <= s[e]
  <2>1. s[c] \in b.line..b.end /\ s[c] < b.end
    BY <1>2, <1>3
  <2>2. CASE c = Len(s)
    <3>1. \A e \in 1..Len(s) : ~(c < e)
      BY <1>3, <2>2
    <3> QED BY <1>2, <1>3, <2>1, <2>2, <3>1
  <2>3. CASE c # Len(s)
    <3>1. c + 1 \in 1..Len(s) /\ c < Len(s) /\ c < c + 1
      BY <1>3, <2>3
    <3>2. s[c + 1] \in b.line..(b.end - 1) /\ s[c] < s[c + 1]
      BY <1>3, <3>1
    <3>3. ASSUME NEW e \in 1..Len(s), c < e PROVE s[c + 1] <= s[e]
      <4>1. CASE e = c + 1
        BY <1>2, <3>2, <4>1
      <4>2. CASE e # c + 1
        <5>1. c + 1 < e
          BY <3>3, <4>2
        <5>2. s[c + 1] < s[e] /\ s[e] \in b.line..(b.end - 1)
          BY <1>3, <3>1, <5>1
        <5> QED BY <1>2, <3>2, <5>2
      <4> QED BY <4>1, <4>2
    <3>4. end(c) = s[c + 1] /\ s[c + 1] \in b.line..b.end
      BY <1>2, <2>3, <3>2
    <3> QED BY <1>3, <2>1, <3>1, <3>2, <3>3, <3>4
  <2> QED BY <2>2, <2>3
<1>6. b.line \in b.line..b.end /\ b.end \in b.line..b.end
  BY <1>2
<1>7. ASSUME NEW c \in 1..Len(s)
      PROVE  /\ p[s[c]] \in Nat /\ p[end(c)] \in Nat /\ p[s[c]] < p[end(c)]
             /\ p[b.line] \in Nat /\ p[b.end] \in Nat
             /\ p[b.line] <= p[s[c]] /\ p[s[c]] < p[b.end]
             /\ p[end(c)] <= p[b.end]
  <2>1. /\ s[c] \in b.line..b.end /\ end(c) \in b.line..b.end
        /\ s[c] < b.end /\ s[c] < end(c) /\ b.line <= s[c] /\ end(c) <= b.end
    <3>1. /\ s[c] \in b.line..b.end /\ end(c) \in b.line..b.end
          /\ s[c] < b.end /\ s[c] < end(c)
      BY <1>5
    <3> HIDE DEF end
    <3> QED BY <1>2, <3>1
  <2> HIDE DEF end
  <2> QED BY <1>4, <1>6, <2>1
<1>8. /\ G \in [1..Len(s) -> ChunkSet]
      /\ \A c \in 1..Len(s) :
           /\ G[c].first = n /\ G[c].last = n /\ G[c].from = p[s[c]]
           /\ G[c].to = p[end(c)] /\ G[c].words = p[end(c)] - p[s[c]]
  <2> HIDE DEF end
  <2>1. ASSUME NEW c \in 1..Len(s)
        PROVE  LET x == Chunk(p[s[c]], p[end(c)], p[end(c)] - p[s[c]], n, n)
               IN  /\ x \in ChunkSet /\ x.first = n /\ x.last = n
                   /\ x.from = p[s[c]] /\ x.to = p[end(c)]
                   /\ x.words = p[end(c)] - p[s[c]]
    <3>1. /\ p[s[c]] \in Nat /\ p[end(c)] \in Nat /\ n \in Nat
          /\ p[end(c)] - p[s[c]] \in Nat
      BY <1>7
    <3> QED BY <3>1 DEF Chunk, ChunkSet
  <2> QED BY <2>1
<1> HIDE DEF G
<1>9. G \in Seq(ChunkSet) /\ Len(G) = Len(s)
  <2>1. Len(s) \in Nat /\ G \in [1..Len(s) -> ChunkSet]
    BY <1>3, <1>8
  <2> HIDE DEF end
  <2> QED BY <2>1, ArrayIsSeq
<1>10. ASSUME NEW c \in 1..Len(s)
       PROVE  PieceOK(p, blocks, G[c], n, n) /\ SizeOK(p, blocks, G[c])
  <2>1. PieceOK(p, blocks, G[c], n, n)
    <3>1. n \in n..n
      OBVIOUS
    <3> HIDE DEF end
    <3> QED BY <1>7, <1>8, <3>1 DEF PieceOK, b
  <2>2. Fits(b, s[c], end(c)) /\ s[c] \in b.line..b.end /\ end(c) \in b.line..b.end
        /\ s[c] < b.end
    BY <1>5
  <2> DEFINE x == s[c]
  <2> DEFINE y == end(c)
  <2>3. ASSUME p[y] - p[x] <= Most PROVE SizeOK(p, blocks, G[c])
    BY <1>8, <2>3 DEF SizeOK
  <2> DEFINE to == IF b.type = "table" /\ x = b.line THEN x + 2 ELSE x + 1
  <2>4. ASSUME y <= to PROVE SizeOK(p, blocks, G[c])
    <3>1. b.type = "table" => b.line + 2 <= b.end
      BY <1>1 DEF BlockOK
    <3>2. to \in b.line..b.end
      <4> HIDE DEF y
      <4> QED BY <1>2, <2>2, <3>1
    <3>3. p[y] <= p[to]
      <4> HIDE DEF y, to
      <4> QED BY <1>4, <2>2, <2>4, <3>2 DEF y
    <3>4. x \in b.line..(b.end - 1)
      BY <1>3
    <3>5. G[c].from = p[x] /\ G[c].to <= p[to] /\ blocks[G[c].first] = b
      BY <1>8, <3>3 DEF b
    <3> HIDE DEF x, y
    <3> QED BY <3>4, <3>5 DEF SizeOK
  <2>5. y <= to \/ p[y] - p[x] <= Most
    <3> HIDE DEF y
    <3>1. x \in Int /\ y \in Int
      BY <1>2, <2>2 DEF y
    <3>2. Fits(b, x, y)
      BY <2>2 DEF y
    <3> QED BY <3>1, <3>2 DEF Fits, p
  <2> HIDE DEF x, y, to
  <2> QED BY <2>1, <2>3, <2>4, <2>5
<1>11. ASSUME NEW c \in 1..Len(s), NEW e \in 1..Len(s), c < e
       PROVE  Apart(blocks, G[c], G[e], e = c + 1)
  <2>1. /\ end(c) <= s[e] /\ s[c] < s[e] /\ end(c) \in b.line..b.end
        /\ s[c] \in b.line..b.end /\ s[e] \in b.line..b.end
    BY <1>3, <1>5, <1>11
  <2> HIDE DEF end
  <2>2. p[end(c)] <= p[s[e]] /\ p[s[c]] < p[s[e]]
    BY <1>4, <2>1
  <2> QED BY <1>8, <2>2 DEF Apart
<1>12. ASSUME NEW q \in p[b.line]..(p[b.end] - 1) PROVE Reaches(G, q)
  <2> DEFINE X == {c \in 1..Len(s) : p[s[c]] <= q}
  <2>1. 1 \in X /\ X \in SUBSET Nat /\ \A x \in X : x <= Len(s)
    <3>1. 1 \in 1..Len(s) /\ p[b.line] \in Nat /\ p[b.end] \in Nat
      BY SMTT(30), <1>3, <1>7
    <3>2. p[s[1]] <= q
      BY <1>3, <3>1
    <3> QED BY <1>3, <3>1, <3>2
  <2>2. PICK c \in X : \A x \in X : x <= c
    <3> HIDE DEF X
    <3> QED BY <1>3, <2>1, LargestNumber
  <2>3. c \in 1..Len(s) /\ p[s[c]] <= q
    OBVIOUS
  <2>4. /\ p[s[c]] \in Nat /\ p[end(c)] \in Nat /\ q \in Int /\ q < p[b.end]
        /\ p[b.line] \in Nat /\ p[b.end] \in Nat
    <3>1. /\ p[s[c]] \in Nat /\ p[end(c)] \in Nat
          /\ p[b.line] \in Nat /\ p[b.end] \in Nat
      BY <1>7, <2>3
    <3> QED BY <3>1
  <2>5. q < p[end(c)]
    <3>1. CASE c = Len(s)
      BY <2>4, <3>1
    <3>2. CASE c # Len(s)
      <4>1. c + 1 \in 1..Len(s) /\ ~(c + 1 <= c)
        BY <1>3, <2>3, <3>2
      <4>2. c + 1 \in X => c + 1 <= c
        BY <2>2
      <4>3. ~(p[s[c + 1]] <= q)
        BY <4>1, <4>2
      <4>4. end(c) = s[c + 1]
        BY <3>2
      <4> HIDE DEF end
      <4> QED BY <2>4, <4>3, <4>4
    <3> QED BY <3>1, <3>2
  <2> HIDE DEF end
  <2>6. q \in p[s[c]]..(p[end(c)] - 1)
    <3> DEFINE u == p[s[c]]
    <3> DEFINE v == p[end(c)]
    <3>1. u \in Int /\ v \in Int /\ q \in Int /\ u <= q /\ q < v
      BY <2>3, <2>4, <2>5
    <3> HIDE DEF u, v
    <3>2. q \in u..(v - 1)
      BY <3>1
    <3> QED BY <3>2 DEF u, v
  <2> QED BY <1>8, <1>9, <2>3, <2>6 DEF Reaches
<1>13. ASSUME b.type = "table" PROVE HasWhole(G, p[b.line], p[b.line + 2])
  <2>1. 1 \in 1..Len(s) /\ s[1] = b.line
    BY <1>3
  <2>2. b.line + 2 <= b.end
    BY <1>1, <1>13 DEF BlockOK
  <2>3. end(1) \in b.line..b.end /\ b.line < end(1)
    BY <1>5, <2>1
  <2>4. end(1) # b.line + 1
    <3>1. CASE 1 = Len(s)
      BY <1>2, <2>2, <3>1
    <3>2. CASE 1 # Len(s)
      <4>1. 1 + 1 \in 1..Len(s)
        <5>1. Len(s) \in Nat \ {0}
          BY <1>3
        <5>2. \A k \in Nat \ {0} : 1 # k => 1 + 1 \in 1..k
          OBVIOUS
        <5> QED BY <3>2, <5>1, <5>2
      <4> QED BY <1>3, <1>13, <3>2, <4>1
    <3> QED BY <3>1, <3>2
  <2> HIDE DEF end
  <2>5. b.line + 2 \in b.line..b.end /\ b.line + 2 <= end(1)
    BY <1>2, <2>2, <2>3, <2>4
  <2>6. p[b.line + 2] <= p[end(1)]
    BY <1>4, <2>3, <2>5
  <2>7. G[1].from <= p[b.line]
    <3>1. p[b.line] \in Nat
      BY <1>7, <2>1
    <3> QED BY <1>8, <2>1, <3>1
  <2> QED BY <1>8, <1>9, <2>1, <2>6, <2>7 DEF HasWhole
<1>14. Kept(p, b, G)
  <2>1. b.type # "code"
    BY DEF b
  <2> QED BY <1>12, <1>13, <2>1 DEF Kept
<1>15. \A x \in n..n : blocks[x] = b
  BY DEF b
<1>16. Pieces(p, blocks, G, n, n)
  BY <1>9, <1>10, <1>11, <1>14, <1>15 DEF Pieces
<1> QED BY <1>16 DEF G, b, p

LEMMA LinePieces ==
  ASSUME SizesOK, Document(lines), BlocksOK(lines, blocks),
         NEW n \in 1..Len(blocks),
         blocks[n].type # "code", blocks[n].type # "paragraph"
  PROVE  Pieces(Pos(lines), blocks, Lines(n), n, n)
<1> DEFINE b == blocks[n]
<1> DEFINE P(f) ==
      f = [k \in b.line..b.end |->
             IF k = b.line THEN <<b.line>>
             ELSE LET before == f[k - 1]
                      start == before[Len(before)]
                  IN IF /\ k < b.end /\ At(k + 1) - At(start) > Most
                        /\ ~Protected(b, k)
                       THEN Append(before, k) ELSE before]
<1> DEFINE s == (CHOOSE f : P(f))[b.end]
<1> DEFINE end(c) == IF c = Len(s) THEN b.end ELSE s[c + 1]
<1>1. Lines(n) = [c \in 1..Len(s) |->
                    Chunk(At(s[c]), At(end(c)), At(end(c)) - At(s[c]), n, n)]
  BY DEF Lines
<1>2. BlockOK(lines, b)
  BY DEF BlocksOK
<1>3. /\ b.line \in Nat /\ b.end \in Nat /\ b.line < b.end
      /\ b.line \in 1..Len(lines) /\ b.end \in 1..(Len(lines) + 1)
      /\ Len(lines) \in Nat
  BY <1>2 DEF BlockOK, BlockSet, Document
<1>4. \A f : P(f) <=> Starts(b, f, b.end)
  BY DEF Starts, NextStarts, CutAt
<1> HIDE DEF b, P
<1>5. PICK f : f = (CHOOSE g : P(g))
  OBVIOUS
<1>6. Starts(b, f, b.end)
  <2>1. \E g : Starts(b, g, b.end)
    BY <1>3, StartsExist
  <2> QED BY <1>4, <1>5, <2>1
<1>7. s = f[b.end]
  BY <1>5
<1>8. StartsOK(b, s, b.end)
  <2>1. b.end \in b.line..b.end
    BY <1>3
  <2> QED BY <1>2, <1>6, <1>7, <2>1, StartsHold
<1> HIDE DEF s
<1>9. ASSUME NEW c \in 1..Len(s)
      PROVE  At(s[c]) = Pos(lines)[s[c]] /\ At(end(c)) = Pos(lines)[end(c)]
  <2>1. Len(s) \in Nat /\ \A j \in 1..Len(s) : s[j] \in b.line..(b.end - 1)
    BY <1>8 DEF StartsOK
  <2>2. ASSUME NEW j \in 1..Len(s) PROVE s[j] \in 1..(Len(lines) + 1)
    <3>1. s[j] \in b.line..(b.end - 1)
      BY <2>1
    <3> QED BY <1>3, <3>1
  <2>3. end(c) \in 1..(Len(lines) + 1)
    <3>1. CASE c = Len(s)
      BY <1>3, <3>1
    <3>2. CASE c # Len(s)
      <4>1. c + 1 \in 1..Len(s)
        BY <2>1, <3>2
      <4> QED BY <2>2, <3>2, <4>1
    <3> QED BY <3>1, <3>2
  <2> HIDE DEF end
  <2> QED BY <2>2, <2>3, AtIsPos
<1> DEFINE at(k) == Pos(lines)[k]
<1> DEFINE G == [c \in 1..Len(s) |->
                   Chunk(at(s[c]), at(end(c)), at(end(c)) - at(s[c]), n, n)]
<1>10. Lines(n) = G
  <2> HIDE DEF end
  <2> QED BY <1>1, <1>9
<1>11. Pieces(Pos(lines), blocks, G, n, n)
  BY <1>8, CutPieces DEF b
<1> HIDE DEF G
<1> QED BY <1>10, <1>11

(* _split_large_block                                                      *)
LEMMA SplitPieces ==
  ASSUME SizesOK, Document(lines), BlocksOK(lines, blocks),
         NEW n \in 1..Len(blocks)
  PROVE  Pieces(Pos(lines), blocks, SplitLargeBlock(n), n, n)
<1>1. CASE blocks[n].type = "code"
  <2> DEFINE a == Pos(lines)[blocks[n].line]
  <2> DEFINE z == Pos(lines)[blocks[n].end]
  <2>1. /\ blocks[n].line \in 1..(Len(lines) + 1)
        /\ blocks[n].end \in 1..(Len(lines) + 1)
        /\ a \in Nat /\ z \in Nat /\ a < z
    <3>1. /\ blocks[n].line \in 1..Len(lines) /\ Len(lines) \in Nat
          /\ blocks[n].end \in 1..(Len(lines) + 1)
          /\ a \in Nat /\ z \in Nat /\ a < z
      BY BlockPositions DEF Document
    <3> HIDE DEF a, z
    <3> QED BY <3>1
  <2>2. At(blocks[n].line) = a /\ At(blocks[n].end) = z
    BY <2>1, AtIsPos
  <2>3. Words(blocks[n]) = z - a
    BY <2>2 DEF Words
  <2>4. SplitLargeBlock(n) = <<Chunk(a, z, z - a, n, n)>>
    BY <1>1, <2>2, <2>3 DEF SplitLargeBlock
  <2> DEFINE words == z - a
  <2>5. words \in Nat
    <3> HIDE DEF a, z
    <3> QED BY <2>1
  <2>6. n \in n..Len(blocks)
    BY DEF BlocksOK
  <2> HIDE DEF words
  <2>7. Pieces(Pos(lines), blocks, <<Chunk(a, z, words, n, n)>>, n, n)
    BY <1>1, <2>5, <2>6, OnePiece
  <2> QED BY <2>4, <2>7 DEF words
<1>2. CASE blocks[n].type = "paragraph"
  <2>1. SplitLargeBlock(n) = Windows(n)
    BY <1>2 DEF SplitLargeBlock
  <2> QED BY <1>2, <2>1, WindowPieces
<1>3. CASE blocks[n].type # "code" /\ blocks[n].type # "paragraph"
  <2>1. SplitLargeBlock(n) = Lines(n)
    BY <1>3 DEF SplitLargeBlock
  <2> QED BY <1>3, <2>1, LinePieces
<1> QED BY <1>1, <1>2, <1>3

-----------------------------------------------------------------------------
(* The words of blocks                                                     *)

BlockSizes(d, bs) ==
  [k \in 1..Len(bs) |-> Pos(d)[bs[k].end] - Pos(d)[bs[k].line]]

LEMMA BlockWords ==
  ASSUME Document(lines), BlocksOK(lines, blocks), NEW n \in 1..Len(blocks)
  PROVE  /\ At(blocks[n].line) = Pos(lines)[blocks[n].line]
         /\ At(blocks[n].end) = Pos(lines)[blocks[n].end]
         /\ Words(blocks[n]) = BlockSizes(lines, blocks)[n]
         /\ Words(blocks[n]) \in Nat
<1> DEFINE a == Pos(lines)[blocks[n].line]
<1> DEFINE z == Pos(lines)[blocks[n].end]
<1>1. /\ blocks[n].line \in 1..(Len(lines) + 1)
      /\ blocks[n].end \in 1..(Len(lines) + 1)
      /\ a \in Nat /\ z \in Nat /\ a < z
  <2>1. /\ blocks[n].line \in 1..Len(lines) /\ Len(lines) \in Nat
        /\ blocks[n].end \in 1..(Len(lines) + 1)
        /\ a \in Nat /\ z \in Nat /\ a < z
    BY BlockPositions DEF Document
  <2> HIDE DEF a, z
  <2> QED BY <2>1
<1>2. At(blocks[n].line) = a /\ At(blocks[n].end) = z
  BY <1>1, AtIsPos
<1>3. BlockSizes(lines, blocks)[n] = z - a
  BY DEF BlockSizes
<1> HIDE DEF a, z
<1>4. Words(blocks[n]) = z - a
  BY <1>2 DEF Words
<1>5. z - a \in Nat
  BY <1>1
<1> QED BY <1>2, <1>3, <1>4, <1>5 DEF a, z

LEMMA WordsTotal ==
  ASSUME Document(lines), BlocksOK(lines, blocks),
         NEW m \in 1..(Len(blocks) + 1), NEW n \in 0..Len(blocks)
  PROVE  WordsOf(m, n) = Total(BlockSizes(lines, blocks), m..n)
<1> DEFINE T == m..n
<1> DEFINE w == BlockSizes(lines, blocks)
<1> DEFINE P(it) ==
      it = [s \in SUBSET T |->
              IF s = {} THEN 0
              ELSE LET x == CHOOSE x \in s : TRUE
                   IN  Words(blocks[x]) + it[s \ {x}]]
<1>1. WordsOf(m, n) = (CHOOSE it : P(it))[T]
  BY DEF WordsOf, MapThenSumSet, MapThenFoldSet
<1>2. ASSUME NEW it PROVE P(it) <=> Sums(it, w, T)
  <2> DEFINE f == [s \in SUBSET T |->
                     IF s = {} THEN 0
                     ELSE LET x == CHOOSE x \in s : TRUE
                          IN  Words(blocks[x]) + it[s \ {x}]]
  <2> DEFINE g == [s \in SUBSET T |->
                     IF s = {} THEN 0 ELSE w[OneOf(s)] + it[s \ {OneOf(s)}]]
  <2>1. ASSUME NEW s \in SUBSET T PROVE f[s] = g[s]
    <3>1. CASE s = {}
      BY <3>1
    <3>2. CASE s # {}
      <4>1. OneOf(s) \in s /\ Len(blocks) \in Nat
        BY <3>2 DEF OneOf, BlocksOK
      <4>2. OneOf(s) \in 1..Len(blocks)
        <5>1. OneOf(s) \in m..n
          BY <4>1
        <5> QED BY <4>1, <5>1
      <4>3. w[OneOf(s)] = Words(blocks[OneOf(s)])
        BY <4>2, BlockWords
      <4>4. f[s] = Words(blocks[OneOf(s)]) + it[s \ {OneOf(s)}]
        BY <3>2 DEF OneOf
      <4> HIDE DEF w
      <4> QED BY <3>2, <4>3, <4>4
    <3> QED BY <3>1, <3>2
  <2>2. f = g
    <3>1. f = [s \in SUBSET T |-> f[s]] /\ g = [s \in SUBSET T |-> g[s]]
      OBVIOUS
    <3> HIDE DEF f, g
    <3> QED BY <2>1, <3>1
  <2>3. P(it) <=> it = f
    OBVIOUS
  <2>4. Sums(it, w, T) <=> it = g
    BY DEF Sums
  <2> QED BY <2>2, <2>3, <2>4
<1>3. IsFiniteSet(T)
  <2>1. m \in Int /\ n \in Int
    BY DEF BlocksOK
  <2> QED BY <2>1, FS_Interval
<1> HIDE DEF P, w, T
<1>4. PICK f : f = (CHOOSE it : P(it))
  OBVIOUS
<1>5. PICK g : g = (CHOOSE it : Sums(it, w, T))
  OBVIOUS
<1>6. (\E it : Sums(it, w, T)) /\ (\E it : P(it))
  BY <1>2, <1>3, SumsExist
<1>7. Sums(f, w, T) /\ Sums(g, w, T)
  BY <1>2, <1>4, <1>5, <1>6
<1>8. f[T] = g[T]
  BY <1>3, <1>7, SumsAreUnique
<1>9. WordsOf(m, n) = Total(w, T)
  BY <1>1, <1>4, <1>5, <1>8 DEF Total
<1> QED BY <1>9 DEF w, T

(* One more block                                                          *)
LEMMA WordsGrow ==
  ASSUME Document(lines), BlocksOK(lines, blocks),
         NEW n \in 0..Len(blocks), n < Len(blocks), NEW m \in 1..(n + 1)
  PROVE  /\ WordsOf(m, n) \in Nat
         /\ WordsOf(m, n + 1) = WordsOf(m, n) + Words(blocks[n + 1])
         /\ WordsOf(n + 1, n + 1) = Words(blocks[n + 1])
<1> DEFINE S == 1..Len(blocks)
<1> DEFINE w == BlockSizes(lines, blocks)
<1>1. /\ Len(blocks) \in Nat /\ n + 1 \in S /\ n \in Nat
      /\ m \in 1..(Len(blocks) + 1) /\ n + 1 \in 1..(Len(blocks) + 1)
      /\ n + 1 \in 0..Len(blocks) /\ m \in Nat
  BY DEF BlocksOK
<1>2. IsFiniteSet(S) /\ w \in [S -> Nat]
  <2>1. IsFiniteSet(S)
    BY <1>1, FS_Interval
  <2>2. \A k \in S : w[k] \in Nat
    BY BlockWords
  <2> QED BY <2>1, <2>2 DEF BlockSizes
<1>3. /\ WordsOf(m, n) = Total(w, m..n)
      /\ WordsOf(m, n + 1) = Total(w, m..(n + 1))
      /\ WordsOf(n + 1, n + 1) = Total(w, (n + 1)..(n + 1))
  BY <1>1, WordsTotal
<1>4. w[n + 1] = Words(blocks[n + 1]) /\ w[n + 1] \in Nat
  BY <1>1, BlockWords
<1> HIDE DEF w
<1>5. /\ m..n \in SUBSET S /\ m..(n + 1) \in SUBSET S
      /\ n + 1 \in m..(n + 1) /\ (m..(n + 1)) \ {n + 1} = m..n
      /\ (n + 1)..(n + 1) \in SUBSET S /\ n + 1 \in (n + 1)..(n + 1)
      /\ ((n + 1)..(n + 1)) \ {n + 1} = {}
  BY <1>1
<1>6. /\ Total(w, m..n) \in Nat
      /\ Total(w, m..(n + 1)) = w[n + 1] + Total(w, m..n)
      /\ Total(w, (n + 1)..(n + 1)) = w[n + 1] + Total(w, {})
  <2>1. /\ Total(w, m..n) \in Nat
        /\ \A c \in m..(n + 1) :
             Total(w, m..(n + 1)) = w[c] + Total(w, (m..(n + 1)) \ {c})
        /\ \A c \in (n + 1)..(n + 1) :
             Total(w, (n + 1)..(n + 1)) = w[c] + Total(w, ((n + 1)..(n + 1)) \ {c})
    <3>1. \A U \in SUBSET S :
            /\ Total(w, U) \in Nat
            /\ \A c \in U : Total(w, U) = w[c] + Total(w, U \ {c})
      <4> HIDE DEF S
      <4> QED BY <1>2, TotalWithout
    <3> DEFINE U == m..n
    <3> DEFINE V == m..(n + 1)
    <3> DEFINE W == (n + 1)..(n + 1)
    <3>2. U \in SUBSET S /\ V \in SUBSET S /\ W \in SUBSET S
      BY <1>5
    <3> HIDE DEF S, U, V, W
    <3>3. /\ Total(w, U) \in Nat
          /\ \A c \in V : Total(w, V) = w[c] + Total(w, V \ {c})
          /\ \A c \in W : Total(w, W) = w[c] + Total(w, W \ {c})
      BY <3>1, <3>2
    <3> QED BY <3>3 DEF U, V, W
  <2>2. /\ Total(w, m..(n + 1)) = w[n + 1] + Total(w, (m..(n + 1)) \ {n + 1})
        /\ Total(w, (n + 1)..(n + 1))
             = w[n + 1] + Total(w, ((n + 1)..(n + 1)) \ {n + 1})
    BY <1>5, <2>1
  <2> QED BY <1>5, <2>1, <2>2
<1>7. Total(w, {}) = 0
  BY <1>2, TotalStep
<1> QED BY <1>3, <1>4, <1>6, <1>7

-----------------------------------------------------------------------------
(* chunk_markdown                                                          *)

(* The chunks are pieces of the blocks before those of current, and these  *)
(* have fewer words than the target.                                       *)
MergeInv ==
  /\ Document(lines) /\ BlocksOK(lines, blocks)
  /\ \A k \in 1..Len(lines) : Covered(lines, blocks, k)
  /\ merged \in 0..Len(blocks) /\ current \in 0..merged
  /\ current # 0 => Total(BlockSizes(lines, blocks), current..merged) < Target
  /\ Pieces(Pos(lines), blocks, cut, 1,
            IF current = 0 THEN merged ELSE current - 1)
  /\ phase = "done" => merged = Len(blocks) /\ current = 0

LEMMA EndOfTextMerges ==
  ASSUME ParseInv, EndOfText, merged = 0, current = 0, cut = <<>>
  PROVE  MergeInv'
<1>1. i = Len(lines) + 1 /\ i \in i..(Len(lines) + 1)
  BY DEF ParseInv, EndOfText, Document
<1>2. /\ BlocksOK(lines, Flushed(i))
      /\ \A j \in 1..(i - 1) : Covered(lines, Flushed(i), j)
  BY <1>1, FlushParses
<1>3. /\ blocks' = Flushed(i) /\ lines' = lines /\ merged' = 0 /\ current' = 0
      /\ cut' = <<>> /\ phase' = "merge"
  BY DEF EndOfText
<1>4. Document(lines') /\ BlocksOK(lines', blocks')
  BY <1>2, <1>3 DEF ParseInv
<1>5. \A k \in 1..Len(lines') : Covered(lines', blocks', k)
  <2>1. Len(lines) \in Nat /\ i - 1 = Len(lines)
    BY <1>1 DEF ParseInv, Document
  <2> QED BY <1>2, <1>3, <2>1
<1>6. merged' \in 0..Len(blocks') /\ current' \in 0..merged'
  BY <1>3, <1>4 DEF BlocksOK
<1>7. Pieces(Pos(lines'), blocks', cut', 1,
             IF current' = 0 THEN merged' ELSE current' - 1)
  BY <1>3, NoPieces
<1> QED BY <1>3, <1>4, <1>5, <1>6, <1>7 DEF MergeInv

LEMMA CurrentBelow ==
  ASSUME MergeInv, current # 0
  PROVE  /\ CurrentWords = WordsOf(current, merged)
         /\ CurrentWords < Target
         /\ current \in 1..Len(blocks) /\ merged \in current..Len(blocks)
<1>1. /\ current \in 1..Len(blocks) /\ merged \in current..Len(blocks)
      /\ current \in 1..(Len(blocks) + 1) /\ merged \in 0..Len(blocks)
  BY DEF MergeInv, BlocksOK
<1>2. CurrentWords = WordsOf(current, merged)
  BY DEF CurrentWords
<1>3. WordsOf(current, merged)
        = Total(BlockSizes(lines, blocks), current..merged)
  BY <1>1, WordsTotal DEF MergeInv
<1> QED BY <1>1, <1>2, <1>3 DEF MergeInv

LEMMA WordsOfNat ==
  ASSUME Document(lines), BlocksOK(lines, blocks),
         NEW m \in 1..Len(blocks), NEW n \in m..Len(blocks)
  PROVE  WordsOf(m, n) \in Nat
<1>1. /\ m \in 1..((n - 1) + 1) /\ n - 1 \in 0..Len(blocks) /\ n - 1 < Len(blocks)
      /\ (n - 1) + 1 = n /\ n \in 1..Len(blocks)
  BY DEF BlocksOK
<1>2. WordsOf(m, n - 1) \in Nat /\ WordsOf(m, n) = WordsOf(m, n - 1) + Words(blocks[n])
  BY <1>1, WordsGrow
<1>3. Words(blocks[n]) \in Nat
  BY <1>1, BlockWords
<1> QED BY <1>2, <1>3

(* flush                                                                   *)
LEMMA BuiltPieces ==
  ASSUME SizesOK, MergeInv
  PROVE  Pieces(Pos(lines), blocks, Built, 1, merged)
<1>1. Document(lines) /\ BlocksOK(lines, blocks) /\ merged \in 0..Len(blocks)
  BY DEF MergeInv
<1>2. CASE current = 0
  BY <1>2 DEF Built, MergeInv
<1>3. CASE current # 0
  <2> DEFINE p == Pos(lines)
  <2> DEFINE words == CurrentWords
  <2> DEFINE c == Chunk(p[blocks[current].line], p[blocks[merged].end], words,
                        current, merged)
  <2>1. /\ current \in 1..Len(blocks) /\ merged \in current..Len(blocks)
        /\ words = WordsOf(current, merged) /\ words < Target
    BY <1>3, CurrentBelow
  <2>2. merged \in 1..Len(blocks) /\ current - 1 \in 0..Len(blocks)
        /\ merged \in (current - 1)..Len(blocks) /\ (current - 1) + 1 = current
    BY <1>1, <2>1 DEF BlocksOK
  <2>3. words \in Nat /\ words <= Most
    <3>1. words \in Nat
      BY <1>1, <2>1, WordsOfNat
    <3> HIDE DEF words
    <3> QED BY <2>1, <3>1 DEF SizesOK
  <2> HIDE DEF words
  <2>4. Pieces(p, blocks, <<c>>, current, merged)
    BY <1>1, <2>1, <2>3, OnePiece
  <2>5. /\ At(blocks[current].line) = p[blocks[current].line]
        /\ At(blocks[merged].end) = p[blocks[merged].end]
    BY <1>1, <2>1, <2>2, BlockWords
  <2>6. Built = Append(cut, c)
    BY <1>3, <2>5 DEF Built, words
  <2> HIDE DEF c, p
  <2>7. Pieces(p, blocks, cut, 1, current - 1)
    BY <1>3 DEF MergeInv, p
  <2>8. Pieces(p, blocks, cut \o <<c>>, 1, merged)
    BY <1>1, <2>2, <2>4, <2>7, PiecesJoin DEF p
  <2>9. Append(cut, c) = cut \o <<c>>
    <3>1. cut \in Seq(ChunkSet) /\ <<c>> \in Seq(ChunkSet)
      BY <2>4, <2>7 DEF Pieces
    <3>2. c \in ChunkSet
      BY <3>1
    <3> QED BY <3>1, <3>2
  <2> QED BY <2>6, <2>8, <2>9 DEF p
<1> QED BY <1>2, <1>3

LEMMA LargeMerges == ASSUME SizesOK, MergeInv, Large PROVE MergeInv'
<1> DEFINE n == merged + 1
<1>1. /\ Document(lines) /\ BlocksOK(lines, blocks) /\ phase = "merge"
      /\ n \in 1..Len(blocks) /\ merged \in 0..Len(blocks) /\ n \in Nat
      /\ n \in merged..Len(blocks) /\ n \in 0..Len(blocks)
  BY DEF MergeInv, Large, MoreBlocks, BlocksOK
<1>2. /\ cut' = Built \o SplitLargeBlock(n) /\ current' = 0 /\ merged' = n
      /\ lines' = lines /\ blocks' = blocks /\ phase' = phase
  BY DEF Large
<1>3. Pieces(Pos(lines), blocks, Built, 1, merged)
  BY BuiltPieces
<1>4. Pieces(Pos(lines), blocks, SplitLargeBlock(n), n, n)
  BY <1>1, SplitPieces
<1>5. Pieces(Pos(lines), blocks, Built \o SplitLargeBlock(n), 1, n)
  BY <1>1, <1>3, <1>4, PiecesJoin
<1> HIDE DEF n
<1>6. current' \in 0..merged'
  BY <1>1, <1>2
<1>7. Pieces(Pos(lines'), blocks', cut', 1,
             IF current' = 0 THEN merged' ELSE current' - 1)
  BY <1>2, <1>5
<1>8. \A k \in 1..Len(lines') : Covered(lines', blocks', k)
  BY <1>2 DEF MergeInv
<1> QED BY <1>1, <1>2, <1>6, <1>7, <1>8 DEF MergeInv

(* A block that is no larger than Most begins a chunk, or joins the blocks *)
(* of current.                                                             *)
LEMMA MergeMerges == ASSUME SizesOK, MergeInv, Merge PROVE MergeInv'
<1> DEFINE n == merged + 1
<1> DEFINE words == Words(blocks[n])
<1> DEFINE first == IF current = 0 \/ IsFull(words) THEN n ELSE current
<1> DEFINE all == WordsOf(first, n)
<1> DEFINE built == IF first = current THEN cut ELSE Built
<1> DEFINE p == Pos(lines)
<1> DEFINE c == Chunk(At(blocks[first].line), At(blocks[n].end), all, first, n)
<1>1. /\ Document(lines) /\ BlocksOK(lines, blocks) /\ phase = "merge"
      /\ n \in 1..Len(blocks) /\ merged \in 0..Len(blocks) /\ n \in Nat
      /\ merged < Len(blocks) /\ current \in 0..merged /\ merged \in Nat
  BY DEF MergeInv, Merge, MoreBlocks, BlocksOK
<1>2. words \in Nat /\ words <= Most
  BY <1>1, BlockWords DEF Merge
<1>3. /\ IF all >= Target
           THEN cut' = Append(built, c) /\ current' = 0
           ELSE cut' = built /\ current' = first
      /\ merged' = n /\ lines' = lines /\ blocks' = blocks /\ phase' = phase
  BY DEF Merge
<1> HIDE DEF words
<1>4. /\ Least \in Nat /\ Most \in Nat /\ Target \in Nat
  BY DEF SizesOK
<1>5. /\ first \in 1..n
      /\ all \in Nat
      /\ all <= Most \/ (first < n /\ all < Least + Most)
      /\ Pieces(p, blocks, built, 1, first - 1)
  <2>1. CASE current = 0 \/ IsFull(words)
    <3>1. first = n /\ first # current /\ n - 1 = merged
      BY <1>1, <2>1
    <3>2. all = words
      <4>1. n \in 1..(merged + 1)
        BY <1>1
      <4>2. WordsOf(n, n) = Words(blocks[n])
        BY <1>1, <4>1, WordsGrow
      <4> QED BY <3>1, <4>2 DEF words
    <3>3. built = Built
      BY <3>1
    <3>4. Pieces(p, blocks, built, 1, first - 1)
      <4> HIDE DEF first, n
      <4> QED BY <3>1, <3>3, BuiltPieces
    <3>5. first \in 1..n
      BY <1>1, <3>1
    <3> HIDE DEF all, built, first, p
    <3> QED BY <1>2, <3>2, <3>4, <3>5
  <2>2. CASE current # 0 /\ ~IsFull(words)
    <3>1. first = current /\ current \in 1..merged /\ current \in 1..(merged + 1)
      BY <1>1, <2>2
    <3>2. CurrentWords = WordsOf(current, merged)
      BY <2>2, CurrentBelow
    <3>3. /\ WordsOf(current, merged) \in Nat
          /\ WordsOf(current, n) = WordsOf(current, merged) + words
      BY <1>1, <3>1, WordsGrow DEF words
    <3>4. CurrentWords + words <= Most \/ CurrentWords < Least
      BY <1>2, <1>4, <2>2, <3>2, <3>3 DEF IsFull
    <3>5. Pieces(p, blocks, built, 1, first - 1)
      BY <2>2, <3>1 DEF MergeInv
    <3>6. all = WordsOf(current, merged) + words
      BY <3>1, <3>3
    <3>7. first \in 1..n /\ first < n
      BY <1>1, <3>1
    <3> HIDE DEF all, built, first, p, n
    <3> QED BY <1>2, <1>4, <3>2, <3>3, <3>4, <3>5, <3>6, <3>7
  <2> QED BY <2>1, <2>2
<1> HIDE DEF all, built, first
<1>6. /\ n \in first..Len(blocks) /\ first \in 1..Len(blocks)
      /\ first - 1 \in 0..Len(blocks) /\ (first - 1) + 1 = first
      /\ n \in (first - 1)..Len(blocks) /\ first # 0
  BY <1>1, <1>5
<1>7. Document(lines') /\ BlocksOK(lines', blocks')
  BY <1>1, <1>3
<1>8. \A k \in 1..Len(lines') : Covered(lines', blocks', k)
  BY <1>3 DEF MergeInv
<1>9. merged' \in 0..Len(blocks')
  BY <1>1, <1>3
<1>10. CASE all >= Target
  <2>1. cut' = Append(built, c) /\ current' = 0
    BY <1>3, <1>10
  <2> HIDE DEF n
  <2>2. c = Chunk(p[blocks[first].line], p[blocks[n].end], all, first, n)
    BY <1>1, <1>6, BlockWords
  <2>3. Pieces(p, blocks, <<c>>, first, n)
    <3>1. /\ all <= Most \/ (first < n /\ all < Least + Most)
                \/ blocks[first].type = "code"
          /\ all \in Nat
      BY <1>5
    <3>2. Pieces(p, blocks,
                 <<Chunk(p[blocks[first].line], p[blocks[n].end], all, first, n)>>,
                 first, n)
      BY <1>1, <1>6, <3>1, OnePiece
    <3> HIDE DEF c
    <3> QED BY <2>2, <3>2
  <2> HIDE DEF c
  <2>4. Pieces(p, blocks, built \o <<c>>, 1, n)
    BY <1>1, <1>5, <1>6, <2>3, PiecesJoin
  <2>5. Append(built, c) = built \o <<c>>
    <3>1. built \in Seq(ChunkSet) /\ <<c>> \in Seq(ChunkSet)
      BY <1>5, <2>3 DEF Pieces
    <3>2. c \in ChunkSet
      BY <3>1
    <3> QED BY <3>1, <3>2
  <2>6. Pieces(Pos(lines'), blocks', cut', 1,
               IF current' = 0 THEN merged' ELSE current' - 1)
    BY <1>3, <2>1, <2>4, <2>5
  <2>7. current' \in 0..merged'
    BY <1>1, <1>3, <2>1
  <2> QED BY <1>1, <1>3, <1>7, <1>8, <1>9, <2>1, <2>6, <2>7 DEF MergeInv
<1>11. CASE ~(all >= Target)
  <2>1. cut' = built /\ current' = first
    BY <1>3, <1>11
  <2>2. Pieces(Pos(lines'), blocks', cut', 1,
               IF current' = 0 THEN merged' ELSE current' - 1)
    BY <1>3, <1>5, <1>6, <2>1
  <2>3. current' \in 0..merged'
    BY <1>1, <1>3, <1>5, <2>1
  <2>4. Total(BlockSizes(lines', blocks'), current'..merged') < Target
    <3>1. all = Total(BlockSizes(lines, blocks), first..n)
      <4>1. first \in 1..(Len(blocks) + 1) /\ n \in 0..Len(blocks)
        BY <1>1, <1>6
      <4> QED BY <1>1, <4>1, WordsTotal DEF all
    <3>2. all < Target
      BY <1>4, <1>5, <1>11
    <3> QED BY <1>3, <2>1, <3>1, <3>2
  <2> QED BY <1>1, <1>3, <1>7, <1>8, <1>9, <2>2, <2>3, <2>4 DEF MergeInv
<1> QED BY <1>10, <1>11

LEMMA FinishMerges == ASSUME SizesOK, MergeInv, Finish PROVE MergeInv'
<1>1. /\ merged = Len(blocks) /\ cut' = Built /\ current' = 0
      /\ lines' = lines /\ blocks' = blocks /\ merged' = merged
  BY DEF Finish, Rest
<1>2. Pieces(Pos(lines), blocks, Built, 1, merged)
  BY BuiltPieces
<1>3. Pieces(Pos(lines'), blocks', cut', 1,
             IF current' = 0 THEN merged' ELSE current' - 1)
  BY <1>1, <1>2
<1>4. current' \in 0..merged'
  BY <1>1 DEF MergeInv, BlocksOK
<1> QED BY <1>1, <1>3, <1>4 DEF MergeInv

-----------------------------------------------------------------------------
ChunkInv ==
  \/ /\ phase = "parse" /\ ParseInv
     /\ merged = 0 /\ current = 0 /\ cut = <<>>
  \/ phase \in {"merge", "done"} /\ MergeInv

LEMMA ChunkInit == ASSUME SizesOK, ChunkingInit PROVE ChunkInv
<1>1. /\ lines \in Documents /\ i = 1 /\ code = FALSE /\ section = 0
      /\ open = None /\ blocks = <<>> /\ merged = 0 /\ current = 0
      /\ cut = <<>> /\ phase = "parse"
  BY DEF ChunkingInit, Unread
<1>2. Document(lines) /\ Len(lines) \in Nat
  <2>1. \A d \in Documents : Document(d)
    BY DEF SizesOK, Document, Line
  <2>2. Document(lines)
    BY <1>1, <2>1
  <2> QED BY <2>2 DEF Document
<1>3. BlocksOK(lines, blocks)
  BY <1>1 DEF BlocksOK
<1>4. i \in 1..(Len(lines) + 1) /\ \A k \in 1..(i - 1) : FALSE
  BY <1>1, <1>2
<1>5. \A n \in 1..Len(blocks) : FALSE
  BY <1>1
<1>6. ParseInv
  BY <1>1, <1>2, <1>3, <1>4, <1>5 DEF ParseInv, OpenOK
<1> QED BY <1>1, <1>6 DEF ChunkInv

LEMMA ChunkNext ==
  ASSUME SizesOK, ChunkInv, [ChunkingNext]_chunkingVars
  PROVE  ChunkInv'
<1>1. ASSUME phase = "parse",
             CloseFence \/ OpenFence \/ InCode \/ Heading \/ Blank \/ Table \/ Text
      PROVE  ChunkInv'
  <2>1. /\ ParseInv /\ merged = 0 /\ current = 0 /\ cut = <<>>
    BY <1>1 DEF ChunkInv
  <2>2. ParseInv'
    BY <1>1, <2>1, FenceParses, InCodeParses, HeadingParses, TextParses,
       TableParses
  <2>3. UNCHANGED <<merged, current, cut, phase>>
    BY <1>1 DEF CloseFence, OpenFence, InCode, Heading, Blank, Table, Text, Parsed
  <2> QED BY <1>1, <2>1, <2>2, <2>3 DEF ChunkInv
<1>2. ASSUME CloseFence \/ OpenFence \/ InCode \/ Heading \/ Blank \/ Table
             \/ Text
      PROVE  phase = "parse"
  BY <1>2 DEF CloseFence, OpenFence, InCode, Heading, Blank, Table, Text, Reads,
              HeadOfTable
<1>3. ASSUME EndOfText PROVE ChunkInv'
  <2>1. phase = "parse" /\ phase' = "merge"
    BY <1>3 DEF EndOfText
  <2>2. MergeInv'
    BY <1>3, <2>1, EndOfTextMerges DEF ChunkInv
  <2> QED BY <2>1, <2>2 DEF ChunkInv
<1>4. ASSUME Large \/ Merge \/ Finish PROVE ChunkInv'
  <2>1. phase = "merge" /\ phase' \in {"merge", "done"}
    BY <1>4 DEF Large, Merge, Finish, MoreBlocks
  <2>2. MergeInv
    BY <2>1 DEF ChunkInv
  <2>3. MergeInv'
    BY <1>4, <2>2, LargeMerges, MergeMerges, FinishMerges
  <2> QED BY <2>1, <2>3 DEF ChunkInv
<1>5. ASSUME UNCHANGED chunkingVars PROVE ChunkInv'
  <2>1. /\ lines' = lines /\ i' = i /\ code' = code /\ section' = section
        /\ open' = open /\ blocks' = blocks /\ merged' = merged
        /\ current' = current /\ cut' = cut /\ phase' = phase
    BY <1>5 DEF chunkingVars
  <2>2. ASSUME phase = "parse" PROVE ChunkInv'
    <3>1. ParseInv /\ merged = 0 /\ current = 0 /\ cut = <<>>
      BY <2>2 DEF ChunkInv
    <3>2. ParseInv'
      BY <2>1, <3>1 DEF ParseInv, OpenOK
    <3> QED BY <2>1, <2>2, <3>1, <3>2 DEF ChunkInv
  <2>3. ASSUME phase # "parse" PROVE ChunkInv'
    <3>1. phase \in {"merge", "done"} /\ MergeInv
      BY <2>3 DEF ChunkInv
    <3>2. MergeInv'
      BY <2>1, <3>1 DEF MergeInv
    <3> QED BY <2>1, <3>1, <3>2 DEF ChunkInv
  <2> QED BY <2>2, <2>3
<1> QED BY <1>1, <1>2, <1>3, <1>4, <1>5 DEF ChunkingNext

LEMMA ChunkInvHolds == ASSUME SizesOK PROVE ChunkingSpec => []ChunkInv
<1>1. ChunkingInit => ChunkInv
  BY ChunkInit
<1>2. ChunkInv /\ [ChunkingNext]_chunkingVars => ChunkInv'
  BY ChunkNext
<1> QED BY <1>1, <1>2, PTL DEF ChunkingSpec

-----------------------------------------------------------------------------
(* The pieces of all blocks, when the merge is done                        *)
LEMMA DonePieces ==
  ASSUME ChunkInv, phase = "done"
  PROVE  /\ Document(lines) /\ BlocksOK(lines, blocks)
         /\ \A k \in 1..Len(lines) : Covered(lines, blocks, k)
         /\ Pieces(Pos(lines), blocks, cut, 1, Len(blocks))
<1>1. MergeInv /\ merged = Len(blocks) /\ current = 0
  BY DEF ChunkInv, MergeInv
<1> QED BY <1>1 DEF MergeInv

(* However long a document and whatever its lines are, each line that is   *)
(* no heading reaches the chunks of chunk_markdown whole, the chunks come  *)
(* in the order of the text, and only neighbouring windows of a paragraph  *)
(* share words, no more of them than the overlap, when the overlap is at   *)
(* most half of the largest chunk.                                         *)
THEOREM LinesReachChunks ==
  ASSUME SizesOK, 2 * Overlap <= Most
  PROVE  ChunkingSpec => []NothingIsLost
<1>1. ChunkInv => NothingIsLost
  <2> SUFFICES ASSUME ChunkInv, phase = "done" PROVE NothingIsLost
    BY DEF NothingIsLost
  <2> DEFINE p == Pos(lines)
  <2>1. /\ Document(lines) /\ BlocksOK(lines, blocks)
        /\ \A k \in 1..Len(lines) : Covered(lines, blocks, k)
        /\ Pieces(p, blocks, cut, 1, Len(blocks))
    BY DonePieces
  <2> HIDE DEF p
  <2>2. ASSUME NEW k \in 1..Len(lines)
        PROVE  \/ \E b \in 1..Len(blocks) :
                    /\ k \in blocks[b].line..(blocks[b].end - 1)
                    /\ \A q \in At(k)..(At(k + 1) - 1) :
                         \E c \in ChunkNos :
                           q \in cut[c].from..(cut[c].to - 1)
               \/ lines[k].kind \in {"heading", "blank"}
    <3>1. CASE InBlock(blocks, k)
      <4>1. PICK b \in 1..Len(blocks) :
              k \in blocks[b].line..(blocks[b].end - 1)
        BY <3>1 DEF InBlock
      <4>2. /\ blocks[b].line \in 1..Len(lines) /\ Len(lines) \in Nat
            /\ blocks[b].end \in 1..(Len(lines) + 1)
        BY <2>1, BlockPositions DEF Document
      <4>3. /\ k \in 1..(Len(lines) + 1) /\ k + 1 \in 1..(Len(lines) + 1)
            /\ blocks[b].line \in 1..(Len(lines) + 1)
            /\ blocks[b].line <= k /\ k + 1 <= blocks[b].end
        BY <4>1, <4>2
      <4>4. At(k) = p[k] /\ At(k + 1) = p[k + 1]
        BY <2>1, <4>3, AtIsPos DEF p
      <4>5. p[blocks[b].line] <= p[k] /\ p[k + 1] <= p[blocks[b].end]
        BY <2>1, <4>2, <4>3, Positions DEF p
      <4>6. /\ p[blocks[b].line] \in Int /\ p[k] \in Int /\ p[k + 1] \in Int
            /\ p[blocks[b].end] \in Int
        <5>1. \A j \in 1..(Len(lines) + 1) : p[j] \in Nat
          BY <2>1, Positions DEF p
        <5>2. \A j \in Nat : j \in Int
          OBVIOUS
        <5> QED BY <4>2, <4>3, <5>1, <5>2
      <4>7. ASSUME NEW q \in At(k)..(At(k + 1) - 1)
            PROVE  \E c \in ChunkNos : q \in cut[c].from..(cut[c].to - 1)
        <5>1. q \in p[k]..(p[k + 1] - 1)
          BY <4>4
        <5>2. q \in p[blocks[b].line]..(p[blocks[b].end] - 1)
          <6> DEFINE w == p[blocks[b].line]
          <6> DEFINE x == p[k]
          <6> DEFINE y == p[k + 1]
          <6> DEFINE z == p[blocks[b].end]
          <6>1. /\ w \in Int /\ x \in Int /\ y \in Int /\ z \in Int
                /\ w <= x /\ y <= z /\ q \in x..(y - 1)
            BY <4>5, <4>6, <5>1
          <6> HIDE DEF w, x, y, z
          <6>2. q \in w..(z - 1)
            BY <6>1, Wider
          <6> QED BY <6>2 DEF w, z
        <5>3. Kept(p, blocks[b], cut)
          BY <2>1 DEF Pieces
        <5> QED BY <5>2, <5>3 DEF Kept, Reaches, ChunkNos
      <4> QED BY <4>1, <4>7
    <3>2. CASE lines[k].kind \in {"heading", "blank"}
      BY <3>2
    <3> QED BY <2>1, <3>1, <3>2 DEF Covered
  <2>3. ASSUME NEW c \in ChunkNos, NEW d \in ChunkNos, c < d
        PROVE  /\ cut[c].from < cut[d].from
               /\ \/ cut[c].to <= cut[d].from
                  \/ /\ cut[c].first = cut[d].last /\ d = c + 1
                     /\ blocks[cut[c].first].type = "paragraph"
                     /\ cut[c].to - cut[d].from <= Overlap
    <3>1. Apart(blocks, cut[c], cut[d], d = c + 1)
      BY <2>1, <2>3 DEF Pieces, ChunkNos
    <3> QED BY <3>1 DEF Apart
  <2> QED BY <2>2, <2>3 DEF NothingIsLost
<1> QED BY <1>1, ChunkInvHolds, PTL

(* A chunk of any document is larger than max_tokens only for one of the   *)
(* three reasons the code has: a block of code, lines that are not cut, or *)
(* blocks that were too few to close the chunk.                            *)
THEOREM ChunksAreBounded ==
  ASSUME SizesOK
  PROVE  ChunkingSpec => []SizesBounded
<1>1. ChunkInv => SizesBounded
  <2> SUFFICES ASSUME ChunkInv, NEW c \in ChunkNos
               PROVE  LET b == blocks[cut[c].first] IN
                      \/ cut[c].words <= Most
                      \/ b.type = "code"
                      \/ /\ cut[c].first < cut[c].last
                         /\ cut[c].words < Least + Most
                      \/ \E k \in b.line..(b.end - 1) :
                           /\ cut[c].from = At(k)
                           /\ cut[c].to <=
                                At(IF b.type = "table" /\ k = b.line
                                     THEN k + 2 ELSE k + 1)
    BY DEF SizesBounded
  <2> DEFINE p == Pos(lines)
  <2> DEFINE b == blocks[cut[c].first]
  <2>1. phase # "parse" /\ c \in 1..Len(cut)
    BY DEF ChunkInv, ChunkNos
  <2>2. MergeInv
    BY <2>1 DEF ChunkInv
  <2>3. PICK n \in 0..Len(blocks) : Pieces(p, blocks, cut, 1, n)
    <3>1. (IF current = 0 THEN merged ELSE current - 1) \in 0..Len(blocks)
      BY <2>2 DEF MergeInv, BlocksOK
    <3> QED BY <2>2, <3>1 DEF MergeInv
  <2> HIDE DEF p
  <2>4. SizeOK(p, blocks, cut[c]) /\ PieceOK(p, blocks, cut[c], 1, n)
    BY <2>1, <2>3 DEF Pieces
  <2>5. Document(lines) /\ BlocksOK(lines, blocks)
    BY <2>2 DEF MergeInv
  <2>6. cut[c].first \in 1..Len(blocks)
    BY <2>4, <2>5 DEF PieceOK, BlocksOK
  <2>7. BlockOK(lines, b) /\ Len(lines) \in Nat
    BY <2>5, <2>6 DEF BlocksOK, Document
  <2>8. ASSUME NEW k \in b.line..(b.end - 1)
        PROVE  LET to == IF b.type = "table" /\ k = b.line THEN k + 2 ELSE k + 1
               IN  At(k) = p[k] /\ At(to) = p[to]
    <3> DEFINE to == IF b.type = "table" /\ k = b.line THEN k + 2 ELSE k + 1
    <3>1. /\ b.line \in 1..Len(lines) /\ b.end \in 1..(Len(lines) + 1)
          /\ b.type = "table" => b.line + 2 <= b.end
      BY <2>7 DEF BlockOK, BlockSet
    <3> HIDE DEF b
    <3>2. k \in 1..(Len(lines) + 1) /\ to \in 1..(Len(lines) + 1)
      BY <2>7, <3>1
    <3> HIDE DEF to
    <3>3. At(k) = p[k] /\ At(to) = p[to]
      BY <2>5, <3>2, AtIsPos DEF p
    <3> QED BY <3>3 DEF to
  <2>9. ASSUME NEW k \in b.line..(b.end - 1), cut[c].from = p[k],
               cut[c].to <= p[IF b.type = "table" /\ k = b.line
                                   THEN k + 2 ELSE k + 1]
        PROVE  /\ cut[c].from = At(k)
               /\ cut[c].to <= At(IF b.type = "table" /\ k = b.line
                                       THEN k + 2 ELSE k + 1)
    <3> DEFINE to == IF b.type = "table" /\ k = b.line THEN k + 2 ELSE k + 1
    <3>1. At(k) = p[k] /\ At(to) = p[to]
      BY <2>8
    <3>2. cut[c].to <= p[to]
      BY <2>9
    <3> HIDE DEF to
    <3>3. cut[c].to <= At(to)
      BY SMTT(30), <3>1, <3>2
    <3> QED BY <2>9, <3>1, <3>3 DEF to
  <2>10. \/ cut[c].words <= Most
         \/ b.type = "code"
         \/ cut[c].first < cut[c].last /\ cut[c].words < Least + Most
         \/ \E k \in b.line..(b.end - 1) :
              /\ cut[c].from = p[k]
              /\ cut[c].to <= p[IF b.type = "table" /\ k = b.line
                                     THEN k + 2 ELSE k + 1]
    BY <2>4 DEF SizeOK
  <2> QED BY <2>9, <2>10
<1> QED BY <1>1, ChunkInvHolds, PTL

(* A block of code, and the head of a table with the line under it, is     *)
(* always within one chunk, however large the block is.                    *)
THEOREM CodeAndHeadsAreWhole ==
  ASSUME SizesOK
  PROVE  ChunkingSpec => []NothingIsTorn
<1>1. ChunkInv => NothingIsTorn
  <2> SUFFICES ASSUME ChunkInv, phase = "done", NEW b \in 1..Len(blocks)
               PROVE  /\ blocks[b].type = "code" =>
                           \E c \in ChunkNos :
                             /\ cut[c].from <= At(blocks[b].line)
                             /\ At(blocks[b].end) <= cut[c].to
                      /\ blocks[b].type = "table" =>
                           \E c \in ChunkNos :
                             /\ cut[c].from <= At(blocks[b].line)
                             /\ At(blocks[b].line + 2) <= cut[c].to
    BY DEF NothingIsTorn
  <2> DEFINE p == Pos(lines)
  <2>1. /\ Document(lines) /\ BlocksOK(lines, blocks)
        /\ Pieces(p, blocks, cut, 1, Len(blocks))
    BY DonePieces
  <2> HIDE DEF p
  <2>2. Kept(p, blocks[b], cut)
    BY <2>1 DEF Pieces
  <2>3. At(blocks[b].line) = p[blocks[b].line] /\ At(blocks[b].end) = p[blocks[b].end]
    BY <2>1, BlockWords DEF p
  <2>4. blocks[b].type = "table" =>
          At(blocks[b].line + 2) = p[blocks[b].line + 2]
    <3>1. BlockOK(lines, blocks[b]) /\ Len(lines) \in Nat
      BY <2>1 DEF BlocksOK, Document
    <3>2. blocks[b].type = "table" => blocks[b].line + 2 \in 1..(Len(lines) + 1)
      BY <3>1 DEF BlockOK, BlockSet
    <3> QED BY <2>1, <3>2, AtIsPos DEF p
  <2> QED BY <2>2, <2>3, <2>4 DEF Kept, HasWhole, ChunkNos
<1> QED BY <1>1, ChunkInvHolds, PTL
===============================================================================
