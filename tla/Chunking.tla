------------------------------- MODULE Chunking -------------------------------
(***************************************************************************)
(* From the lines of a document to its chunks: _parse_markdown_blocks,     *)
(* _split_large_block and chunk_markdown of services/ingestion.py.         *)
(*                                                                         *)
(* A line is [kind, words].  A "row" has cells between pipes, a "rule" is  *)
(* the line under the head of a table.  A position is the number of words  *)
(* before it, as the offsets of the code are the characters before it, and *)
(* a section is the line of its heading.                                   *)
(***************************************************************************)
EXTENDS Integers, Sequences, FiniteSetsExt

CONSTANTS
  Documents,   \* sequences of lines
  Target,      \* target_tokens
  Most,        \* max_tokens
  Least,       \* min_tokens
  Overlap      \* overlap_tokens

Kinds == {"fence", "heading", "blank", "paragraph", "list", "quote", "row",
          "rule"}

(* A line is blank when it has no words.                                   *)
SizesOK ==
  /\ \A d \in Documents :
       /\ d \in Seq([kind : Kinds, words : Nat])
       /\ \A k \in 1..Len(d) : d[k].kind = "blank" <=> d[k].words = 0
  /\ Most \in Nat \ {0} /\ Target \in 1..Most /\ Least \in 1..Target
  /\ Overlap \in Nat

VARIABLES
  lines,
  i,        \* the line that is next
  code,     \* in_code_block
  section,  \* headings_path
  open,     \* the block that is open: type, line and section
  blocks,
  merged,   \* how many blocks are in cut, or in current
  current,  \* the first of current_blocks, 0 for none
  cut,      \* built: the chunks so far
  phase     \* parse, merge or done

chunkingVars ==
  <<lines, i, code, section, open, blocks, merged, current, cut, phase>>

None == [type |-> "none", line |-> 0, section |-> 0]

(* Nothing of the document is read.                                        *)
Unread ==
  /\ i = 1 /\ code = FALSE /\ section = 0 /\ open = None /\ blocks = <<>>
  /\ merged = 0 /\ current = 0 /\ cut = <<>> /\ phase = "parse"

ChunkingInit == lines \in Documents /\ Unread

(* The position of line k                                                  *)
At(k) == MapThenSumSet(LAMBDA j : lines[j].words, 1..(k - 1))

-----------------------------------------------------------------------------
(* _parse_markdown_blocks                                                  *)

Block(b, to) ==
  [type |-> b.type, line |-> b.line, end |-> to, section |-> b.section]

(* flush, before line k                                                    *)
Flushed(k) == IF open = None THEN blocks ELSE Append(blocks, Block(open, k))

Opened(type) == [type |-> type, line |-> i, section |-> section]

Reads(kinds) ==
  phase = "parse" /\ i <= Len(lines) /\ lines[i].kind \in kinds

Parsed == UNCHANGED <<lines, merged, current, cut, phase>>

CloseFence ==
  /\ Reads({"fence"}) /\ code
  /\ blocks' = Flushed(i + 1) /\ open' = None /\ code' = FALSE
  /\ i' = i + 1 /\ UNCHANGED section /\ Parsed

OpenFence ==
  /\ Reads({"fence"}) /\ ~code
  /\ blocks' = Flushed(i) /\ open' = Opened("code") /\ code' = TRUE
  /\ i' = i + 1 /\ UNCHANGED section /\ Parsed

InCode ==
  /\ Reads(Kinds \ {"fence"}) /\ code
  /\ i' = i + 1 /\ UNCHANGED <<blocks, open, code, section>> /\ Parsed

Heading ==
  /\ Reads({"heading"}) /\ ~code
  /\ blocks' = Flushed(i) /\ open' = None /\ section' = i
  /\ i' = i + 1 /\ UNCHANGED code /\ Parsed

Blank ==
  /\ Reads({"blank"}) /\ ~code
  /\ blocks' = Flushed(i) /\ open' = None
  /\ i' = i + 1 /\ UNCHANGED <<code, section>> /\ Parsed

HeadOfTable ==
  /\ Reads({"row"}) /\ ~code
  /\ i < Len(lines) /\ lines[i + 1].kind = "rule"

(* The first line from k on that is not pipe-heavy                         *)
EndOfTable(k) ==
  CHOOSE j \in k..(Len(lines) + 1) :
    /\ j <= Len(lines) => lines[j].kind \notin {"row", "rule"}
    /\ \A h \in k..(j - 1) : lines[h].kind \in {"row", "rule"}

Table ==
  /\ HeadOfTable
  /\ LET j == EndOfTable(i + 2)
     IN i' = j /\ blocks' = Append(Flushed(i), Block(Opened("table"), j))
  /\ open' = None /\ UNCHANGED <<code, section>> /\ Parsed

(* _line_type                                                              *)
LineType == IF lines[i].kind \in {"list", "quote"} THEN lines[i].kind
            ELSE "paragraph"

Text ==
  /\ Reads({"paragraph", "list", "quote", "row", "rule"}) /\ ~code
  /\ ~HeadOfTable
  /\ IF open.type = LineType THEN UNCHANGED <<blocks, open>>
     ELSE blocks' = Flushed(i) /\ open' = Opened(LineType)
  /\ i' = i + 1 /\ UNCHANGED <<code, section>> /\ Parsed

EndOfText ==
  /\ phase = "parse" /\ i > Len(lines)
  /\ blocks' = Flushed(i) /\ open' = None /\ phase' = "merge"
  /\ UNCHANGED <<lines, i, code, section, merged, current, cut>>

-----------------------------------------------------------------------------
(* _split_large_block                                                      *)

Words(b) == At(b.end) - At(b.line)

Chunk(from, to, words, first, last) ==
  [from |-> from, to |-> to, words |-> words, first |-> first, last |-> last]

Smaller(m, n) == IF m < n THEN m ELSE n

(* A paragraph: windows of Most words, each Overlap before the end of the  *)
(* one before                                                              *)
Windows(n) ==
  LET b == blocks[n]
      size == Words(b)
      step == Most - Smaller(Overlap, Most - 1)
      count == CHOOSE c \in 1..size :
                 /\ (c - 1) * step + Most >= size
                 /\ c > 1 => (c - 2) * step + Most < size
      from(c) == At(b.line) + (c - 1) * step
      to(c) == Smaller(from(c) + Most, At(b.end))
  IN [c \in 1..count |-> Chunk(from(c), to(c), to(c) - from(c), n, n)]

(* Faulty variant: the head of a table is a line as any other.             *)
FaultyProtected(b, k) == FALSE

(* The line under the head of a table stays with the head.                 *)
Protected(b, k) == b.type = "table" /\ k = b.line + 1

(* A table, a list or a quote: as many lines as fit                        *)
Lines(n) ==
  LET b == blocks[n]
      (* where the chunks of the lines up to k start                       *)
      starts[k \in b.line..b.end] ==
        IF k = b.line THEN <<b.line>>
        ELSE LET before == starts[k - 1]
                 start == before[Len(before)]
             IN IF /\ k < b.end /\ At(k + 1) - At(start) > Most
                   /\ ~Protected(b, k)
                  THEN Append(before, k) ELSE before
      s == starts[b.end]
      end(c) == IF c = Len(s) THEN b.end ELSE s[c + 1]
  IN [c \in 1..Len(s) |->
        Chunk(At(s[c]), At(end(c)), At(end(c)) - At(s[c]), n, n)]

SplitLargeBlock(n) ==
  LET b == blocks[n] IN
  CASE b.type = "code"      -> <<Chunk(At(b.line), At(b.end), Words(b), n, n)>>
    [] b.type = "paragraph" -> Windows(n)
    [] OTHER                -> Lines(n)

-----------------------------------------------------------------------------
(* chunk_markdown                                                          *)

(* The words of the blocks m to n                                          *)
WordsOf(m, n) == MapThenSumSet(LAMBDA k : Words(blocks[k]), m..n)

CurrentWords == IF current = 0 THEN 0 ELSE WordsOf(current, merged)

(* flush: the text of a chunk goes from the start of its first block to    *)
(* the end of its last.                                                    *)
Built ==
  IF current = 0 THEN cut
  ELSE Append(cut, Chunk(At(blocks[current].line), At(blocks[merged].end),
                         CurrentWords, current, merged))

(* Faulty variant: what is left is flushed as if it were not the last.     *)
FaultyRest == IF CurrentWords < Least THEN cut ELSE Built

Rest == Built

MoreBlocks == phase = "merge" /\ merged < Len(blocks)

Large ==
  /\ MoreBlocks /\ Words(blocks[merged + 1]) > Most
  /\ cut' = Built \o SplitLargeBlock(merged + 1)
  /\ current' = 0 /\ merged' = merged + 1
  /\ UNCHANGED <<lines, i, code, section, open, blocks, phase>>

(* Faulty variant: a chunk takes blocks until it has reached the target.   *)
FaultyIsFull(words) == CurrentWords + words > Most /\ CurrentWords >= Target

(* Is there no room for words more?                                        *)
IsFull(words) == CurrentWords + words > Most /\ CurrentWords >= Least

Merge ==
  /\ MoreBlocks /\ Words(blocks[merged + 1]) <= Most
  /\ LET words == Words(blocks[merged + 1])
         first == IF current = 0 \/ IsFull(words) THEN merged + 1 ELSE current
         all   == WordsOf(first, merged + 1)
         built == IF first = current THEN cut ELSE Built
     IN IF all >= Target
          THEN /\ cut' = Append(built, Chunk(At(blocks[first].line),
                                  At(blocks[merged + 1].end), all, first,
                                  merged + 1))
               /\ current' = 0
          ELSE cut' = built /\ current' = first
  /\ merged' = merged + 1
  /\ UNCHANGED <<lines, i, code, section, open, blocks, phase>>

Finish ==
  /\ phase = "merge" /\ merged = Len(blocks)
  /\ cut' = Rest /\ current' = 0 /\ phase' = "done"
  /\ UNCHANGED <<lines, i, code, section, open, blocks, merged>>

ChunkingNext ==
  \/ CloseFence \/ OpenFence \/ InCode \/ Heading \/ Blank \/ Table \/ Text
  \/ EndOfText \/ Large \/ Merge \/ Finish

ChunkingSpec == ChunkingInit /\ [][ChunkingNext]_chunkingVars
-----------------------------------------------------------------------------
ChunkNos == 1..Len(cut)

(* No line of a document that is no heading is lost: its words are in the  *)
(* chunks, in their order, and in two chunks only at the overlap of two    *)
(* windows of one paragraph.                                               *)
NothingIsLost ==
  phase = "done" =>
    /\ \A k \in 1..Len(lines) :
         \/ \E b \in 1..Len(blocks) :
              /\ k \in blocks[b].line..(blocks[b].end - 1)
              /\ \A p \in At(k)..(At(k + 1) - 1) :
                   \E c \in ChunkNos : p \in cut[c].from..(cut[c].to - 1)
         \/ lines[k].kind \in {"heading", "blank"}
    /\ \A c, d \in ChunkNos : c < d =>
         /\ cut[c].from < cut[d].from
         /\ \/ cut[c].to <= cut[d].from
            \/ /\ cut[c].first = cut[d].last /\ d = c + 1
               /\ blocks[cut[c].first].type = "paragraph"
               /\ cut[c].to - cut[d].from <= Overlap

(* A chunk is larger than Most only if it is code, or cannot be cut after  *)
(* one of its lines, or was smaller than Least and took one more block.    *)
SizesBounded ==
  \A c \in ChunkNos :
    LET b == blocks[cut[c].first] IN
    \/ cut[c].words <= Most
    \/ b.type = "code"
    \/ cut[c].first < cut[c].last /\ cut[c].words < Least + Most
    \/ \E k \in b.line..(b.end - 1) :
         /\ cut[c].from = At(k)
         /\ cut[c].to <= At(IF b.type = "table" /\ k = b.line THEN k + 2
                              ELSE k + 1)

(* No chunk starts or ends in a block of code, or between the head of a    *)
(* table and the line under it.                                            *)
NothingIsTorn ==
  phase = "done" =>
    \A b \in 1..Len(blocks) :
      /\ blocks[b].type = "code" =>
           \E c \in ChunkNos : /\ cut[c].from <= At(blocks[b].line)
                               /\ At(blocks[b].end) <= cut[c].to
      /\ blocks[b].type = "table" =>
           \E c \in ChunkNos : /\ cut[c].from <= At(blocks[b].line)
                               /\ At(blocks[b].line + 2) <= cut[c].to

(* docs/contracts/chunking_spec_v1.md, section 8: a chunk is closed when   *)
(* the next block is a heading.                                            *)
SectionsApart ==
  \A c \in ChunkNos :
    blocks[cut[c].first].section = blocks[cut[c].last].section
=============================================================================
