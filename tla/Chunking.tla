------------------------------ MODULE Chunking ------------------------------
(***************************************************************************)
(* chunk_markdown (app/pipeline/chunking.py), one line of the text per     *)
(* step: lines are gathered until the next one would make the chunk larger *)
(* than MaxChars, and each chunk is labelled with a section and with the   *)
(* numbers of its first and last line.                                     *)
(*                                                                         *)
(* A line of the document is its indentation, its length from there on     *)
(* without the blanks at its end, and the title it sets if its text begins *)
(* with "#"; a line of the normalised text is its length and its title.    *)
(***************************************************************************)
EXTENDS Integers, Sequences, Functions

CONSTANTS MaxChars,  \* max_chars
          Titles,    \* section titles
          NoTitle,   \* not a heading, or a heading of nothing but "#"
          Texts      \* the texts of documents

RawLine == [indent: Nat, len: Nat, title: Titles \cup {NoTitle}]
Line == [len: Nat, title: Titles \cup {NoTitle}]

ASSUME MaxCharsAssumption == MaxChars \in Nat
ASSUME NoTitleAssumption == NoTitle \notin Titles
ASSUME TextsAssumption == Texts \subseteq Seq(RawLine)

VARIABLES
  markdown, \* the document
  lines,    \* normalized
  next,     \* number of the line to be read
  start,    \* current_line_start
  count,    \* len(current_lines)
  size,     \* current_size
  section,  \* the section of the line read last
  chunks    \* the chunks built

vars == <<markdown, lines, next, start, count, size, section, chunks>>

\* TextChunk, with its text as a range of lines.
Chunk ==
  [section: Titles \cup {NoTitle}, first: DOMAIN lines, last: DOMAIN lines, size: Nat]

-----------------------------------------------------------------------------
Bounds_Unstripped(text) ==  \* mutant: no strip() after the join
  {<<1, Len(text)>> : i \in DOMAIN text}

\* The first and the last line that is not blank, if there is one.
Bounds(text) ==
  {bound \in (DOMAIN text) \X (DOMAIN text) :
     /\ text[bound[1]].len > 0 /\ \A k \in 1..(bound[1] - 1) : text[k].len = 0
     /\ text[bound[2]].len > 0 /\ \A k \in (bound[2] + 1)..Len(text) : text[k].len = 0}

Normalized_HalfOpen(text, first, last) ==  \* mutant: the slice first:last
  [n \in 1..(last - first) |->
     LET l      == text[first + n - 1]
         indent == IF n = 1 \/ l.len = 0 THEN 0 ELSE l.indent
     IN [len |-> indent + l.len, title |-> IF indent = 0 THEN l.title ELSE NoTitle]]

\* The strip() that drops the blank lines at the ends takes the indentation off
\* the first line kept; rstrip() leaves nothing of a blank line.  A heading is
\* one only if it is not indented.
Normalized(text, first, last) ==
  [n \in 1..(last - first + 1) |->
     LET l      == text[first + n - 1]
         indent == IF n = 1 \/ l.len = 0 THEN 0 ELSE l.indent
     IN [len |-> indent + l.len, title |-> IF indent = 0 THEN l.title ELSE NoTitle]]

Init ==
  /\ markdown \in Texts
  /\ \/ (\A n \in DOMAIN markdown : markdown[n].len = 0) /\ lines = <<>>
     \/ \E bound \in Bounds(markdown) : lines = Normalized(markdown, bound[1], bound[2])
  /\ next = 1
  /\ start = 0
  /\ count = 0
  /\ size = 0
  /\ section = NoTitle
  /\ chunks = <<>>

\* The section from line l on.
Entered(l) == IF l.title = NoTitle THEN section ELSE l.title

LineSize_NoBreak(l) ==  \* mutant: the line break is not counted
  l.len

LineSize(l) == l.len + 1

BuildChunk_LineEnd(sec) ==  \* mutant: line_end = line_start + len(lines)
  [section |-> sec, first |-> start, last |-> start + count, size |-> size]

BuildChunk_NoSection(sec) ==  \* mutant: the section the text began with
  [section |-> NoTitle, first |-> start, last |-> start + count - 1, size |-> size]

BuildChunk(sec) ==
  [section |-> sec, first |-> start, last |-> start + count - 1, size |-> size]

Overflows_BySelf(l) ==  \* mutant: the size so far alone is compared
  count > 0 /\ size > MaxChars

Overflows_Early(l) ==  \* mutant: >= for >
  count > 0 /\ size + LineSize(l) >= MaxChars

Overflows(l) == count > 0 /\ size + LineSize(l) > MaxChars

\* A line: it may set the section, it may close the chunk before it, and it
\* joins the chunk at hand.  The section is set before the chunk is closed.
ReadLine ==
  /\ next <= Len(lines)
  /\ LET l == lines[next] IN
       /\ section' = Entered(l)
       /\ IF Overflows(l)
          THEN /\ chunks' = Append(chunks, BuildChunk(Entered(l)))
               /\ start' = next
               /\ count' = 1
               /\ size' = LineSize(l)
          ELSE /\ start' = IF count = 0 THEN next ELSE start
               /\ count' = count + 1
               /\ size' = size + LineSize(l)
               /\ UNCHANGED chunks
  /\ next' = next + 1
  /\ UNCHANGED <<markdown, lines>>

\* The end of the text: what is left makes the last chunk.
Finish ==
  /\ next = Len(lines) + 1
  /\ count > 0
  /\ chunks' = Append(chunks, BuildChunk(section))
  /\ count' = 0
  /\ UNCHANGED <<markdown, lines, next, start, size, section>>

Next == ReadLine \/ Finish

Spec == Init /\ [][Next]_vars

-----------------------------------------------------------------------------
(* Properties *)

\* Every variable stays in its type: the line numbers of a chunk are lines of
\* the text.
TypeOK ==
  /\ markdown \in Seq(RawLine)
  /\ lines \in Seq(Line)
  /\ next \in 1..(Len(lines) + 1)
  /\ start \in 0..Len(lines)
  /\ count \in 0..Len(lines)
  /\ size \in Nat
  /\ section \in Titles \cup {NoTitle}
  /\ chunks \in Seq(Chunk)

\* The last line that is in a chunk.
Chunked == IF chunks = <<>> THEN 0 ELSE chunks[Len(chunks)].last

\* The chunks and the lines at hand split what has been read into runs of
\* lines, each beginning where the one before it ends: no line is lost or
\* doubled, and the line numbers the model is told are right.
Partition ==
  /\ \A i \in DOMAIN chunks :
       /\ chunks[i].first = IF i = 1 THEN 1 ELSE chunks[i - 1].last + 1
       /\ chunks[i].first <= chunks[i].last
  /\ count > 0 => start = Chunked + 1
  /\ next = Chunked + count + 1

\* A chunk is over the limit only if it is a single line.
SizeBound ==
  \A i \in DOMAIN chunks : chunks[i].size <= MaxChars \/ chunks[i].first = chunks[i].last

\* The lengths of the lines from first to last, each with its line break.
SizeOf(first, last) ==
  SumFunctionOnSet([n \in DOMAIN lines |-> lines[n].len + 1], first..last)

\* The size a chunk was closed with is that of its lines (current_size, which is
\* added to and reset apart from current_lines).
SizeIsOfLines ==
  \A i \in DOMAIN chunks : chunks[i].size = SizeOf(chunks[i].first, chunks[i].last)

\* No chunk is closed early: the next chunk's first line would not have fitted.
Maximal ==
  \A i \in 1..(Len(chunks) - 1) :
    chunks[i].size + LineSize(lines[chunks[i + 1].first]) > MaxChars

\* Every line of the document that is not blank ends up in a chunk, at its
\* number less the blank lines the document begins with: neither strip() nor
\* the loop loses a line at either end.
AllTextChunked ==
  next = Len(lines) + 1 /\ count = 0 =>
    \A n \in DOMAIN markdown : markdown[n].len > 0 =>
      \E bound \in Bounds(markdown), i \in DOMAIN chunks :
        n - bound[1] + 1 \in (chunks[i].first)..(chunks[i].last)

\* A chunk may be of blank lines only and then has an empty text, but never the
\* first nor the last one: the service's "if not chunks" is enough to know that
\* there is text to ask about.
EndsHaveText ==
  \A i \in DOMAIN chunks :
    (\A n \in (chunks[i].first)..(chunks[i].last) : lines[n].len = 0) =>
      i > 1 /\ chunks[i].last < Len(lines)

\* The section in force at line n.
SectionAt(n) ==
  LET headings == {h \in 1..n : lines[h].title # NoTitle}
  IN IF headings = {} THEN NoTitle
     ELSE lines[CHOOSE h \in headings : \A k \in headings : k <= h].title

\* A chunk's section is the one in force at one of its lines or at the line
\* right after it, never one from farther away.
SectionIsNear ==
  \A i \in DOMAIN chunks :
    \E n \in (chunks[i].first)..(chunks[i].last + 1) :
      n <= Len(lines) /\ chunks[i].section = SectionAt(n)

\* What the normalised text is of the document.
TextKept ==
  \/ (\A n \in DOMAIN markdown : markdown[n].len = 0) /\ lines = <<>>
  \/ /\ lines[1].len > 0 /\ lines[Len(lines)].len > 0
     /\ \E bound \in Bounds(markdown) : Len(lines) = bound[2] - bound[1] + 1

Covered ==
  \A n \in 1..Chunked : \E i \in DOMAIN chunks : n \in (chunks[i].first)..(chunks[i].last)

\* The strengthening from which the properties of lines follow: the lines at hand
\* will make such a chunk too, and each line before them is in a chunk.
LinesInv ==
  /\ TypeOK
  /\ TextKept
  /\ Covered
  /\ Partition
  /\ SizeBound
  /\ Maximal
  /\ count = 0 => chunks = <<>> \/ next = Len(lines) + 1
  /\ count > 1 => size <= MaxChars
  /\ count > 0 /\ chunks # <<>> =>
       chunks[Len(chunks)].size + LineSize(lines[start]) > MaxChars

\* The section in hand is the one in force at the line read last.
LabelsInv ==
  /\ section = SectionAt(next - 1)
  /\ SectionIsNear

\* The size in hand is that of the lines at hand.
SizesInv ==
  /\ count = 0 /\ next <= Len(lines) => size = 0
  /\ count > 0 => size = SizeOf(start, next - 1)
  /\ SizeIsOfLines

IInv == LinesInv /\ LabelsInv /\ SizesInv

-----------------------------------------------------------------------------
(* What the tests and the documentation say and the code does not do *)

\* A chunk's section is one its lines are in ("Source section when available",
\* Evidence.section): a chunk that a heading closes is labelled with that
\* heading, which none of its lines is under.
SectionIsOwn ==
  \A i \in DOMAIN chunks :
    \E n \in (chunks[i].first)..(chunks[i].last) : chunks[i].section = SectionAt(n)

=============================================================================
