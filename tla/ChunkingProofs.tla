--------------------------- MODULE ChunkingProofs ---------------------------
(* Proofs about Chunking, for every set of texts and every chunk size. *)
EXTENDS Chunking, FoldLemmas

\* What a text's lines are.
LEMMA LineType ==
  ASSUME TypeOK, NEW n \in DOMAIN lines
  PROVE  lines[n] \in Line /\ LineSize(lines[n]) \in Nat /\ Entered(lines[n]) \in Titles \cup {NoTitle}
<1>1. lines \in Seq(Line) /\ section \in Titles \cup {NoTitle}
  BY DEF TypeOK
<1>2. lines[n] \in Line
  BY <1>1
<1> QED
  BY <1>1, <1>2 DEF Line, LineSize, Entered

\* The last line in a chunk is a line of the text, and 0 stands for none.
LEMMA ChunkedType ==
  ASSUME TypeOK
  PROVE  Chunked \in 0..Len(lines) /\ Len(chunks) \in Nat /\ Len(lines) \in Nat
<1>1. Len(chunks) \in Nat /\ Len(lines) \in Nat /\ DOMAIN lines = 1..Len(lines)
  BY DEF TypeOK
<1>2. CASE chunks = <<>>
  BY <1>1, <1>2 DEF Chunked
<1>3. CASE chunks # <<>>
  <2>1. chunks[Len(chunks)] \in Chunk
    BY <1>3 DEF TypeOK
  <2> QED
    BY <1>1, <1>3, <2>1 DEF Chunked, Chunk
<1> QED
  BY <1>1, <1>2, <1>3

\* The bounds of a document are two of its lines, in their order.
LEMMA BoundsOrdered ==
  ASSUME NEW text \in Seq(RawLine), NEW bound \in Bounds(text)
  PROVE  /\ bound[1] \in 1..Len(text) /\ bound[2] \in 1..Len(text) /\ bound[1] <= bound[2]
         /\ text[bound[1]].len > 0 /\ text[bound[2]].len > 0
<1> DEFINE first == bound[1]
           last  == bound[2]
<1>1. Len(text) \in Nat /\ DOMAIN text = 1..Len(text)
  OBVIOUS
<1>2. /\ first \in 1..Len(text) /\ last \in 1..Len(text)
      /\ text[first].len > 0 /\ text[last].len > 0
      /\ \A k \in 1..(first - 1) : text[k].len = 0
  BY <1>1 DEF Bounds
<1> HIDE DEF first, last
<1>3. CASE last < first
  <2>1. last \in 1..(first - 1)
    BY <1>1, <1>2, <1>3
  <2> QED
    BY <1>2, <2>1
<1> QED
  BY <1>1, <1>2, <1>3 DEF first, last

\* What the normalisation leaves of a document are lines of text.
LEMMA NormalizedType ==
  ASSUME NEW text \in Seq(RawLine), NEW bound \in Bounds(text)
  PROVE  Normalized(text, bound[1], bound[2]) \in Seq(Line)
<1> DEFINE first == bound[1]
           last  == bound[2]
           Kept(n) ==
             LET l      == text[first + n - 1]
                 indent == IF n = 1 \/ l.len = 0 THEN 0 ELSE l.indent
             IN [len |-> indent + l.len, title |-> IF indent = 0 THEN l.title ELSE NoTitle]
<1>1. Len(text) \in Nat /\ DOMAIN text = 1..Len(text)
  OBVIOUS
<1>2. first \in 1..Len(text) /\ last \in 1..Len(text) /\ first <= last
  BY BoundsOrdered
<1> HIDE DEF first, last
<1>3. last - first + 1 \in Nat
  BY <1>1, <1>2
<1>4. ASSUME NEW n \in 1..(last - first + 1)
      PROVE  Kept(n) \in Line
  <2>1. first + n - 1 \in 1..Len(text)
    BY <1>1, <1>2
  <2>2. text[first + n - 1] \in RawLine
    BY <1>1, <2>1
  <2> QED
    BY <2>2 DEF RawLine, Line
<1>5. Normalized(text, first, last) = [n \in 1..(last - first + 1) |-> Kept(n)]
  BY DEF Normalized
<1> HIDE DEF Kept
<1> QED
  BY <1>3, <1>4, <1>5 DEF first, last

\* It is of the lines from the first to the last one that is not blank.
LEMMA NormalizedEnds ==
  ASSUME NEW text \in Seq(RawLine), NEW bound \in Bounds(text),
         NEW kept, kept = Normalized(text, bound[1], bound[2])
  PROVE  /\ Len(kept) = bound[2] - bound[1] + 1
         /\ kept[1].len > 0
         /\ kept[Len(kept)].len > 0
<1> DEFINE first == bound[1]
           last  == bound[2]
<1>1. Len(text) \in Nat /\ DOMAIN text = 1..Len(text)
  OBVIOUS
<1>2. /\ first \in 1..Len(text) /\ last \in 1..Len(text) /\ first <= last
      /\ text[first].len > 0 /\ text[last].len > 0
  BY BoundsOrdered
<1>3. /\ text[first].indent \in Nat /\ text[first].len \in Nat
      /\ text[last].indent \in Nat /\ text[last].len \in Nat
  <2>1. text[first] \in RawLine /\ text[last] \in RawLine
    BY <1>1, <1>2
  <2> QED
    BY <2>1 DEF RawLine
<1>4. Len(kept) = last - first + 1
  <2>1. kept \in Seq(Line) /\ DOMAIN kept = 1..(last - first + 1)
    BY NormalizedType DEF Normalized
  <2> HIDE DEF first, last
  <2>2. last - first + 1 \in Nat
    BY <1>1, <1>2
  <2> QED
    BY <2>1, <2>2
<1> HIDE DEF first, last
<1>5. 1 \in 1..(last - first + 1) /\ last - first + 1 \in 1..(last - first + 1)
  BY <1>1, <1>2
<1>6. \A n \in 1..(last - first + 1) :
        kept[n].len = (IF n = 1 \/ text[first + n - 1].len = 0 THEN 0 ELSE text[first + n - 1].indent)
                      + text[first + n - 1].len
  BY DEF Normalized, first, last
<1>7. first + 1 - 1 = first /\ first + (last - first + 1) - 1 = last
  BY <1>1, <1>2
<1>8. kept[1].len > 0
  <2>1. kept[1].len = 0 + text[first + 1 - 1].len
    BY <1>5, <1>6
  <2> QED
    BY <1>2, <1>3, <1>7, <2>1
<1>9. kept[last - first + 1].len > 0
  <2> DEFINE m == last - first + 1
  <2>1. text[first + (last - first + 1) - 1] = text[last]
    BY <1>7
  <2>2. m \in 1..m /\ text[first + m - 1] = text[last]
    BY <1>5, <2>1
  <2> HIDE DEF m
  <2>3. kept[m].len = (IF m = 1 \/ text[last].len = 0 THEN 0 ELSE text[last].indent) + text[last].len
    <3>1. kept[m].len = (IF m = 1 \/ text[first + m - 1].len = 0 THEN 0 ELSE text[first + m - 1].indent)
                        + text[first + m - 1].len
      BY <1>6, <2>2 DEF m
    <3> QED
      BY <2>2, <3>1
  <2>4. kept[m].len > 0
    BY <1>2, <1>3, <2>3
  <2> QED
    BY <2>4 DEF m
<1> QED
  BY <1>4, <1>8, <1>9 DEF first, last

\* Before the first line there are no chunks.
LEMMA InitLines == Init => LinesInv
<1> SUFFICES ASSUME Init PROVE LinesInv
  OBVIOUS
<1>1. lines \in Seq(Line)
  <2>1. CASE lines = <<>>
    BY <2>1
  <2>2. CASE \E bound \in Bounds(markdown) : lines = Normalized(markdown, bound[1], bound[2])
    <3>1. markdown \in Seq(RawLine)
      BY TextsAssumption DEF Init
    <3> QED
      BY <2>2, <3>1, NormalizedType
  <2> QED
    BY <2>1, <2>2 DEF Init
<1>2. Len(lines) \in Nat
  BY <1>1
<1>3. chunks = <<>> /\ Len(chunks) = 0 /\ DOMAIN chunks = {}
  BY DEF Init
<1>4. TextKept
  <2>1. CASE (\A n \in DOMAIN markdown : markdown[n].len = 0) /\ lines = <<>>
    BY <2>1 DEF TextKept
  <2>2. CASE \E bound \in Bounds(markdown) : lines = Normalized(markdown, bound[1], bound[2])
    <3>1. markdown \in Seq(RawLine)
      BY TextsAssumption DEF Init
    <3> QED
      BY <2>2, <3>1, NormalizedEnds DEF TextKept
  <2> QED
    BY <2>1, <2>2 DEF Init
<1>5. Covered
  BY <1>3 DEF Covered, Chunked
<1>6. markdown \in Seq(RawLine)
  BY TextsAssumption DEF Init
<1> QED
  BY <1>1, <1>2, <1>3, <1>4, <1>5, <1>6 DEF Init, LinesInv, TypeOK, Partition, SizeBound, Maximal, Chunked

\* What Append makes of a sequence.
LEMMA Appended ==
  ASSUME NEW S, NEW s \in Seq(S), NEW e \in S
  PROVE  /\ Append(s, e) \in Seq(S) /\ Len(Append(s, e)) = Len(s) + 1 /\ Append(s, e) # <<>>
         /\ Append(s, e)[Len(s) + 1] = e
         /\ \A i \in 1..Len(s) : Append(s, e)[i] = s[i]
         /\ DOMAIN s = 1..Len(s)
         /\ DOMAIN Append(s, e) = 1..(Len(s) + 1)
OBVIOUS

\* The lines at hand, closed with any section as a chunk, are a chunk like
\* those before it: it follows on them, is of lines of the text, within the
\* size, and the one before it had no room for its first line.
LEMMA CloseChunk ==
  ASSUME LinesInv, count > 0, NEW sec \in Titles \cup {NoTitle},
         chunks' = Append(chunks, BuildChunk(sec)), lines' = lines
  PROVE  /\ chunks' \in Seq(Chunk)
         /\ chunks' # <<>> /\ Len(chunks') = Len(chunks) + 1
         /\ chunks'[Len(chunks')] = BuildChunk(sec)
         /\ Chunked' = next - 1
         /\ \A i \in DOMAIN chunks' :
              /\ chunks'[i].first = IF i = 1 THEN 1 ELSE chunks'[i - 1].last + 1
              /\ chunks'[i].first <= chunks'[i].last
         /\ SizeBound'
         /\ Maximal'
         /\ Covered'
<1> DEFINE c == BuildChunk(sec)
<1>1. /\ lines \in Seq(Line) /\ Len(lines) \in Nat /\ DOMAIN lines = 1..Len(lines)
      /\ next \in 1..(Len(lines) + 1) /\ start \in 0..Len(lines) /\ count \in 0..Len(lines)
      /\ size \in Nat /\ chunks \in Seq(Chunk) /\ Len(chunks) \in Nat
  BY DEF LinesInv, TypeOK
<1>2. Chunked \in 0..Len(lines) /\ start = Chunked + 1 /\ next = start + count
  BY <1>1, ChunkedType DEF LinesInv, Partition
<1>3. start \in DOMAIN lines /\ start + count - 1 \in DOMAIN lines
  BY <1>1, <1>2
<1>4. /\ c \in Chunk /\ c.first = start /\ c.last = next - 1 /\ c.size = size
      /\ c.first <= c.last
  BY <1>1, <1>2, <1>3 DEF BuildChunk, Chunk
<1>5. /\ chunks' \in Seq(Chunk) /\ Len(chunks') = Len(chunks) + 1 /\ chunks' # <<>>
      /\ chunks'[Len(chunks) + 1] = c
      /\ \A i \in 1..Len(chunks) : chunks'[i] = chunks[i]
      /\ DOMAIN chunks = 1..Len(chunks)
      /\ DOMAIN chunks' = 1..(Len(chunks) + 1)
  <2>1. chunks' = Append(chunks, c) /\ chunks \in Seq(Chunk) /\ c \in Chunk
    BY <1>1, <1>4
  <2> HIDE DEF c
  <2> QED
    BY ONLY <2>1, Appended
<1> HIDE DEF c
<1>6. Chunked' = next - 1
  BY <1>4, <1>5 DEF Chunked
<1>7. ASSUME NEW i \in DOMAIN chunks'
      PROVE  /\ chunks'[i].first = IF i = 1 THEN 1 ELSE chunks'[i - 1].last + 1
             /\ chunks'[i].first <= chunks'[i].last
  <2>1. CASE i \in DOMAIN chunks
    BY <1>1, <1>5, <2>1 DEF LinesInv, Partition
  <2>2. CASE i = Len(chunks) + 1
    <3>1. CASE Len(chunks) = 0
      BY <1>2, <1>4, <1>5, <2>2, <3>1 DEF Chunked
    <3>2. CASE Len(chunks) > 0
      <4>1. Chunked = chunks'[i - 1].last /\ i # 1
        <5>1. chunks # <<>> /\ i - 1 = Len(chunks) /\ i - 1 \in 1..Len(chunks)
          BY <1>1, <2>2, <3>2
        <5> QED
          BY <1>5, <5>1 DEF Chunked
      <4> QED
        BY <1>2, <1>4, <1>5, <2>2, <4>1
    <3> QED
      BY <1>1, <3>1, <3>2
  <2> QED
    BY <1>1, <1>5, <2>1, <2>2
<1>8. SizeBound'
  <2> SUFFICES ASSUME NEW i \in DOMAIN chunks'
               PROVE  chunks'[i].size <= MaxChars \/ chunks'[i].first = chunks'[i].last
    BY MaxCharsAssumption DEF SizeBound
  <2>1. CASE i \in DOMAIN chunks
    BY <1>5, <2>1 DEF LinesInv, SizeBound
  <2>2. CASE i = Len(chunks) + 1
    <3>1. count > 1 => size <= MaxChars
      BY DEF LinesInv
    <3> QED
      BY <1>1, <1>2, <1>4, <1>5, <2>2, <3>1
  <2> QED
    BY <1>1, <1>5, <2>1, <2>2
<1>9. Maximal'
  <2> SUFFICES ASSUME NEW i \in 1..Len(chunks)
               PROVE  chunks'[i].size + LineSize(lines[chunks'[i + 1].first]) > MaxChars
    BY <1>1, <1>5 DEF Maximal, LineSize
  <2>1. CASE i + 1 \in 1..Len(chunks)
    <3>1. i \in 1..(Len(chunks) - 1)
      BY <1>1, <2>1
    <3> QED
      BY <1>5, <2>1, <3>1 DEF LinesInv, Maximal
  <2>2. CASE i = Len(chunks)
    <3>1. chunks # <<>> /\ chunks[Len(chunks)].size + LineSize(lines[start]) > MaxChars
      BY <1>1, <2>2 DEF LinesInv
    <3> QED
      BY <1>4, <1>5, <2>2, <3>1
  <2> QED
    BY <1>1, <2>1, <2>2
<1>10. Covered'
  <2> SUFFICES ASSUME NEW n \in 1..(next - 1)
               PROVE  \E i \in DOMAIN chunks' : n \in (chunks'[i].first)..(chunks'[i].last)
    BY <1>6 DEF Covered
  <2>1. CASE n <= Chunked
    <3>1. n \in 1..Chunked
      BY <1>1, <1>2, <2>1
    <3>2. PICK i \in DOMAIN chunks : n \in (chunks[i].first)..(chunks[i].last)
      BY <3>1 DEF LinesInv, Covered
    <3> QED
      BY <1>1, <1>5, <3>2
  <2>2. CASE n > Chunked
    <3>1. n \in start..(next - 1)
      BY <1>1, <1>2, <2>2
    <3>2. Len(chunks) + 1 \in DOMAIN chunks'
      BY <1>1, <1>5
    <3> QED
      BY <1>4, <1>5, <3>1, <3>2
  <2> QED
    BY <1>1, <1>2, <2>1, <2>2
<1> QED
  BY <1>5, <1>6, <1>7, <1>8, <1>9, <1>10 DEF c

\* The normalised text stays what it is of the document.
LEMMA TextKeptStable ==
  ASSUME TextKept, UNCHANGED <<markdown, lines>>
  PROVE  TextKept'
BY DEF TextKept, Bounds

\* A line joins the lines at hand, or closes them and begins anew.
LEMMA ReadLineLines == LinesInv /\ ReadLine => LinesInv'
<1> SUFFICES ASSUME LinesInv, ReadLine PROVE LinesInv'
  OBVIOUS
<1> DEFINE l == lines[next]
<1>1. /\ lines \in Seq(Line) /\ Len(lines) \in Nat /\ DOMAIN lines = 1..Len(lines)
      /\ next \in 1..(Len(lines) + 1) /\ start \in 0..Len(lines) /\ count \in 0..Len(lines)
      /\ size \in Nat /\ chunks \in Seq(Chunk) /\ Len(chunks) \in Nat /\ markdown \in Seq(RawLine)
  BY DEF LinesInv, TypeOK
<1>2. /\ Chunked \in 0..Len(lines) /\ next = Chunked + count + 1
      /\ count > 0 => start = Chunked + 1
  BY <1>1, ChunkedType DEF LinesInv, Partition
<1>3. /\ next <= Len(lines) /\ next \in DOMAIN lines
      /\ section' = Entered(l) /\ next' = next + 1 /\ lines' = lines /\ markdown' = markdown
  BY <1>1 DEF ReadLine
<1>4. LineSize(l) \in Nat /\ section' \in Titles \cup {NoTitle}
  BY <1>3, LineType DEF LinesInv
<1>5. TextKept'
  BY <1>3, TextKeptStable DEF LinesInv
<1>6. CASE Overflows(l)
  <2>1. /\ chunks' = Append(chunks, BuildChunk(section')) /\ start' = next
        /\ count' = 1 /\ size' = LineSize(l)
    BY <1>3, <1>6 DEF ReadLine
  <2>2. count > 0 /\ size + LineSize(l) > MaxChars
    BY <1>6 DEF Overflows
  <2>3. /\ chunks' \in Seq(Chunk) /\ chunks' # <<>> /\ Chunked' = next - 1
        /\ chunks'[Len(chunks')] = BuildChunk(section')
        /\ \A i \in DOMAIN chunks' :
             /\ chunks'[i].first = IF i = 1 THEN 1 ELSE chunks'[i - 1].last + 1
             /\ chunks'[i].first <= chunks'[i].last
        /\ SizeBound' /\ Maximal' /\ Covered'
    BY <1>3, <1>4, <2>1, <2>2, CloseChunk
  <2>4. TypeOK'
    <3>1. chunks' \in Seq(Chunk') /\ markdown' \in Seq(RawLine)
      BY <1>1, <1>3, <2>3 DEF Chunk
    <3> QED
      BY <1>1, <1>3, <1>4, <2>1, <3>1 DEF TypeOK
  <2>5. Partition'
    BY <1>1, <1>3, <2>1, <2>3 DEF Partition
  <2>6. chunks'[Len(chunks')].size + LineSize(lines[next]) > MaxChars
    BY <2>2, <2>3 DEF BuildChunk
  <2> QED
    BY <1>3, <1>5, <2>1, <2>3, <2>4, <2>5, <2>6 DEF LinesInv, LineSize
<1>7. CASE ~Overflows(l)
  <2>1. /\ chunks' = chunks /\ start' = (IF count = 0 THEN next ELSE start)
        /\ count' = count + 1 /\ size' = size + LineSize(l)
    BY <1>7 DEF ReadLine
  <2>2. Chunked' = Chunked
    BY <2>1 DEF Chunked
  <2>3. TypeOK'
    BY <1>1, <1>2, <1>3, <1>4, <2>1 DEF LinesInv, TypeOK, Chunk
  <2>4. Partition'
    <3>1. (\A i \in DOMAIN chunks :
              /\ chunks[i].first = IF i = 1 THEN 1 ELSE chunks[i - 1].last + 1
              /\ chunks[i].first <= chunks[i].last)'
      BY <2>1 DEF LinesInv, Partition
    <3>2. (count > 0 => start = Chunked + 1)' /\ (next = Chunked + count + 1)'
      BY <1>1, <1>2, <1>3, <2>1, <2>2
    <3> QED
      BY <3>1, <3>2 DEF Partition
  <2>5. SizeBound' /\ Maximal'
    BY <1>3, <2>1 DEF LinesInv, SizeBound, Maximal, LineSize
  <2>6. (count > 1 => size <= MaxChars)'
    BY <1>1, <1>4, <1>7, <2>1, MaxCharsAssumption DEF Overflows
  <2>7. (count > 0 /\ chunks # <<>> =>
           chunks[Len(chunks)].size + LineSize(lines[start]) > MaxChars)'
    BY <1>1, <1>3, <2>1 DEF LinesInv, LineSize
  <2>8. count' > 0
    BY <1>1, <2>1
  <2>9. Covered'
    BY <2>1, <2>2 DEF LinesInv, Covered
  <2> QED
    BY <1>5, <2>9, <2>8, <2>3, <2>4, <2>5, <2>6, <2>7 DEF LinesInv
<1> QED
  BY <1>6, <1>7

\* The lines left at the end make the last chunk.
LEMMA FinishLines == LinesInv /\ Finish => LinesInv'
<1> SUFFICES ASSUME LinesInv, Finish PROVE LinesInv'
  OBVIOUS
<1>1. /\ lines \in Seq(Line) /\ Len(lines) \in Nat
      /\ next = Len(lines) + 1 /\ count > 0 /\ section \in Titles \cup {NoTitle}
      /\ chunks' = Append(chunks, BuildChunk(section)) /\ count' = 0
      /\ UNCHANGED <<markdown, lines, next, start, size, section>>
  BY DEF Finish, LinesInv, TypeOK
<1>2. /\ chunks' \in Seq(Chunk) /\ Chunked' = next - 1
      /\ \A i \in DOMAIN chunks' :
           /\ chunks'[i].first = IF i = 1 THEN 1 ELSE chunks'[i - 1].last + 1
           /\ chunks'[i].first <= chunks'[i].last
      /\ SizeBound' /\ Maximal' /\ Covered'
  BY <1>1, CloseChunk
<1>3. TypeOK'
  BY <1>1, <1>2 DEF LinesInv, TypeOK, Chunk
<1>4. Partition'
  BY <1>1, <1>2 DEF Partition
<1>5. TextKept'
  BY <1>1, TextKeptStable DEF LinesInv
<1> QED
  BY <1>1, <1>2, <1>3, <1>4, <1>5 DEF LinesInv

-----------------------------------------------------------------------------
(* Sections *)

\* The section in force at a line is the one at the line before it, unless the
\* line is a heading.
LEMMA SectionStep ==
  ASSUME lines \in Seq(Line), NEW n \in 1..Len(lines)
  PROVE  SectionAt(n) = IF lines[n].title = NoTitle THEN SectionAt(n - 1) ELSE lines[n].title
<1> DEFINE Headings(m) == {h \in 1..m : lines[h].title # NoTitle}
           Latest(S)   == CHOOSE h \in S : \A k \in S : k <= h
<1>1. n \in 1..n /\ \A h \in 1..n : h <= n /\ (h # n => h \in 1..(n - 1))
  OBVIOUS
<1>2. 1..(n - 1) \subseteq 1..n
  OBVIOUS
<1>3. \A m : SectionAt(m) = IF Headings(m) = {} THEN NoTitle ELSE lines[Latest(Headings(m))].title
  BY DEF SectionAt
<1>4. CASE lines[n].title = NoTitle
  <2>1. Headings(n) = Headings(n - 1)
    BY <1>1, <1>2, <1>4
  <2> HIDE DEF Headings, Latest
  <2> QED
    BY <1>3, <1>4, <2>1
<1>5. CASE lines[n].title # NoTitle
  <2>1. n \in Headings(n) /\ \A k \in Headings(n) : k <= n
    BY <1>1, <1>5
  <2>2. \A h \in Headings(n) : (\A k \in Headings(n) : k <= h) => h = n
    BY <1>1, <2>1
  <2> HIDE DEF Headings
  <2>3. Latest(Headings(n)) = n
    BY <2>1, <2>2
  <2> QED
    BY <1>3, <1>5, <2>1, <2>3
<1> QED
  BY <1>4, <1>5

\* Sections are of the text, which stays.
LEMMA SectionStable ==
  ASSUME lines' = lines, NEW n
  PROVE  SectionAt(n)' = SectionAt(n)
BY DEF SectionAt

\* So the section before the line to be read next is that of the same text.
LEMMA SectionThen ==
  ASSUME lines' = lines
  PROVE  SectionAt(next - 1)' = SectionAt(next' - 1)
BY DEF SectionAt

\* A chunk closed with the section of one of its lines or of the line after it
\* is near that section like those before it.
LEMMA CloseLabels ==
  ASSUME LinesInv, SectionIsNear, count > 0, lines' = lines,
         NEW sec \in Titles \cup {NoTitle}, chunks' = Append(chunks, BuildChunk(sec)),
         NEW m \in (next - 1)..next, m <= Len(lines), sec = SectionAt(m)
  PROVE  SectionIsNear'
<1>1. /\ Len(lines) \in Nat /\ next \in 1..(Len(lines) + 1) /\ start \in 0..Len(lines)
      /\ count \in 0..Len(lines) /\ chunks \in Seq(Chunk) /\ Len(chunks) \in Nat
      /\ Chunked \in 0..Len(lines) /\ start = Chunked + 1 /\ next = start + count
  BY ChunkedType DEF LinesInv, TypeOK, Partition
<1>2. /\ chunks' \in Seq(Chunk) /\ Len(chunks') = Len(chunks) + 1
      /\ chunks'[Len(chunks')] = BuildChunk(sec)
  BY CloseChunk
<1>3. BuildChunk(sec).first = start /\ BuildChunk(sec).last = next - 1 /\ BuildChunk(sec).section = sec
  BY <1>1 DEF BuildChunk
<1>4. \A i \in DOMAIN chunks : i \in DOMAIN chunks' /\ chunks'[i] = chunks[i]
  BY <1>1, <1>2
<1>5. DOMAIN chunks' = DOMAIN chunks \cup {Len(chunks')}
  BY <1>1, <1>2
<1> SUFFICES ASSUME NEW i \in DOMAIN chunks'
             PROVE  \E n \in (chunks'[i].first)..(chunks'[i].last + 1) :
                      n <= Len(lines) /\ chunks'[i].section = SectionAt(n)
  BY SectionStable DEF SectionIsNear
<1>6. CASE i \in DOMAIN chunks
  BY <1>4, <1>6 DEF SectionIsNear
<1>7. CASE i = Len(chunks')
  <2>1. m \in start..(next - 1 + 1)
    BY <1>1
  <2> QED
    BY <1>2, <1>3, <1>7, <2>1
<1> QED
  BY <1>5, <1>6, <1>7

\* The section in hand stays the one in force at the line read last.
LEMMA InitLabels == Init => LabelsInv
<1> SUFFICES ASSUME Init PROVE LabelsInv
  OBVIOUS
<1>1. next - 1 = 0 /\ 1..0 = {} /\ section = NoTitle /\ DOMAIN chunks = {}
  BY DEF Init
<1>2. SectionAt(0) = NoTitle
  BY <1>1 DEF SectionAt
<1> QED
  BY <1>1, <1>2 DEF LabelsInv, SectionIsNear

\* A line that is a heading sets it.
LEMMA ReadLineLabels == LinesInv /\ LabelsInv /\ ReadLine => LabelsInv'
<1> SUFFICES ASSUME LinesInv, LabelsInv, ReadLine PROVE LabelsInv'
  OBVIOUS
<1> DEFINE l == lines[next]
<1>1. lines \in Seq(Line) /\ Len(lines) \in Nat /\ next \in 1..Len(lines) /\ DOMAIN lines = 1..Len(lines)
  BY DEF LinesInv, TypeOK, ReadLine
<1>2. section' = Entered(l) /\ next' = next + 1 /\ lines' = lines
  BY DEF ReadLine
<1>3. Entered(l) \in Titles \cup {NoTitle}
  BY <1>1, LineType DEF LinesInv
<1>4. section' = SectionAt(next)
  BY <1>1, <1>2, SectionStep DEF LabelsInv, Entered
<1>5. next' - 1 = next
  BY <1>1, <1>2
<1>6. (section = SectionAt(next - 1))'
  BY <1>2, <1>4, <1>5, SectionThen
<1>7. SectionIsNear'
  <2>1. CASE Overflows(l)
    <3>1. count > 0 /\ chunks' = Append(chunks, BuildChunk(section'))
      BY <1>2, <2>1 DEF ReadLine, Overflows
    <3>2. next \in (next - 1)..next /\ next <= Len(lines)
      BY <1>1
    <3> QED
      BY <1>2, <1>3, <1>4, <3>1, <3>2, CloseLabels DEF LabelsInv
  <2>2. CASE ~Overflows(l)
    <3>1. chunks' = chunks
      BY <2>2 DEF ReadLine
    <3> QED
      BY <1>2, <3>1, SectionStable DEF LabelsInv, SectionIsNear
  <2> QED
    BY <2>1, <2>2
<1> QED
  BY <1>6, <1>7 DEF LabelsInv

\* The last chunk is closed with the section of its last line.
LEMMA FinishLabels == LinesInv /\ LabelsInv /\ Finish => LabelsInv'
<1> SUFFICES ASSUME LinesInv, LabelsInv, Finish PROVE LabelsInv'
  OBVIOUS
<1>1. /\ Len(lines) \in Nat /\ next = Len(lines) + 1 /\ count > 0
      /\ section \in Titles \cup {NoTitle} /\ chunks' = Append(chunks, BuildChunk(section))
      /\ UNCHANGED <<lines, next, section>>
  BY DEF LinesInv, TypeOK, Finish
<1>2. next - 1 \in (next - 1)..next /\ next - 1 <= Len(lines)
  BY <1>1
<1>3. SectionIsNear'
  BY <1>1, <1>2, CloseLabels DEF LabelsInv
<1> QED
  BY <1>1, <1>3, SectionThen DEF LabelsInv

-----------------------------------------------------------------------------
(* Sizes *)

\* No lines have no size, and a line more adds its length and its line break.
LEMMA SizeStep ==
  ASSUME lines \in Seq(Line), NEW a \in 1..Len(lines), NEW b \in (a - 1)..(Len(lines) - 1)
  PROVE  /\ SizeOf(a, a - 1) = 0
         /\ SizeOf(a, b) \in Nat
         /\ SizeOf(a, b + 1) = SizeOf(a, b) + LineSize(lines[b + 1])
<1> DEFINE sizes == [n \in DOMAIN lines |-> lines[n].len + 1]
<1>1. /\ Len(lines) \in Nat /\ DOMAIN lines = 1..Len(lines)
      /\ \A n \in DOMAIN lines : lines[n].len \in Nat
  <2>1. \A n \in DOMAIN lines : lines[n] \in Line
    OBVIOUS
  <2> QED
    BY <2>1 DEF Line
<1>2. \A n \in DOMAIN lines : sizes[n] = LineSize(lines[n]) /\ sizes[n] \in Nat
  BY <1>1 DEF LineSize
<1>3. \A first, last : SizeOf(first, last) = SumFunctionOnSet(sizes, first..last)
  BY DEF SizeOf
<1> HIDE DEF sizes
<1>4. /\ a..(a - 1) = {} /\ a..(b + 1) = (a..b) \cup {b + 1} /\ b + 1 \notin a..b
      /\ b + 1 \in DOMAIN lines /\ a..b \subseteq DOMAIN lines
  BY <1>1
<1>5. IsFiniteSet(a..b)
  BY FS_Interval
<1>6. sizes[b + 1] \in Nat /\ \A n \in a..b : sizes[n] \in Nat
  BY <1>2, <1>4
<1>7. /\ SumFunctionOnSet(sizes, a..b) \in Nat
      /\ SumFunctionOnSet(sizes, (a..b) \cup {b + 1}) = sizes[b + 1] + SumFunctionOnSet(sizes, a..b)
  BY <1>4, <1>5, <1>6, SumOfOneMore
<1>8. SumFunctionOnSet(sizes, {}) = 0
  BY SumOfNothing
<1>9. sizes[b + 1] = LineSize(lines[b + 1])
  BY <1>2, <1>4
<1>10. SizeOf(a, a - 1) = 0
  BY <1>3, <1>4, <1>8
<1>11. SizeOf(a, b) \in Nat
  BY <1>3, <1>7
<1>12. SizeOf(a, b + 1) = LineSize(lines[b + 1]) + SizeOf(a, b)
  BY <1>3, <1>4, <1>7, <1>9
<1>13. LineSize(lines[b + 1]) \in Nat
  BY <1>6, <1>9
<1> QED
  BY <1>10, <1>11, <1>12, <1>13

\* Sizes are of the text, which stays.
LEMMA SizeStable ==
  ASSUME lines' = lines, NEW a, NEW b
  PROVE  SizeOf(a, b)' = SizeOf(a, b)
BY DEF SizeOf

\* So the size of the lines at hand is that of lines of the same text.
LEMMA SizeThen ==
  ASSUME lines' = lines
  PROVE  SizeOf(start, next - 1)' = SizeOf(start', next' - 1)
BY DEF SizeOf

\* The lines at hand are closed with their size.
LEMMA CloseSizes ==
  ASSUME LinesInv, SizesInv, count > 0, lines' = lines,
         NEW sec \in Titles \cup {NoTitle}, chunks' = Append(chunks, BuildChunk(sec))
  PROVE  SizeIsOfLines'
<1>1. /\ chunks \in Seq(Chunk) /\ Len(chunks) \in Nat
      /\ start \in Nat /\ count \in Nat /\ next = start + count
  BY ChunkedType DEF LinesInv, TypeOK, Partition
<1>2. /\ chunks' \in Seq(Chunk) /\ Len(chunks') = Len(chunks) + 1
      /\ chunks'[Len(chunks')] = BuildChunk(sec)
  BY CloseChunk
<1>3. BuildChunk(sec).first = start /\ BuildChunk(sec).last = next - 1 /\ BuildChunk(sec).size = size
  BY <1>1 DEF BuildChunk
<1>4. \A i \in DOMAIN chunks : chunks'[i] = chunks[i]
  BY <1>1
<1>5. DOMAIN chunks' = DOMAIN chunks \cup {Len(chunks')}
  BY <1>1, <1>2
<1> SUFFICES ASSUME NEW i \in DOMAIN chunks'
             PROVE  chunks'[i].size = SizeOf(chunks'[i].first, chunks'[i].last)
  BY SizeStable DEF SizeIsOfLines
<1>6. CASE i \in DOMAIN chunks
  BY <1>4, <1>6 DEF SizesInv, SizeIsOfLines
<1>7. CASE i = Len(chunks')
  BY <1>2, <1>3, <1>7 DEF SizesInv
<1> QED
  BY <1>5, <1>6, <1>7

\* Before the first line the size is that of no lines.
LEMMA InitSizes == Init => SizesInv
BY DEF Init, SizesInv, SizeIsOfLines

\* A line adds its own size.
LEMMA ReadLineSizes == LinesInv /\ SizesInv /\ ReadLine => SizesInv'
<1> SUFFICES ASSUME LinesInv, SizesInv, ReadLine PROVE SizesInv'
  OBVIOUS
<1> DEFINE l == lines[next]
<1>1. /\ lines \in Seq(Line) /\ Len(lines) \in Nat /\ next \in 1..Len(lines) /\ DOMAIN lines = 1..Len(lines)
      /\ count \in 0..Len(lines) /\ start \in 0..Len(lines) /\ size \in Nat
  BY DEF LinesInv, TypeOK, ReadLine
<1>2. next' = next + 1 /\ lines' = lines /\ LineSize(l) \in Nat
  BY <1>1, LineType DEF LinesInv, ReadLine
<1>3. count > 0 => start \in 1..next /\ next = start + count
  BY <1>1, ChunkedType DEF LinesInv, Partition
<1>4. next' - 1 = next /\ next - 1 \in (next - 1)..(Len(lines) - 1) /\ (next - 1) + 1 = next
  BY <1>1, <1>2
<1>5. SizeOf(next, next - 1) = 0 /\ SizeOf(next, next) = SizeOf(next, next - 1) + LineSize(l)
  <2>1. SizeOf(next, (next - 1) + 1) = SizeOf(next, next - 1) + LineSize(lines[(next - 1) + 1])
    BY <1>1, <1>4, SizeStep
  <2>2. SizeOf(next, next - 1) = 0
    BY <1>1, <1>4, SizeStep
  <2> QED
    BY <1>4, <2>1, <2>2
<1>6. SizeOf(next, next) = LineSize(l)
  BY <1>2, <1>5
<1>7. CASE Overflows(l)
  <2>1. /\ chunks' = Append(chunks, BuildChunk(Entered(l))) /\ start' = next
        /\ count' = 1 /\ size' = LineSize(l) /\ count > 0
    BY <1>7 DEF ReadLine, Overflows
  <2>2. SizeIsOfLines'
    <3>1. Entered(l) \in Titles \cup {NoTitle}
      BY <1>1, LineType DEF LinesInv
    <3> QED
      BY <1>2, <2>1, <3>1, CloseSizes
  <2>3. (size = SizeOf(start, next - 1))'
    BY <1>2, <1>4, <1>6, <2>1, SizeThen
  <2> QED
    BY <2>1, <2>2, <2>3 DEF SizesInv
<1>8. CASE ~Overflows(l)
  <2>1. /\ chunks' = chunks /\ start' = (IF count = 0 THEN next ELSE start)
        /\ count' = count + 1 /\ size' = size + LineSize(l)
    BY <1>8 DEF ReadLine
  <2>2. SizeIsOfLines'
    BY <1>2, <2>1, SizeStable DEF SizesInv, SizeIsOfLines
  <2>3. size' = SizeOf(start', next)
    <3>1. CASE count = 0
      BY <1>1, <1>2, <1>6, <2>1, <3>1 DEF SizesInv
    <3>2. CASE count > 0
      <4>1. start \in 1..Len(lines) /\ next - 1 \in (start - 1)..(Len(lines) - 1)
        BY <1>1, <1>3, <3>2
      <4>2. SizeOf(start, (next - 1) + 1) = SizeOf(start, next - 1) + LineSize(lines[(next - 1) + 1])
        BY <1>1, <4>1, SizeStep
      <4>3. size = SizeOf(start, next - 1)
        BY <3>2 DEF SizesInv
      <4>4. start' = start
        BY <1>1, <2>1, <3>2
      <4> QED
        BY <1>4, <2>1, <4>2, <4>3, <4>4
    <3> QED
      BY <1>1, <3>1, <3>2
  <2>4. (size = SizeOf(start, next - 1))'
    BY <1>2, <1>4, <2>3, SizeThen
  <2>5. count' # 0
    BY <1>1, <2>1
  <2> QED
    BY <2>2, <2>4, <2>5 DEF SizesInv
<1> QED
  BY <1>7, <1>8

\* The last chunk is closed with the size in hand.
LEMMA FinishSizes == LinesInv /\ SizesInv /\ Finish => SizesInv'
<1> SUFFICES ASSUME LinesInv, SizesInv, Finish PROVE SizesInv'
  OBVIOUS
<1>1. /\ Len(lines) \in Nat /\ next = Len(lines) + 1 /\ count > 0 /\ count' = 0
      /\ section \in Titles \cup {NoTitle} /\ chunks' = Append(chunks, BuildChunk(section))
      /\ UNCHANGED <<lines, next>>
  BY DEF LinesInv, TypeOK, Finish
<1>2. SizeIsOfLines'
  BY <1>1, CloseSizes
<1>3. ~(next' <= Len(lines')) /\ ~(count' > 0)
  BY <1>1
<1> QED
  BY <1>2, <1>3 DEF SizesInv

-----------------------------------------------------------------------------
(* The theorems *)

\* IInv holds in every reachable state.
THEOREM Invariance == Spec => []IInv
<1>1. Init => IInv
  BY InitLines, InitLabels, InitSizes DEF IInv
<1>2. IInv /\ UNCHANGED vars => IInv'
  <2> SUFFICES ASSUME IInv, UNCHANGED vars PROVE IInv'
    OBVIOUS
  <2>1. TextKept' /\ Covered'
    BY TextKeptStable DEF IInv, LinesInv, Covered, Chunked, vars
  <2>2. LinesInv'
    BY <2>1 DEF IInv, LinesInv, TypeOK, Partition, SizeBound, Maximal, Chunked, Chunk, LineSize, vars
  <2>3. LabelsInv'
    BY SectionStable, SectionThen DEF IInv, LabelsInv, SectionIsNear, vars
  <2>4. SizesInv'
    BY SizeStable, SizeThen DEF IInv, SizesInv, SizeIsOfLines, vars
  <2> QED
    BY <2>2, <2>3, <2>4 DEF IInv
<1>3. IInv /\ ReadLine => IInv'
  BY ReadLineLines, ReadLineLabels, ReadLineSizes DEF IInv
<1>4. IInv /\ Finish => IInv'
  BY FinishLines, FinishLabels, FinishSizes DEF IInv
<1>5. IInv /\ [Next]_vars => IInv'
  BY <1>2, <1>3, <1>4 DEF Next
<1> QED
  BY <1>1, <1>5, PTL DEF Spec

\* Every variable stays in its type; above all the numbers of a chunk's lines are
\* lines of the text.
THEOREM TypeCorrect == Spec => []TypeOK
<1>1. IInv => TypeOK
  BY DEF IInv, LinesInv
<1> QED
  BY Invariance, <1>1, PTL

\* A chunk's section is the one in force at one of its lines or at the line right
\* after it.
THEOREM SectionNear == Spec => []SectionIsNear
<1>1. IInv => SectionIsNear
  BY DEF IInv, LabelsInv
<1> QED
  BY Invariance, <1>1, PTL

\* The size a chunk was closed with is the sum over its lines.
THEOREM SizeOfLines == Spec => []SizeIsOfLines
<1>1. IInv => SizeIsOfLines
  BY DEF IInv, SizesInv
<1> QED
  BY Invariance, <1>1, PTL

\* The chunks of any text split its lines into runs, none lost and none doubled,
\* with the right numbers.
THEOREM Partitioned == Spec => []Partition
<1>1. IInv => Partition
  BY DEF IInv, LinesInv
<1> QED
  BY Invariance, <1>1, PTL

\* Only a chunk of a single line may be over the limit.
THEOREM WithinSize == Spec => []SizeBound
<1>1. IInv => SizeBound
  BY DEF IInv, LinesInv
<1> QED
  BY Invariance, <1>1, PTL

\* No chunk is closed while the next line would still fit.
THEOREM AsLargeAsMayBe == Spec => []Maximal
<1>1. IInv => Maximal
  BY DEF IInv, LinesInv
<1> QED
  BY Invariance, <1>1, PTL

\* Every line of a document that is not blank ends up in a chunk, at the number
\* the blank lines before it leave it.
THEOREM TextChunked == Spec => []AllTextChunked
<1>1. IInv => AllTextChunked
  <2> SUFFICES ASSUME IInv, next = Len(lines) + 1, count = 0,
                      NEW n \in DOMAIN markdown, markdown[n].len > 0
               PROVE  \E bound \in Bounds(markdown), i \in DOMAIN chunks :
                        n - bound[1] + 1 \in (chunks[i].first)..(chunks[i].last)
    BY DEF AllTextChunked
  <2>1. markdown \in Seq(RawLine)
    BY DEF IInv, LinesInv, TypeOK
  <2>2. PICK bound \in Bounds(markdown) : Len(lines) = bound[2] - bound[1] + 1
    BY DEF IInv, LinesInv, TextKept
  <2>3. n \in (bound[1])..(bound[2])
    <3>1. /\ n \in 1..Len(markdown) /\ Len(markdown) \in Nat
          /\ bound[1] \in 1..Len(markdown) /\ bound[2] \in 1..Len(markdown)
      BY <2>1, BoundsOrdered
    <3>2. /\ \A k \in 1..(bound[1] - 1) : markdown[k].len = 0
          /\ \A k \in (bound[2] + 1)..Len(markdown) : markdown[k].len = 0
      BY DEF Bounds
    <3>3. n \notin 1..(bound[1] - 1) /\ n \notin (bound[2] + 1)..Len(markdown)
      BY <3>2
    <3> QED
      BY <3>1, <3>3
  <2>4. n - bound[1] + 1 \in 1..Chunked
    BY <2>1, <2>2, <2>3, ChunkedType, BoundsOrdered DEF IInv, LinesInv, Partition
  <2> QED
    BY <2>2, <2>4 DEF IInv, LinesInv, Covered
<1> QED
  BY Invariance, <1>1, PTL

\* The first and the last chunk of any text hold some of it, so a text that is
\* cut into chunks at all gives the model something to read.
THEOREM EndsFull == Spec => []EndsHaveText
<1>1. IInv => EndsHaveText
  <2> SUFFICES ASSUME IInv, NEW i \in DOMAIN chunks,
                      \A n \in (chunks[i].first)..(chunks[i].last) : lines[n].len = 0
               PROVE  i > 1 /\ chunks[i].last < Len(lines)
    BY DEF EndsHaveText
  <2>1. /\ Len(lines) \in Nat /\ DOMAIN lines = 1..Len(lines)
        /\ Len(chunks) \in Nat /\ DOMAIN chunks = 1..Len(chunks) /\ chunks[i] \in Chunk
    BY DEF IInv, LinesInv, TypeOK
  <2>2. /\ chunks[i].first \in 1..Len(lines) /\ chunks[i].last \in 1..Len(lines)
        /\ chunks[i].first <= chunks[i].last
        /\ i = 1 => chunks[i].first = 1
    <3>1. Partition
      BY DEF IInv, LinesInv
    <3> QED
      BY <2>1, <3>1 DEF Chunk, Partition
  <2>3. lines[1].len > 0 /\ lines[Len(lines)].len > 0
    BY <2>1, <2>2 DEF IInv, LinesInv, TextKept
  <2>4. chunks[i].first \in (chunks[i].first)..(chunks[i].last)
        /\ chunks[i].last \in (chunks[i].first)..(chunks[i].last)
    BY <2>1, <2>2
  <2> QED
    BY <2>1, <2>2, <2>3, <2>4
<1> QED
  BY Invariance, <1>1, PTL

=============================================================================
