------------------------------ MODULE JsonReply ------------------------------
(***************************************************************************)
(* parse_json_object (app/llm/json_parsing.py): the JSON object in the     *)
(* text of a reply.  A text is a sequence of characters without blanks at  *)
(* its ends, which strip and the scan do not depend on.  What json.loads   *)
(* accepts is a parameter.                                                 *)
(***************************************************************************)
EXTENDS Integers, SequencesExt

CONSTANT IsObject(_)  \* does json.loads make a dict of this text?

ASSUME IsObjectAssumption == ~IsObject(<<>>)

LeftBrace  == "{"
RightBrace == "}"
Quote      == "\""
Backslash  == "\\"

\* The characters the scan tells apart, and two that it does not.
Char == {LeftBrace, RightBrace, Quote, Backslash, ":", "1"}

-----------------------------------------------------------------------------
(* What JSON says of the text of an object *)

\* An odd number of backslashes right before the i-th character hides it.
Escaped(s, i) ==
  \E n \in {k \in 1..(i - 1) : k % 2 = 1} :
    /\ \A j \in (i - n)..(i - 1) : s[j] = Backslash
    /\ n < i - 1 => s[i - n - 1] # Backslash

\* The i-th character is in a string, or is the quote that ends one: the number
\* of quotes before it that are not escaped is odd.
Quoted(s, i) ==
  Cardinality({j \in 1..(i - 1) : s[j] = Quote /\ ~Escaped(s, j)}) % 2 = 1

\* The places up to the n-th of a character that is not in a string.
Places(s, n, char) == {j \in 1..n : s[j] = char /\ ~Quoted(s, j)}

\* The braces open after n characters.
Depth(s, n) == Cardinality(Places(s, n, LeftBrace)) - Cardinality(Places(s, n, RightBrace))

\* The first brace is closed by the last character and not before, and only
\* strings hold backslashes.
Balanced(s) ==
  /\ s # <<>> /\ s[1] = LeftBrace
  /\ \A i \in DOMAIN s : s[i] = Backslash => Quoted(s, i)
  /\ \A n \in 1..(Len(s) - 1) : Depth(s, n) > 0
  /\ Depth(s, Len(s)) = 0

-----------------------------------------------------------------------------
(* The code *)

\* What the scan knows after the characters it has read.
StartOfScan == [read |-> 0, depth |-> 0, inString |-> FALSE, escape |-> FALSE, closed |-> FALSE]

ScanChar_NotStringAware(scan, char) ==  \* mutant: braces count inside strings too
  LET next == [scan EXCEPT !.read = @ + 1]
  IN IF scan.closed THEN scan
     ELSE IF char = LeftBrace THEN [next EXCEPT !.depth = @ + 1]
     ELSE IF char = RightBrace THEN [next EXCEPT !.depth = @ - 1, !.closed = scan.depth = 1]
     ELSE next

\* One character, from the first brace on.  A backslash hides the character
\* after it, also outside strings.
ScanChar(scan, char) ==
  LET next == [scan EXCEPT !.read = @ + 1]
  IN IF scan.closed THEN scan
     ELSE IF scan.escape THEN [next EXCEPT !.escape = FALSE]
     ELSE IF char = Backslash THEN [next EXCEPT !.escape = TRUE]
     ELSE IF char = Quote THEN [next EXCEPT !.inString = ~@]
     ELSE IF scan.inString THEN next
     ELSE IF char = LeftBrace THEN [next EXCEPT !.depth = @ + 1]
     ELSE IF char = RightBrace THEN [next EXCEPT !.depth = @ - 1, !.closed = scan.depth = 1]
     ELSE next

\* The first balanced block, or <<>> if there is none.
ExtractFirstJsonObject(text) ==
  LET start == SelectInSeq(text, LAMBDA char : char = LeftBrace)
      rest  == SubSeq(text, start, Len(text))
      scan  == FoldLeft(ScanChar, StartOfScan, rest)
  IN IF start # 0 /\ scan.closed THEN SubSeq(rest, 1, scan.read) ELSE <<>>

\* The text itself or else its first block, or <<>> if neither is an object.
ParseJsonObject(text) ==
  IF IsObject(text) THEN text
  ELSE LET block == ExtractFirstJsonObject(text)
       IN IF IsObject(block) THEN block ELSE <<>>

=============================================================================
