--------------------------- MODULE JsonReplyProofs ---------------------------
(***************************************************************************)
(* Proofs about JsonReply, for every text: the scan of                     *)
(* extract_first_json_object knows of each character whether it is escaped *)
(* or in a string and how many braces are open, so it ends where an object *)
(* does.                                                                   *)
(***************************************************************************)
EXTENDS JsonReply, FoldLemmas, SequenceTheorems

-----------------------------------------------------------------------------
(* What JSON says, character by character *)

\* The run of backslashes right before the i-th character is n long.
Run(s, i, n) ==
  /\ n \in 0..(i - 1)
  /\ \A j \in (i - n)..(i - 1) : s[j] = Backslash
  /\ n < i - 1 => s[i - n - 1] # Backslash

\* There is such a run, of no backslash maybe.
LEMMA RunExists ==
  ASSUME NEW s, NEW i \in Nat \ {0}
  PROVE  \E n \in Nat : Run(s, i, n)
<1> DEFINE T == {n \in 0..(i - 1) : n = i - 1 \/ s[i - n - 1] # Backslash}
<1>1. T \subseteq Nat /\ i - 1 \in T
  OBVIOUS
<1>2. PICK n \in T : \A m \in T : n <= m
  BY <1>1, LeastNatural
<1>3. \A j \in (i - n)..(i - 1) : s[j] = Backslash
  <2> SUFFICES ASSUME NEW j \in (i - n)..(i - 1) PROVE s[j] = Backslash
    OBVIOUS
  <2>1. i - j - 1 \in 0..(i - 1) /\ i - j - 1 < n /\ i - (i - j - 1) - 1 = j
    BY <1>2
  <2>2. i - j - 1 \notin T
    BY <1>1, <1>2, <2>1
  <2> QED
    BY <2>1, <2>2
<1> QED
  BY <1>2, <1>3 DEF Run

\* And only one.
LEMMA RunUnique ==
  ASSUME NEW s, NEW i \in Nat \ {0}, NEW n, NEW m, Run(s, i, n), Run(s, i, m)
  PROVE  n = m
<1>1. ASSUME NEW a \in 0..(i - 1), NEW b \in 0..(i - 1), Run(s, i, a), Run(s, i, b), a < b
      PROVE  FALSE
  <2>1. a < i - 1 /\ i - a - 1 \in (i - b)..(i - 1)
    BY <1>1
  <2> QED
    BY <1>1, <2>1 DEF Run
<1>2. n \in 0..(i - 1) /\ m \in 0..(i - 1)
  BY DEF Run
<1>3. ~(n < m) /\ ~(m < n)
  BY <1>1, <1>2
<1> QED
  BY <1>2, <1>3

\* A character is escaped if the run before it is of an odd number.
LEMMA EscapedByRun ==
  ASSUME NEW s, NEW i \in Nat \ {0}, NEW n, Run(s, i, n)
  PROVE  Escaped(s, i) <=> n % 2 = 1
<1>1. n \in 0..(i - 1)
  BY DEF Run
<1>2. ASSUME n % 2 = 1 PROVE Escaped(s, i)
  <2>1. n \in {k \in 1..(i - 1) : k % 2 = 1}
    BY <1>1, <1>2
  <2> QED
    BY <2>1 DEF Escaped, Run
<1>3. ASSUME Escaped(s, i) PROVE n % 2 = 1
  <2>1. PICK m \in {k \in 1..(i - 1) : k % 2 = 1} :
          /\ \A j \in (i - m)..(i - 1) : s[j] = Backslash
          /\ m < i - 1 => s[i - m - 1] # Backslash
    BY <1>3 DEF Escaped
  <2>2. m \in 0..(i - 1)
    OBVIOUS
  <2>3. Run(s, i, m)
    BY <2>1, <2>2 DEF Run
  <2>4. n = m
    BY <2>3, RunUnique
  <2> QED
    BY <2>4
<1> QED
  BY <1>2, <1>3

\* A character is escaped by a backslash that is not.
LEMMA EscapedStep ==
  ASSUME NEW s, NEW i \in Nat \ {0}
  PROVE  /\ ~Escaped(s, 1)
         /\ Escaped(s, i + 1) <=> s[i] = Backslash /\ ~Escaped(s, i)
<1>1. ~Escaped(s, 1)
  BY DEF Escaped
<1>2. PICK n \in Nat : Run(s, i, n)
  BY RunExists
<1>3. Escaped(s, i) <=> n % 2 = 1
  BY <1>2, EscapedByRun
<1>4. n \in 0..(i - 1) /\ i + 1 \in Nat \ {0}
  BY <1>2 DEF Run
<1>5. CASE s[i] = Backslash
  <2>1. (i + 1) - (n + 1) = i - n /\ (i + 1) - 1 = i /\ (i + 1) - (n + 1) - 1 = i - n - 1
    BY <1>4
  <2>2. \A j \in (i - n)..i : j \in (i - n)..(i - 1) \/ j = i
    BY <1>4
  <2>3. n + 1 \in 0..i /\ (n + 1 < i => n < i - 1)
    BY <1>4
  <2>4. Run(s, i + 1, n + 1)
    BY <1>2, <1>5, <2>1, <2>2, <2>3 DEF Run
  <2>5. Escaped(s, i + 1) <=> (n + 1) % 2 = 1
    BY <1>4, <2>4, EscapedByRun
  <2>6. (n + 1) % 2 = 1 <=> ~(n % 2 = 1)
    BY <1>2
  <2> QED
    BY <1>1, <1>3, <1>5, <2>5, <2>6
<1>6. CASE s[i] # Backslash
  <2>1. (i + 1) - 0 - 1 = i /\ 0 \in 0..((i + 1) - 1) /\ ((i + 1) - 0)..((i + 1) - 1) = {}
    OBVIOUS
  <2>2. Run(s, i + 1, 0)
    BY <1>6, <2>1 DEF Run
  <2>3. Escaped(s, i + 1) <=> 0 % 2 = 1
    BY <1>4, <2>2, EscapedByRun
  <2> QED
    BY <1>1, <1>6, <2>3
<1> QED
  BY <1>5, <1>6

\* Quotes that are not escaped begin and end strings.
LEMMA QuotedStep ==
  ASSUME NEW s, NEW i \in Nat \ {0}
  PROVE  /\ ~Quoted(s, 1)
         /\ Quoted(s, i + 1) <=> IF s[i] = Quote /\ ~Escaped(s, i) THEN ~Quoted(s, i) ELSE Quoted(s, i)
<1> DEFINE Q(k)  == {j \in 1..(k - 1) : s[j] = Quote /\ ~Escaped(s, j)}
<1>1. \A k : Quoted(s, k) <=> Cardinality(Q(k)) % 2 = 1
  BY DEF Quoted
<1>2. IsFiniteSet(Q(i)) /\ Cardinality(Q(i)) \in Nat
  <2>1. IsFiniteSet(1..(i - 1)) /\ Q(i) \in SUBSET (1..(i - 1))
    BY FS_Interval
  <2> HIDE DEF Q
  <2> QED
    BY <2>1, FS_Subset, FS_CardinalityType
<1>3. Q(1) = {} /\ i \notin Q(i)
  OBVIOUS
<1>4. Q(i + 1) = IF s[i] = Quote /\ ~Escaped(s, i) THEN Q(i) \cup {i} ELSE Q(i)
  <2>1. \A j : j \in 1..((i + 1) - 1) <=> j \in 1..(i - 1) \/ j = i
    OBVIOUS
  <2> QED
    BY <2>1
<1> HIDE DEF Q
<1>5. Cardinality(Q(i) \cup {i}) = Cardinality(Q(i)) + 1
  BY <1>2, <1>3, FS_AddElement
<1>6. ~Quoted(s, 1)
  <2>1. Cardinality(Q(1)) = 0
    BY <1>3, FS_EmptySet
  <2> QED
    BY <1>1, <2>1
<1>7. (Cardinality(Q(i)) + 1) % 2 = 1 <=> ~(Cardinality(Q(i)) % 2 = 1)
  BY <1>2
<1> QED
  BY <1>1, <1>4, <1>5, <1>6, <1>7

\* The places of a character up to one place more.
LEMMA PlacesStep ==
  ASSUME NEW s, NEW n \in Nat, NEW char
  PROVE  /\ Cardinality(Places(s, 0, char)) = 0
         /\ Cardinality(Places(s, n, char)) \in Nat
         /\ Cardinality(Places(s, n + 1, char)) =
              Cardinality(Places(s, n, char)) + (IF s[n + 1] = char /\ ~Quoted(s, n + 1) THEN 1 ELSE 0)
<1> DEFINE P(k) == Places(s, k, char)
<1>1. IsFiniteSet(P(n)) /\ Cardinality(P(n)) \in Nat
  <2>1. IsFiniteSet(1..n) /\ P(n) \in SUBSET (1..n)
    BY FS_Interval DEF Places
  <2> HIDE DEF P
  <2> QED
    BY <2>1, FS_Subset, FS_CardinalityType
<1>2. P(0) = {} /\ n + 1 \notin P(n)
  BY DEF Places
<1>3. P(n + 1) = IF s[n + 1] = char /\ ~Quoted(s, n + 1) THEN P(n) \cup {n + 1} ELSE P(n)
  <2>1. \A j : j \in 1..(n + 1) <=> j \in 1..n \/ j = n + 1
    OBVIOUS
  <2> QED
    BY <2>1 DEF Places
<1> HIDE DEF P
<1>4. Cardinality(P(n) \cup {n + 1}) = Cardinality(P(n)) + 1
  BY <1>1, <1>2, FS_AddElement
<1>5. Cardinality(P(0)) = 0
  BY <1>2, FS_EmptySet
<1> QED
  BY <1>1, <1>3, <1>4, <1>5 DEF P

\* The characters the scan tells apart are not the same.
LEMMA CharsDiffer ==
  /\ LeftBrace # RightBrace /\ LeftBrace # Quote /\ LeftBrace # Backslash
  /\ RightBrace # Quote /\ RightBrace # Backslash /\ Quote # Backslash
BY Zenon DEF LeftBrace, RightBrace, Quote, Backslash

\* A brace outside strings opens a block or closes one.
LEMMA DepthStep ==
  ASSUME NEW s, NEW n \in Nat
  PROVE  /\ Depth(s, 0) = 0 /\ Depth(s, n) \in Int
         /\ Depth(s, n + 1) = IF Quoted(s, n + 1) THEN Depth(s, n)
                              ELSE IF s[n + 1] = LeftBrace THEN Depth(s, n) + 1
                              ELSE IF s[n + 1] = RightBrace THEN Depth(s, n) - 1
                              ELSE Depth(s, n)
<1> DEFINE Open(k)   == Cardinality(Places(s, k, LeftBrace))
           Closed(k) == Cardinality(Places(s, k, RightBrace))
<1>1. /\ Open(0) = 0 /\ Open(n) \in Nat
      /\ Open(n + 1) = Open(n) + (IF s[n + 1] = LeftBrace /\ ~Quoted(s, n + 1) THEN 1 ELSE 0)
  BY PlacesStep
<1>2. /\ Closed(0) = 0 /\ Closed(n) \in Nat
      /\ Closed(n + 1) = Closed(n) + (IF s[n + 1] = RightBrace /\ ~Quoted(s, n + 1) THEN 1 ELSE 0)
  BY PlacesStep
<1>3. \A k : Depth(s, k) = Open(k) - Closed(k)
  BY DEF Depth
<1> HIDE DEF Open, Closed
<1>4. Depth(s, 0) = 0 /\ Depth(s, n) \in Int
  BY <1>1, <1>2, <1>3
<1>5. CASE Quoted(s, n + 1)
  <2>1. Open(n + 1) = Open(n) /\ Closed(n + 1) = Closed(n)
    BY <1>1, <1>2, <1>5
  <2> QED
    BY <1>3, <1>4, <1>5, <2>1
<1>6. CASE ~Quoted(s, n + 1) /\ s[n + 1] = LeftBrace
  <2>1. Open(n + 1) = Open(n) + 1 /\ Closed(n + 1) = Closed(n)
    BY <1>1, <1>2, <1>6, CharsDiffer
  <2> QED
    BY <1>1, <1>2, <1>3, <1>4, <1>6, <2>1
<1>7. CASE ~Quoted(s, n + 1) /\ s[n + 1] = RightBrace
  <2>1. Open(n + 1) = Open(n) /\ Closed(n + 1) = Closed(n) + 1
    BY <1>1, <1>2, <1>7, CharsDiffer
  <2> QED
    BY <1>1, <1>2, <1>3, <1>4, <1>7, <2>1, CharsDiffer
<1>8. CASE ~Quoted(s, n + 1) /\ s[n + 1] \notin {LeftBrace, RightBrace}
  <2>1. Open(n + 1) = Open(n) /\ Closed(n + 1) = Closed(n)
    BY <1>1, <1>2, <1>8
  <2> QED
    BY <1>3, <1>4, <1>8, <2>1
<1> QED
  BY <1>5, <1>6, <1>7, <1>8

-----------------------------------------------------------------------------
(* The scan, character by character *)

Scan == [read: Nat, depth: Int, inString: BOOLEAN, escape: BOOLEAN, closed: BOOLEAN]

\* A scan stays one.
LEMMA ScanType ==
  ASSUME NEW scan \in Scan, NEW char
  PROVE  ScanChar(scan, char) \in Scan
<1> DEFINE next == [scan EXCEPT !.read = @ + 1]
<1>1. next \in Scan /\ next.depth \in Int /\ next.inString \in BOOLEAN
  BY DEF Scan
<1> HIDE DEF next
<1>2. [next EXCEPT !.escape = FALSE] \in Scan /\ [next EXCEPT !.escape = TRUE] \in Scan
  BY <1>1 DEF Scan
<1>3. [next EXCEPT !.inString = ~@] \in Scan
  <2>1. (~next.inString) \in BOOLEAN
    BY <1>1
  <2> QED
    BY <1>1, <2>1 DEF Scan
<1>4. [next EXCEPT !.depth = @ + 1] \in Scan
  BY <1>1 DEF Scan
<1>5. [next EXCEPT !.depth = @ - 1, !.closed = scan.depth = 1] \in Scan
  <2> DEFINE closed == scan.depth = 1
  <2>1. closed \in BOOLEAN
    OBVIOUS
  <2> HIDE DEF closed
  <2> DEFINE less == next.depth - 1
  <2>2. less \in Int
    BY <1>1
  <2> HIDE DEF less
  <2>3. [next EXCEPT !.depth = less, !.closed = closed] \in Scan
    BY Zenon, <1>1, <2>1, <2>2 DEF Scan
  <2>4. [next EXCEPT !.depth = @ - 1, !.closed = closed] \in Scan
    BY <2>3 DEF less
  <2> QED
    BY <2>4 DEF closed
<1>6. ScanChar(scan, char) =
        IF scan.closed THEN scan
        ELSE IF scan.escape THEN [next EXCEPT !.escape = FALSE]
        ELSE IF char = Backslash THEN [next EXCEPT !.escape = TRUE]
        ELSE IF char = Quote THEN [next EXCEPT !.inString = ~@]
        ELSE IF scan.inString THEN next
        ELSE IF char = LeftBrace THEN [next EXCEPT !.depth = @ + 1]
        ELSE IF char = RightBrace THEN [next EXCEPT !.depth = @ - 1, !.closed = scan.depth = 1]
        ELSE next
  BY DEF ScanChar, next
<1> QED
  BY Zenon, <1>1, <1>2, <1>3, <1>4, <1>5, <1>6

\* A set of numbers up to n that is not empty has a greatest one.
LEMMA GreatestNatural ==
  ASSUME NEW n \in Nat, NEW S \in SUBSET (1..n), S # {}
  PROVE  Max(S) \in S /\ \A k \in S : k <= Max(S)
<1> DEFINE T == {n - k : k \in S}
<1>0. PICK x \in S : \A k \in S : k \in 1..n
  OBVIOUS
<1>1. T \subseteq Nat /\ T # {}
  <2>1. n - x \in T
    OBVIOUS
  <2>2. \A k \in S : n - k \in Nat
    BY <1>0
  <2> QED
    BY <2>1, <2>2
<1>2. PICK d \in T : \A e \in T : d <= e
  BY <1>1, LeastNatural
<1>3. PICK m \in S : d = n - m
  BY <1>2
<1>4. \A k \in S : m >= k
  <2> SUFFICES ASSUME NEW k \in S PROVE m >= k
    OBVIOUS
  <2>1. n - m <= n - k
    BY <1>2, <1>3
  <2>2. k \in 1..n /\ m \in 1..n
    BY <1>3
  <2> QED
    BY <2>1, <2>2
<1>5. Max(S) \in S /\ \A k \in S : Max(S) >= k
  BY <1>3, <1>4 DEF Max
<1>6. \A k \in S : k \in Int
  BY <1>0
<1> QED
  BY <1>5, <1>6

\* What FoldLeft iterates.
ScanSteps(text) ==
  CHOOSE h : h = [s \in SUBSET (DOMAIN text) |->
                    IF s = {} THEN StartOfScan ELSE ScanChar(h[s \ {Max(s)}], text[Max(s)])]

\* The scan of a text is taken from there.
LEMMA ScanIsOfSteps ==
  ASSUME NEW text
  PROVE  FoldLeft(ScanChar, StartOfScan, text) = ScanSteps(text)[DOMAIN text]
BY DEF FoldLeft, MapThenFoldSet, ScanSteps

\* What the scan knows after each character: what it knew before it, and the
\* character.
LEMMA ScanTrace ==
  ASSUME NEW text \in Seq(Char)
  PROVE  \E t \in [0..Len(text) -> Scan] :
           /\ t[0] = StartOfScan
           /\ \A k \in 1..Len(text) : t[k] = ScanChar(t[k - 1], text[k])
           /\ t[Len(text)] = FoldLeft(ScanChar, StartOfScan, text)
<1> DEFINE n    == Len(text)
           S    == DOMAIN text
           c    == [s \in SUBSET S |-> Max(s)]
           G    == [p \in S \X Scan |-> ScanChar(p[2], text[p[1]])]
           T(h) == [s \in SUBSET S |->
                      IF s = {} THEN StartOfScan ELSE ScanChar(h[s \ {Max(s)}], text[Max(s)])]
<1>1. n \in Nat /\ S = 1..n
  OBVIOUS
<1>2. IsFiniteSet(S)
  BY <1>1, FS_Interval
<1> HIDE DEF n, S
<1>3. \A s \in SUBSET S : s # {} => Max(s) \in s
  BY <1>1, GreatestNatural
<1>4. \A s \in SUBSET S : s # {} => c[s] = Max(s) /\ c[s] \in s
  BY <1>3
<1>5. StartOfScan \in Scan
  BY DEF StartOfScan, Scan
<1>6. G \in [S \X Scan -> Scan]
  BY ScanType
<1>7. \A x \in S, v \in Scan : G[<<x, v>>] = ScanChar(v, text[x])
  OBVIOUS
<1> HIDE DEF c, G
<1>8. PICK h \in [SUBSET S -> Scan] : IsFold(h, S, StartOfScan, G, c)
  BY <1>2, <1>4, <1>5, <1>6, FoldExists
<1>9. h = T(h)
  <2>1. h[{}] = StartOfScan
    BY <1>8 DEF IsFold
  <2>2. ASSUME NEW s \in SUBSET S, s # {}
        PROVE  h[s] = ScanChar(h[s \ {Max(s)}], text[Max(s)])
    <3>1. Max(s) \in S /\ s \ {Max(s)} \in SUBSET S
      BY <1>3, <2>2
    <3>2. h[s \ {Max(s)}] \in Scan
      BY <1>8, <3>1
    <3>3. h[s] = G[<<Max(s), h[s \ {Max(s)}]>>]
      BY <1>4, <1>8, <2>2 DEF IsFold
    <3> QED
      BY <1>7, <3>1, <3>2, <3>3
  <2> QED
    BY <1>8, <2>1, <2>2
<1> DEFINE g == ScanSteps(text)
<1>10. g = T(g)
  <2> DEFINE Eq(f) == f = T(f)
  <2>1. g = CHOOSE f : Eq(f)
    BY DEF ScanSteps, S
  <2>2. Eq(h)
    BY <1>9
  <2> HIDE DEF Eq, g
  <2>3. Eq(CHOOSE f : Eq(f))
    BY <2>2
  <2> QED
    BY <2>1, <2>3 DEF Eq
<1>11. FoldLeft(ScanChar, StartOfScan, text) = g[1..n]
  BY <1>1, ScanIsOfSteps DEF S
<1> HIDE DEF g
<1> DEFINE t == [k \in 0..n |-> g[1..k]]
<1>12. t[0] = StartOfScan
  <2>1. 1..0 = {} /\ {} \in SUBSET S
    OBVIOUS
  <2>2. g[{}] = StartOfScan
    BY <1>10, <2>1
  <2> QED
    BY <1>1, <2>1, <2>2
<1>13. ASSUME NEW k \in 1..n
       PROVE  t[k] = ScanChar(t[k - 1], text[k])
  <2>1. 1..k \in SUBSET S /\ 1..k # {} /\ (1..k) \ {k} = 1..(k - 1) /\ k - 1 \in 0..n /\ k \in 0..n
    BY <1>1
  <2>2. Max(1..k) = k
    <3>1. k \in Nat /\ k \in 1..k
      BY <1>1
    <3>2. Max(1..k) \in 1..k /\ k <= Max(1..k)
      <4> DEFINE K == 1..k
      <4>1. K \in SUBSET (1..k) /\ K # {}
        BY <3>1
      <4> HIDE DEF K
      <4>2. Max(K) \in K /\ \A j \in K : j <= Max(K)
        BY <3>1, <4>1, GreatestNatural
      <4> QED
        BY <3>1, <4>2 DEF K
    <3> QED
      BY <3>1, <3>2
  <2>3. g[1..k] = ScanChar(g[(1..k) \ {Max(1..k)}], text[Max(1..k)])
    BY <1>10, <2>1
  <2> QED
    BY <2>1, <2>2, <2>3
<1> DEFINE good == {k \in Nat : k <= n => t[k] \in Scan}
<1>14. 0 \in good
  BY <1>5, <1>12
<1>15. ASSUME NEW k \in 0..(n - 1), k \in good
       PROVE  k + 1 \in good
  <2>1. t[k] \in Scan
    BY <1>1, <1>15
  <2>2. k + 1 \in 1..n /\ (k + 1) - 1 = k /\ k + 1 \in Nat
    BY <1>1
  <2> HIDE DEF t
  <2>3. t[k + 1] = ScanChar(t[k], text[k + 1])
    BY <1>13, <2>2
  <2> QED
    BY <2>1, <2>2, <2>3, ScanType
<1>16. \A k \in 0..n : t[k] \in Scan
  <2> HIDE DEF t, good
  <2>1. \A k \in 0..n : k \in good
    BY <1>1, <1>14, <1>15, InductionUpTo
  <2> QED
    BY <1>1, <2>1 DEF good
<1>17. t \in [0..n -> Scan]
  BY <1>16
<1>18. t[n] = FoldLeft(ScanChar, StartOfScan, text)
  BY <1>1, <1>11
<1> HIDE DEF t
<1> QED
  BY <1>12, <1>13, <1>17, <1>18 DEF n

-----------------------------------------------------------------------------
(* The scan of an object *)

\* What ScanChar makes of each character while the first brace is open.
LEMMA ScanMoves ==
  ASSUME NEW v \in Scan, ~v.closed, NEW char, NEW w, w = ScanChar(v, char)
  PROVE  /\ w.read = v.read + 1
         /\ w.escape <=> ~v.escape /\ char = Backslash
         /\ w.inString <=> IF ~v.escape /\ char = Quote THEN ~v.inString ELSE v.inString
         /\ w.depth = IF v.escape \/ v.inString \/ char \notin {LeftBrace, RightBrace} THEN v.depth
                      ELSE IF char = LeftBrace THEN v.depth + 1 ELSE v.depth - 1
         /\ w.closed <=> ~v.escape /\ ~v.inString /\ char = RightBrace /\ v.depth = 1
<1> DEFINE next == [v EXCEPT !.read = @ + 1]
<1>1. /\ next.read = v.read + 1 /\ next.escape = v.escape /\ next.inString = v.inString
      /\ next.depth = v.depth /\ next.closed = v.closed /\ next \in Scan
      /\ v.escape \in BOOLEAN /\ v.inString \in BOOLEAN /\ v.depth \in Int
  BY DEF Scan
<1>2. w = IF v.escape THEN [next EXCEPT !.escape = FALSE]
          ELSE IF char = Backslash THEN [next EXCEPT !.escape = TRUE]
          ELSE IF char = Quote THEN [next EXCEPT !.inString = ~@]
          ELSE IF v.inString THEN next
          ELSE IF char = LeftBrace THEN [next EXCEPT !.depth = @ + 1]
          ELSE IF char = RightBrace THEN [next EXCEPT !.depth = @ - 1, !.closed = v.depth = 1]
          ELSE next
  BY Zenon DEF ScanChar
<1> HIDE DEF next
<1>3. CASE v.escape
  <2>1. w = [next EXCEPT !.escape = FALSE]
    BY <1>2, <1>3
  <2> QED
    BY <1>1, <1>3, <2>1 DEF Scan
<1>4. CASE ~v.escape /\ char = Backslash
  <2>1. w = [next EXCEPT !.escape = TRUE]
    BY <1>2, <1>4
  <2> QED
    BY <1>1, <1>4, <2>1, CharsDiffer DEF Scan
<1>5. CASE ~v.escape /\ char = Quote
  <2>1. w = [next EXCEPT !.inString = ~@]
    BY <1>2, <1>5, CharsDiffer
  <2> QED
    BY <1>1, <1>5, <2>1, CharsDiffer DEF Scan
<1>6. CASE ~v.escape /\ char \notin {Backslash, Quote} /\ v.inString
  <2>1. w = next
    BY <1>2, <1>6
  <2> QED
    BY <1>1, <1>6, <2>1
<1>7. CASE ~v.escape /\ char = LeftBrace /\ ~v.inString
  <2>1. w = [next EXCEPT !.depth = @ + 1]
    BY <1>2, <1>7, CharsDiffer
  <2> QED
    BY <1>1, <1>7, <2>1, CharsDiffer DEF Scan
<1>8. CASE ~v.escape /\ char = RightBrace /\ ~v.inString
  <2>1. w = [next EXCEPT !.depth = @ - 1, !.closed = v.depth = 1]
    BY <1>2, <1>8, CharsDiffer
  <2> QED
    BY <1>1, <1>8, <2>1, CharsDiffer DEF Scan
<1>9. CASE ~v.escape /\ char \notin {Backslash, Quote, LeftBrace, RightBrace} /\ ~v.inString
  <2>1. w = next
    BY <1>2, <1>9
  <2> QED
    BY <1>1, <1>9, <2>1
<1> QED
  BY <1>3, <1>4, <1>5, <1>6, <1>7, <1>8, <1>9

\* What the scan v knows after n characters of an object s that goes on.
Knows(v, s, n) ==
  /\ v \in Scan
  /\ v.read = n
  /\ v.depth = Depth(s, n)
  /\ v.inString <=> Quoted(s, n + 1)
  /\ v.escape <=> Escaped(s, n + 1)
  /\ ~v.closed

\* An escaped character of an object is in a string.
LEMMA EscapedIsQuoted ==
  ASSUME NEW s, NEW i \in Nat \ {0}, Escaped(s, i),
         \A j \in 1..(i - 1) : s[j] = Backslash => Quoted(s, j)
  PROVE  Quoted(s, i)
<1>1. i # 1 /\ i - 1 \in Nat \ {0} /\ i - 1 \in 1..(i - 1) /\ (i - 1) + 1 = i
  BY EscapedStep
<1>2. s[i - 1] = Backslash
  <2>1. Escaped(s, (i - 1) + 1) <=> s[i - 1] = Backslash /\ ~Escaped(s, i - 1)
    BY <1>1, EscapedStep
  <2> QED
    BY <1>1, <2>1
<1>3. Quoted(s, (i - 1) + 1) <=> Quoted(s, i - 1)
  <2>1. s[i - 1] # Quote
    BY <1>2, CharsDiffer
  <2> QED
    BY <1>1, <2>1, QuotedStep
<1> QED
  BY <1>1, <1>2, <1>3

\* The scan goes on to know each character of an object but its last brace, and
\* there it is closed.
LEMMA KnowsStep ==
  ASSUME NEW s, NEW n \in Nat, \A j \in 1..(n + 1) : s[j] = Backslash => Quoted(s, j),
         NEW v, Knows(v, s, n), NEW w, w = ScanChar(v, s[n + 1])
  PROVE  /\ w.read = n + 1
         /\ w.closed <=> ~Quoted(s, n + 1) /\ s[n + 1] = RightBrace /\ Depth(s, n) = 1
         /\ ~w.closed => Knows(w, s, n + 1)
<1> DEFINE char == s[n + 1]
           q    == Quoted(s, n + 1)
           e    == Escaped(s, n + 1)
           d    == Depth(s, n)
           q2   == Quoted(s, (n + 1) + 1)
           e2   == Escaped(s, (n + 1) + 1)
           d2   == Depth(s, n + 1)
<1>1. n + 1 \in Nat \ {0} /\ n + 1 \in 1..(n + 1) /\ 1..((n + 1) - 1) \subseteq 1..(n + 1)
  OBVIOUS
<1>2. e2 <=> char = Backslash /\ ~e
  BY <1>1, EscapedStep
<1>3. q2 <=> IF char = Quote /\ ~e THEN ~q ELSE q
  BY <1>1, QuotedStep
<1>4. d \in Int /\ d2 = IF q THEN d ELSE IF char = LeftBrace THEN d + 1
                        ELSE IF char = RightBrace THEN d - 1 ELSE d
  BY DepthStep
<1>5. e => q
  BY <1>1, EscapedIsQuoted
<1>6. /\ v \in Scan /\ v.read = n /\ v.depth = d
      /\ v.inString <=> q
      /\ v.escape <=> e
      /\ ~v.closed
  BY DEF Knows
<1>7. w = ScanChar(v, char)
  OBVIOUS
<1>8. /\ w.read = v.read + 1
      /\ w.escape <=> ~v.escape /\ char = Backslash
      /\ w.inString <=> IF ~v.escape /\ char = Quote THEN ~v.inString ELSE v.inString
      /\ w.depth = IF v.escape \/ v.inString \/ char \notin {LeftBrace, RightBrace} THEN v.depth
                   ELSE IF char = LeftBrace THEN v.depth + 1 ELSE v.depth - 1
      /\ w.closed <=> ~v.escape /\ ~v.inString /\ char = RightBrace /\ v.depth = 1
  BY <1>6, <1>7, ScanMoves
<1>9. w \in Scan
  BY <1>6, <1>7, ScanType
<1> HIDE DEF char, q, e, d, q2, e2, d2
<1>10. w.read = n + 1
  BY <1>6, <1>8
<1>11. w.closed <=> ~q /\ char = RightBrace /\ d = 1
  BY <1>5, <1>6, <1>8
<1>12. (w.escape <=> e2) /\ (w.inString <=> q2)
  BY <1>2, <1>3, <1>6, <1>8
<1>13. w.depth = d2
  BY <1>4, <1>5, <1>6, <1>8
<1> QED
  BY <1>9, <1>10, <1>11, <1>12, <1>13 DEF Knows, char, q, e, d, q2, e2, d2

\* The scan of a text that an object begins ends where the object does.
LEMMA ObjectScanned ==
  ASSUME NEW text \in Seq(Char), NEW stop \in 1..Len(text), NEW o,
         o = SubSeq(text, 1, stop), Balanced(o)
  PROVE  /\ FoldLeft(ScanChar, StartOfScan, text).closed
         /\ FoldLeft(ScanChar, StartOfScan, text).read = stop
<1>1. Len(text) \in Nat /\ stop \in Nat /\ stop <= Len(text)
  OBVIOUS
<1>2. Len(o) = stop /\ DOMAIN o = 1..stop /\ \A j \in 1..stop : o[j] = text[j]
  OBVIOUS
<1>3. /\ o[1] = LeftBrace
      /\ \A j \in 1..stop : o[j] = Backslash => Quoted(o, j)
      /\ \A n \in 1..(stop - 1) : Depth(o, n) > 0
      /\ Depth(o, stop) = 0
  BY <1>2 DEF Balanced
<1>4. PICK t \in [0..Len(text) -> Scan] :
        /\ t[0] = StartOfScan
        /\ \A k \in 1..Len(text) : t[k] = ScanChar(t[k - 1], text[k])
        /\ t[Len(text)] = FoldLeft(ScanChar, StartOfScan, text)
  BY ScanTrace
<1>5. ASSUME NEW k \in 0..(stop - 1), Knows(t[k], o, k)
      PROVE  /\ t[k + 1].read = k + 1
             /\ t[k + 1].closed <=> ~Quoted(o, k + 1) /\ o[k + 1] = RightBrace /\ Depth(o, k) = 1
             /\ ~t[k + 1].closed => Knows(t[k + 1], o, k + 1)
  <2>1. /\ k \in Nat /\ k + 1 \in 1..Len(text) /\ k + 1 \in 1..stop
        /\ (k + 1) - 1 = k /\ 1..(k + 1) \subseteq 1..stop
    BY <1>1
  <2>2. t[k + 1] = ScanChar(t[k], o[k + 1])
    BY <1>2, <1>4, <2>1
  <2>3. \A j \in 1..(k + 1) : o[j] = Backslash => Quoted(o, j)
    BY <1>3, <2>1
  <2> DEFINE v == t[k]
             w == t[k + 1]
  <2>4. Knows(v, o, k) /\ w = ScanChar(v, o[k + 1])
    BY <1>5, <2>2
  <2> HIDE DEF v, w
  <2>5. /\ w.read = k + 1
        /\ w.closed <=> ~Quoted(o, k + 1) /\ o[k + 1] = RightBrace /\ Depth(o, k) = 1
        /\ ~w.closed => Knows(w, o, k + 1)
    BY ONLY <2>1, <2>3, <2>4, KnowsStep
  <2> QED
    BY <2>5 DEF w
<1> DEFINE known == {k \in Nat : k < stop => Knows(t[k], o, k)}
<1>6. 0 \in known
  <2>1. Depth(o, 0) = 0 /\ ~Quoted(o, 0 + 1) /\ ~Escaped(o, 0 + 1)
    BY DepthStep, QuotedStep, EscapedStep
  <2>2. /\ StartOfScan.read = 0 /\ StartOfScan.depth = 0
        /\ ~StartOfScan.inString /\ ~StartOfScan.escape /\ ~StartOfScan.closed
    BY DEF StartOfScan
  <2>3. t[0] \in Scan /\ t[0] = StartOfScan
    BY <1>1, <1>4
  <2>4. Knows(t[0], o, 0)
    BY <2>1, <2>2, <2>3 DEF Knows
  <2> QED
    BY <2>4
<1>7. ASSUME NEW k \in 0..((stop - 1) - 1), k \in known
      PROVE  k + 1 \in known
  <2>1. k \in 0..(stop - 1) /\ k + 1 \in 1..(stop - 1) /\ k \in Nat
    BY <1>1
  <2>2. Depth(o, k + 1) > 0
    BY <1>3, <2>1
  <2>3. ~(~Quoted(o, k + 1) /\ o[k + 1] = RightBrace /\ Depth(o, k) = 1)
    <3>1. Depth(o, k + 1) = IF Quoted(o, k + 1) THEN Depth(o, k)
                            ELSE IF o[k + 1] = LeftBrace THEN Depth(o, k) + 1
                            ELSE IF o[k + 1] = RightBrace THEN Depth(o, k) - 1
                            ELSE Depth(o, k)
      BY <2>1, DepthStep
    <3> QED
      BY <2>2, <3>1, CharsDiffer
  <2>4. Knows(t[k], o, k)
    BY <1>7, <2>1
  <2>5. Knows(t[k + 1], o, k + 1)
    BY <1>5, <2>1, <2>3, <2>4
  <2> QED
    BY <2>1, <2>5
<1>8. Knows(t[stop - 1], o, stop - 1)
  <2>1. stop - 1 \in Nat
    BY <1>1
  <2> HIDE DEF known
  <2>2. \A k \in 0..(stop - 1) : k \in known
    BY <1>6, <1>7, <2>1, InductionUpTo
  <2> QED
    BY <2>1, <2>2 DEF known
<1> DEFINE m == stop - 1
<1>9. m \in 0..(stop - 1) /\ m \in Nat /\ m + 1 = stop
  BY <1>1
<1>10. ~Quoted(o, stop) /\ o[stop] = RightBrace /\ Depth(o, m) = 1
  <2>1. Depth(o, m) > 0
    <3>1. CASE m = 0
      <4>1. Depth(o, 0) = 0 /\ ~Quoted(o, 1)
        BY DepthStep, QuotedStep
      <4>2. Depth(o, 0 + 1) = IF Quoted(o, 0 + 1) THEN Depth(o, 0)
                              ELSE IF o[0 + 1] = LeftBrace THEN Depth(o, 0) + 1
                              ELSE IF o[0 + 1] = RightBrace THEN Depth(o, 0) - 1
                              ELSE Depth(o, 0)
        BY DepthStep
      <4>3. Depth(o, 1) = 1
        BY <1>3, <4>1, <4>2
      <4> QED
        BY <1>3, <1>9, <3>1, <4>3
    <3>2. CASE m # 0
      BY <1>3, <1>9, <3>2
    <3> QED
      BY <3>1, <3>2
  <2>2. Depth(o, m) \in Int /\
        Depth(o, m + 1) = IF Quoted(o, m + 1) THEN Depth(o, m)
                          ELSE IF o[m + 1] = LeftBrace THEN Depth(o, m) + 1
                          ELSE IF o[m + 1] = RightBrace THEN Depth(o, m) - 1
                          ELSE Depth(o, m)
    BY <1>9, DepthStep
  <2> HIDE DEF m
  <2> QED
    BY <1>3, <1>9, <2>1, <2>2
<1>11. t[stop].closed /\ t[stop].read = stop
  BY <1>5, <1>8, <1>9, <1>10
<1> DEFINE rest == {k \in Nat : stop + k <= Len(text) => t[stop + k] = t[stop]}
<1>12. 0 \in rest
  BY <1>1
<1>13. ASSUME NEW k \in 0..((Len(text) - stop) - 1), k \in rest
       PROVE  k + 1 \in rest
  <2>1. /\ k \in Nat /\ k + 1 \in Nat /\ stop + k <= Len(text)
        /\ stop + (k + 1) \in 1..Len(text) /\ (stop + (k + 1)) - 1 = stop + k
    BY <1>1
  <2>2. t[stop + k] = t[stop]
    BY <1>13, <2>1
  <2>3. t[stop + (k + 1)] = ScanChar(t[stop], text[stop + (k + 1)])
    BY <1>4, <2>1, <2>2
  <2>4. ScanChar(t[stop], text[stop + (k + 1)]) = t[stop]
    BY <1>11 DEF ScanChar
  <2> QED
    BY <2>1, <2>3, <2>4
<1>14. t[Len(text)] = t[stop]
  <2>1. Len(text) - stop \in Nat /\ stop + (Len(text) - stop) = Len(text)
    BY <1>1
  <2> HIDE DEF rest
  <2>2. \A k \in 0..(Len(text) - stop) : k \in rest
    BY <1>12, <1>13, <2>1, InductionUpTo
  <2>3. Len(text) - stop \in rest
    BY <2>1, <2>2
  <2> QED
    BY <1>1, <2>1, <2>3 DEF rest
<1> QED
  BY <1>4, <1>11, <1>14

\* The scan reads no more than there is.
LEMMA ScanReads ==
  ASSUME NEW text \in Seq(Char)
  PROVE  FoldLeft(ScanChar, StartOfScan, text).read \in 0..Len(text)
<1>1. Len(text) \in Nat
  OBVIOUS
<1>2. PICK t \in [0..Len(text) -> Scan] :
        /\ t[0] = StartOfScan
        /\ \A k \in 1..Len(text) : t[k] = ScanChar(t[k - 1], text[k])
        /\ t[Len(text)] = FoldLeft(ScanChar, StartOfScan, text)
  BY ScanTrace
<1> DEFINE good == {k \in Nat : k <= Len(text) => t[k].read \in 0..k}
<1>3. 0 \in good
  <2>1. t[0].read = 0
    BY <1>2 DEF StartOfScan
  <2> QED
    BY <2>1
<1>4. ASSUME NEW k \in 0..(Len(text) - 1), k \in good
      PROVE  k + 1 \in good
  <2>1. k \in Nat /\ k \in 0..Len(text) /\ k + 1 \in 1..Len(text) /\ (k + 1) - 1 = k
    BY <1>1
  <2>2. t[k] \in Scan /\ t[k].read \in 0..k
    BY <1>2, <1>4, <2>1
  <2>3. t[k + 1] = ScanChar(t[k], text[k + 1])
    BY <1>2, <2>1
  <2>4. CASE t[k].closed
    <3>1. t[k + 1] = t[k]
      BY <2>3, <2>4 DEF ScanChar
    <3> QED
      BY <2>1, <2>2, <3>1
  <2>5. CASE ~t[k].closed
    <3>1. t[k + 1].read = t[k].read + 1
      BY <2>2, <2>3, <2>5, ScanMoves
    <3> QED
      BY <2>1, <2>2, <3>1
  <2> QED
    BY <2>4, <2>5
<1>5. Len(text) \in good
  <2> HIDE DEF good
  <2>1. \A k \in 0..Len(text) : k \in good
    BY <1>1, <1>3, <1>4, InductionUpTo
  <2> QED
    BY <1>1, <2>1
<1> QED
  BY <1>1, <1>2, <1>5

-----------------------------------------------------------------------------
(* The first object *)

\* find("{") is the first brace.
LEMMA FirstBrace ==
  ASSUME NEW text \in Seq(Char), NEW start \in 1..Len(text), text[start] = LeftBrace,
         \A i \in 1..(start - 1) : text[i] # LeftBrace
  PROVE  SelectInSeq(text, LAMBDA char : char = LeftBrace) = start
<1> DEFINE I == {i \in 1..Len(text) : text[i] = LeftBrace}
<1>1. Len(text) \in Nat
  OBVIOUS
<1>2. start \in I /\ \A i \in I : start <= i
  BY <1>1
<1>3. \A x \in I : (\A y \in I : x <= y) => x = start
  BY <1>1, <1>2
<1>4. SelectInSeq(text, LAMBDA char : char = LeftBrace) = IF I # {} THEN Min(I) ELSE 0
  BY DEF SelectInSeq
<1> HIDE DEF I
<1>5. Min(I) = start
  BY <1>2, <1>3 DEF Min
<1> QED
  BY <1>2, <1>4, <1>5

\* A block is a part of the text from its first brace on, and is the object that
\* begins there, if one does.
LEMMA BlockOfBrace ==
  ASSUME NEW text \in Seq(Char), NEW start \in 1..Len(text), text[start] = LeftBrace,
         \A i \in 1..(start - 1) : text[i] # LeftBrace
  PROVE  /\ ExtractFirstJsonObject(text) # <<>> =>
              \E stop \in start..Len(text) : ExtractFirstJsonObject(text) = SubSeq(text, start, stop)
         /\ \A stop \in start..Len(text) :
              Balanced(SubSeq(text, start, stop)) =>
                ExtractFirstJsonObject(text) = SubSeq(text, start, stop)
<1> DEFINE rest == SubSeq(text, start, Len(text))
           scan == FoldLeft(ScanChar, StartOfScan, rest)
<1>1. Len(text) \in Nat /\ start \in Nat /\ start # 0 /\ Len(text) \in 1..Len(text)
  OBVIOUS
<1>2. rest \in Seq(Char) /\ Len(rest) = Len(text) - start + 1
  <2>1. \A i \in start..Len(text) : text[i] \in Char
    BY <1>1
  <2> QED
    BY <1>1, <2>1, SubSeqProperties
<1>3. ExtractFirstJsonObject(text) = IF scan.closed THEN SubSeq(rest, 1, scan.read) ELSE <<>>
  BY <1>1, FirstBrace DEF ExtractFirstJsonObject
<1>4. scan.read \in 0..Len(rest)
  BY <1>2, ScanReads
<1>5. \A n \in 1..Len(rest) : SubSeq(rest, 1, n) = SubSeq(text, start, start + n - 1)
  <2> SUFFICES ASSUME NEW n \in 1..Len(rest)
               PROVE  SubSeq(rest, 1, n) = SubSeq(text, start, start + n - 1)
    OBVIOUS
  <2>1. 1 \in 1..(Len(text) - start + 1) /\ n \in 1..(Len(text) - start + 1)
    BY <1>1, <1>2
  <2>2. SubSeq(rest, 1, n) = SubSeq(text, start + 1 - 1, start + n - 1)
    BY <1>1, <2>1, SubSeqOfSubSeq
  <2> QED
    BY <1>1, <2>2
<1> HIDE DEF rest, scan
<1>6. ASSUME ExtractFirstJsonObject(text) # <<>>
      PROVE  \E stop \in start..Len(text) : ExtractFirstJsonObject(text) = SubSeq(text, start, stop)
  <2>1. ExtractFirstJsonObject(text) = SubSeq(rest, 1, scan.read)
    BY <1>3, <1>6
  <2>2. scan.read # 0
    <3>1. SubSeq(rest, 1, 0) = <<>>
      BY SubSeqEmpty
    <3> QED
      BY <1>6, <2>1, <3>1
  <2>3. scan.read \in 1..Len(rest)
    BY <1>1, <1>2, <1>4, <2>2
  <2>4. start + scan.read - 1 \in start..Len(text)
    BY <1>1, <1>2, <2>3
  <2> QED
    BY <1>5, <2>1, <2>3, <2>4
<1>7. ASSUME NEW stop \in start..Len(text), Balanced(SubSeq(text, start, stop))
      PROVE  ExtractFirstJsonObject(text) = SubSeq(text, start, stop)
  <2> DEFINE n == stop - start + 1
  <2>1. n \in 1..Len(rest) /\ start + n - 1 = stop
    BY <1>1, <1>2
  <2>2. SubSeq(rest, 1, n) = SubSeq(text, start, stop)
    BY <1>5, <2>1
  <2> HIDE DEF n
  <2>3. scan.closed /\ scan.read = n
    BY <1>2, <1>7, <2>1, <2>2, ObjectScanned DEF scan
  <2> QED
    BY <1>3, <2>2, <2>3
<1> QED
  BY <1>6, <1>7

=============================================================================
