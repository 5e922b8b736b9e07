----------------------------- MODULE MCChunking -----------------------------
(* An instance of Chunking for TLC. *)
EXTENDS Chunking, SequencesExt

CONSTANTS TitleA, TitleB, MaxLines

TwoTitles == {TitleA, TitleB}

\* Blank, short, half a chunk, exactly a chunk, and more than a chunk; a heading
\* for each title; and indented lines, one of them with a "#".
LineKinds ==
  [indent: {0}, len: {0, 1, 4, 9, 12}, title: {NoTitle}]
    \cup [indent: {0}, len: {3}, title: TwoTitles]
    \cup {[indent |-> 2, len |-> 3, title |-> TitleA], [indent |-> 2, len |-> 7, title |-> NoTitle]}

SmallTexts == BoundedSeq(LineKinds, MaxLines)

=============================================================================
