---------------------------- MODULE MCExtraction ----------------------------
(* An instance of Extraction for TLC. *)
EXTENDS Extraction

\* Each status the code treats differently, with a confidence that does not
\* parse, is below 0, just below the threshold, at it and above 1.
EveryReply ==
  [status:     {"answered", "not_found", "another"},
   candidate:  Candidates,
   evidence:   Evidence,
   confidence: {NotANumber, -3, 5, 6, 13}]

=============================================================================
