------------------------------- MODULE MCApi --------------------------------
(* An instance of Api for TLC. *)
EXTENDS Api

\* The only object the provider writes in this instance: {}.  The replies are {}
\* and }, of which Anthropic's client takes the second for an object and the
\* others the first.
IsEmptyObject(text) == text = <<"{", "}">>
TwoTexts == {<<"{", "}">>, <<"}">>}

SmallAttempts == -1..1

\* An answer that passes, one of low confidence, and one that is none.
ThreeReplies ==
  {[status |-> "answered", candidate |-> "valid", evidence |-> "given", confidence |-> c] :
     c \in {5, 13}}
  \cup {[status |-> "not_found", candidate |-> "null", evidence |-> "none",
         confidence |-> -100]}

\* Two fields with every pair of an omitted id, a name, another one and the
\* names that are generated for them, and with patterns of every kind.
Ids(i, j) == <<[id |-> i, pattern |-> "none"], [id |-> j, pattern |-> "good"]>>
SmallPayloads ==
  [kind: {"not json", "malformed"}, fields: {<<>>}]
  \cup {[kind |-> "form", fields |-> Ids(i, j)] : i, j \in {-2, -1, 0, 1, 2}}
  \cup {[kind |-> "form", fields |-> [Ids(0, 0) EXCEPT ![1].pattern = p, ![2].pattern = q]] :
          p, q \in {"good", "bad", "huge"}}

=============================================================================
