---------------------------- MODULE MCLLMClient -----------------------------
(***************************************************************************)
(* An instance of LLMClient for TLC, with the JSON grammar over the        *)
(* characters of JsonReply.                                                *)
(***************************************************************************)
EXTENDS LLMClient

Text(s) == SubSeq(s, 2, Len(s) - 1)

\* A string: in quotes, and in it no quote but an escaped one, and no other
\* backslash but an escaped one.
RECURSIVE IsStringBody(_)
IsStringBody(s) ==
  \/ s = <<>>
  \/ s[1] \notin {Quote, Backslash} /\ IsStringBody(Tail(s))
  \/ /\ Len(s) > 1 /\ s[1] = Backslash /\ s[2] \in {Quote, Backslash}
     /\ IsStringBody(SubSeq(s, 3, Len(s)))

IsString(s) == Len(s) > 1 /\ s[1] = Quote /\ s[Len(s)] = Quote /\ IsStringBody(Text(s))

IsNumber(s) == s # <<>> /\ \A i \in DOMAIN s : s[i] = "1"

\* Without a comma in the alphabet an object has at most one pair.
RECURSIVE IsJsonObject(_)
IsJsonObject(s) ==
  /\ Len(s) > 1 /\ s[1] = "{" /\ s[Len(s)] = "}"
  /\ \/ Text(s) = <<>>
     \/ \E i \in 2..(Len(s) - 1) :
          LET value == SubSeq(s, i + 1, Len(s) - 1)
          IN /\ s[i] = ":"
             /\ IsString(SubSeq(s, 2, i - 1))
             /\ IsString(value) \/ IsNumber(value) \/ IsJsonObject(value)

Pair(key, value) == <<"{", Quote>> \o key \o <<Quote, ":">> \o value \o <<"}">>

\* Objects with braces, quotes and backslashes in their strings and one in
\* another, an object without its first brace, as Anthropic replies, and what
\* looks like an object and is none.
Cores ==
  {<<>>, <<"{", "}">>, <<"{", "1", "}">>, Tail(Pair(<<"}">>, <<"1">>))}
  \cup {Pair(key, <<"1">>) : key \in {<<"}">>, <<"{">>, <<Backslash, Quote>>,
                                      <<Backslash, Backslash>>, <<Backslash>>}}
  \cup {Pair(<<>>, value) : value \in {<<"{", "}">>, <<Quote, Backslash, Quote, "}", Quote>>}}

SmallTexts ==
  {before \o core \o after : before \in BoundedSeq(Char, 1), core \in Cores,
                             after \in BoundedSeq(Char, 2)}

SmallAttempts == -1..2

=============================================================================
