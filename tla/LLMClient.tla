----------------------------- MODULE LLMClient ------------------------------
(***************************************************************************)
(* generate_json of the three LLM clients (app/llm/ollama.py,              *)
(* openai_compatible.py, anthropic.py): one request after the other to the *)
(* provider until a reply holds a JSON object, the attempts run out or a   *)
(* request fails.  The provider may answer each request in any way.        *)
(*                                                                         *)
(* What a prompt says is left out: it is the original one or a request to  *)
(* repair the reply of a given number.  The text of a reply is kept until  *)
(* the next request is out, for what parse_json_object makes of it.        *)
(***************************************************************************)
EXTENDS JsonReply

CONSTANTS
  Attempts,  \* the values LLM_JSON_REPAIR_ATTEMPTS may have; no code checks it
  Texts      \* the texts the provider may reply with

ASSUME AttemptsAssumption == Attempts \subseteq Int
ASSUME TextsAssumption == Texts \subseteq Seq(Char)

\* What a client may take for raw_response: a text, or one after the brace that
\* Anthropic's request ends with.
Responses == Texts \cup {<<LeftBrace>> \o text : text \in Texts}

\* What json.loads makes a dict of is an object by the grammar of JSON.
ASSUME ObjectsAssumption ==
  \A reply \in Responses : \A start, stop \in DOMAIN reply :
    IsObject(SubSeq(reply, start, stop)) => Balanced(SubSeq(reply, start, stop))

Providers == {"ollama", "openai", "anthropic"}

\* What a request can come to but for a text: the transport or the status code
\* fails; the HTTP body is not JSON; it is JSON without the text where it
\* should be, or with something else there.
Failures == {"http error", "not json", "no text"}

Original  == [kind |-> "original", of |-> 0]
Repair(n) == [kind |-> "repair", of |-> n]

VARIABLES
  provider,  \* the configured provider
  attempts,  \* its json_repair_attempts
  pc,        \* "ask", "await", or how generate_json ended
  prompt,    \* the prompt of the next or the awaited request
  calls,     \* requests made; the n-th request is answered by reply n
  invalid,   \* the replies that held no JSON object
  raw        \* raw_response, and <<>> once the next request is out

vars == <<provider, attempts, pc, prompt, calls, invalid, raw>>

Ended == {"returned", "LLMError", "JSONDecodeError"}

-----------------------------------------------------------------------------
Init ==
  /\ provider \in Providers
  /\ attempts \in Attempts
  /\ pc = "ask"
  /\ prompt = Original
  /\ calls = 0
  /\ invalid = {}
  /\ raw = <<>>

MayAsk_OneMore(p, n) ==  \* mutant: one repair too many
  IF p = "anthropic" THEN n <= attempts ELSE n = 0 \/ n <= attempts + 1

MayAsk_OneLess(p, n) ==  \* mutant: range(1, attempts)
  IF p = "anthropic" THEN n <= attempts ELSE n = 0 \/ n < attempts

\* The loop bounds, after n requests.  Anthropic's loop counts the first
\* request too: with a negative number of attempts it makes none.
MayAsk(p, n) ==
  IF p = "anthropic" THEN n <= attempts ELSE n = 0 \/ n <= attempts

Ask_NotCounting ==  \* mutant: "while parsed is None", only the first request is counted
  /\ pc = "ask"
  /\ pc' = "await"
  /\ calls' = 1
  /\ raw' = <<>>
  /\ UNCHANGED <<provider, attempts, prompt, invalid>>

Ask ==
  /\ pc = "ask"
  /\ IF MayAsk(provider, calls)
     THEN pc' = "await" /\ calls' = calls + 1 /\ raw' = <<>>
     ELSE pc' = "LLMError" /\ UNCHANGED <<calls, raw>>
  /\ UNCHANGED <<provider, attempts, prompt, invalid>>

RepairPrompt_OfNext(p, reply) ==  \* mutant: raw_response is read before it is set
  IF p = "anthropic" THEN Original ELSE Repair(reply + 1)

RepairPrompt_OfFirst(p, reply) ==  \* mutant: every repair starts from the first reply
  IF p = "anthropic" THEN Original ELSE Repair(1)

\* Ollama and OpenAI are sent the invalid reply to repair; Anthropic is asked
\* the original question again.
RepairPrompt(p, reply) == IF p = "anthropic" THEN Original ELSE Repair(reply)

\* Anthropic's reply continues the brace that its request ends with.
RawResponse(p, text) == IF p = "anthropic" THEN <<LeftBrace>> \o text ELSE text

\* response.json() of a body that is not JSON raises JSONDecodeError, which the
\* except clauses for KeyError, TypeError and so on do not name.
ReceiveFailure ==
  /\ pc = "await"
  /\ \E failure \in Failures :
       pc' = IF failure = "not json" THEN "JSONDecodeError" ELSE "LLMError"
  /\ UNCHANGED <<provider, attempts, prompt, calls, invalid, raw>>

ReceiveText ==
  /\ pc = "await"
  /\ \E text \in Texts :
       LET response == RawResponse(provider, text)
       IN /\ raw' = response
          /\ IF ParseJsonObject(response) = <<>>
             THEN /\ invalid' = invalid \cup {calls}
                  /\ prompt' = RepairPrompt(provider, calls)
                  /\ pc' = "ask"
             ELSE pc' = "returned" /\ UNCHANGED <<prompt, invalid>>
  /\ UNCHANGED <<provider, attempts, calls>>

Next == Ask \/ ReceiveFailure \/ ReceiveText

Spec == Init /\ [][Next]_vars

\* httpx ends every request within its timeouts, so each one is answered.
FairSpec == Spec /\ WF_vars(Next)

-----------------------------------------------------------------------------
(* Properties *)

\* Every variable stays in its type.
TypeOK ==
  /\ provider \in Providers
  /\ attempts \in Attempts
  /\ pc \in {"ask", "await"} \cup Ended
  /\ prompt \in {Original} \cup {Repair(n) : n \in 1..calls}
  /\ calls \in Nat
  /\ invalid \subseteq 1..calls
  /\ raw \in Seq(Char)

\* One question costs at most one request more than the configured repair
\* attempts, and one if that number is negative.
CallsBounded == calls <= (IF attempts < 0 THEN 1 ELSE attempts + 1)

\* A repair request carries the reply that came just before it and that held
\* no JSON object, not an earlier one; the Anthropic client repairs nothing
\* (_repair_user_prompt(raw_response) in the loops of ollama.py and
\* openai_compatible.py, whose raw_response changes on the way).
RepairsLatest ==
  pc = "await" =>
    \/ prompt = Original /\ (provider = "anthropic" \/ calls = 1)
    \/ /\ provider # "anthropic"
       /\ prompt = Repair(calls - 1)
       /\ calls - 1 \in invalid

\* generate_json gives up on invalid replies only when the attempts are used
\* up, and what it returns is the last reply, after nothing but invalid ones.
UsesItsAttempts ==
  /\ pc = "LLMError" /\ invalid = 1..calls /\ attempts >= 0 => calls = attempts + 1
  /\ pc = "returned" => calls > 0 /\ invalid = 1..(calls - 1)

\* A reply is taken for invalid only if no JSON object begins at its first
\* brace: whatever comes before the brace and after the object, and whatever
\* braces, quotes and backslashes its strings contain, the scan of
\* extract_first_json_object ends where the object does.  What is returned is
\* the whole reply or begins at that brace.
FirstBraceParsed ==
  \A start \in DOMAIN raw :
    raw[start] = LeftBrace /\ (\A i \in 1..(start - 1) : raw[i] # LeftBrace) =>
      LET objects == {stop \in start..Len(raw) : IsObject(SubSeq(raw, start, stop))}
      IN /\ pc \in {"ask", "LLMError"} => objects = {}
         /\ pc = "returned" =>
              \E stop \in objects : ParseJsonObject(raw) = SubSeq(raw, start, stop)

\* The strengthening the properties of calls follow from: which replies are in,
\* what is asked next and that each request was allowed, place by place.
CallsInv ==
  /\ TypeOK
  /\ calls > 0 => MayAsk(provider, calls - 1)
  /\ pc = "ask" =>
       /\ invalid = 1..calls
       /\ prompt = IF calls = 0 \/ provider = "anthropic" THEN Original ELSE Repair(calls)
  /\ pc = "await" =>
       /\ calls > 0
       /\ invalid = 1..(calls - 1)
       /\ prompt = IF calls = 1 \/ provider = "anthropic" THEN Original ELSE Repair(calls - 1)
  /\ pc = "returned" => calls > 0 /\ invalid = 1..(calls - 1)
  /\ pc = "LLMError" => \/ calls > 0 /\ invalid = 1..(calls - 1)
                        \/ invalid = 1..calls /\ ~MayAsk(provider, calls)

\* Where generate_json stands says what parse_json_object made of the reply at hand.
ReplyRead ==
  /\ raw \in {<<>>} \cup Responses
  /\ pc = "await" => raw = <<>>
  /\ pc \in {"ask", "LLMError"} => raw = <<>> \/ ParseJsonObject(raw) = <<>>
  /\ pc = "returned" => ParseJsonObject(raw) # <<>>

IInv == CallsInv /\ ReplyRead

\* Every generate_json comes to an end.
Terminates == <>(pc \in Ended)

-----------------------------------------------------------------------------
(* What the documentation says and the code does not do *)

\* An LLM call that fails or returns unusable data raises an LLMError
\* (app/core/errors.py:14): one whose HTTP body is not JSON does not.
FailsWithLLMError == pc \in Ended => pc \in {"returned", "LLMError"}

\* "Return the first valid JSON object found in raw_response or None."
\* (parse_json_object): a brace before it that begins no object hides it, for
\* one Anthropic's prefilled brace if the model repeats it.
FirstObjectFound ==
  pc \in {"ask", "LLMError"} =>
    ~ \E start, stop \in DOMAIN raw : start <= stop /\ IsObject(SubSeq(raw, start, stop))

=============================================================================
