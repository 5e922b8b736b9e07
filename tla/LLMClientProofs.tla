--------------------------- MODULE LLMClientProofs ---------------------------
(* Proofs about LLMClient, for every setting of the repair attempts. *)
EXTENDS LLMClient, JsonReplyProofs

\* No client has made a request yet.
LEMMA InitCalls == Init => CallsInv
BY AttemptsAssumption
   DEF Init, CallsInv, TypeOK, Ended, Original, Providers

\* A request: it is only made if it is allowed, and it carries what the reply
\* before it left in prompt.
LEMMA AskCalls == CallsInv /\ Ask => CallsInv'
<1> SUFFICES ASSUME CallsInv, Ask PROVE CallsInv'
  OBVIOUS
<1> USE DEF CallsInv, TypeOK, Ended
<1>1. CASE MayAsk(provider, calls)
  <2>1. /\ pc = "ask" /\ pc' = "await" /\ calls' = calls + 1
        /\ raw' = <<>>
        /\ UNCHANGED <<provider, attempts, prompt, invalid>>
    BY <1>1 DEF Ask
  <2>2. calls \in Nat /\ calls' - 1 = calls /\ calls' \in Nat /\ calls' > 0
    BY <2>1
  <2>3. prompt \in {Original} \cup {Repair(n) : n \in 1..calls'}
    <3>1. 1..calls \subseteq 1..calls'
      BY <2>1, <2>2
    <3>2. prompt \in {Original} \cup {Repair(n) : n \in 1..calls}
      OBVIOUS
    <3> QED
      BY ONLY <3>1, <3>2
  <2>4. invalid = 1..(calls' - 1) /\ invalid \subseteq 1..calls'
    BY <2>1, <2>2
  <2>5. prompt = IF calls' = 1 \/ provider = "anthropic" THEN Original ELSE Repair(calls' - 1)
    BY <2>1, <2>2
  <2>6. MayAsk(provider, calls - 1)'
    BY <1>1, <2>1, <2>2 DEF MayAsk
  <2> QED
    BY <2>1, <2>2, <2>3, <2>4, <2>5, <2>6
<1>2. CASE ~MayAsk(provider, calls)
  <2>1. pc = "ask" /\ pc' = "LLMError" /\ UNCHANGED <<provider, attempts, prompt, invalid, calls, raw>>
    BY <1>2 DEF Ask
  <2> QED
    BY <1>2, <2>1 DEF MayAsk
<1> QED
  BY <1>1, <1>2

\* A request that fails ends generate_json.
LEMMA ReceiveFailureCalls == CallsInv /\ ReceiveFailure => CallsInv'
<1> SUFFICES ASSUME CallsInv, ReceiveFailure PROVE CallsInv'
  OBVIOUS
<1>1. /\ pc = "await" /\ pc' \in {"JSONDecodeError", "LLMError"}
      /\ UNCHANGED <<provider, attempts, prompt, calls, invalid, raw>>
  BY DEF ReceiveFailure
<1>2. (calls > 0 => MayAsk(provider, calls - 1))'
  BY <1>1 DEF CallsInv, MayAsk
<1> QED
  BY <1>1, <1>2 DEF CallsInv, TypeOK, Ended

\* A sequence with one more element in front is a sequence still.
LEMMA PrependType ==
  ASSUME NEW S, NEW head \in S, NEW tail \in Seq(S)
  PROVE  <<head>> \o tail \in Seq(S)
<1>1. <<head>> \in Seq(S)
  OBVIOUS
<1> QED
  BY <1>1

\* A reply: one without an object is counted and leads to the next request, one
\* with an object ends generate_json.
LEMMA ReceiveTextCalls == CallsInv /\ ReceiveText => CallsInv'
<1> SUFFICES ASSUME CallsInv, ReceiveText PROVE CallsInv'
  OBVIOUS
<1> USE DEF CallsInv, TypeOK, Ended
<1>1. PICK text \in Texts :
        /\ raw' = RawResponse(provider, text)
        /\ IF ParseJsonObject(RawResponse(provider, text)) = <<>>
           THEN /\ invalid' = invalid \cup {calls}
                /\ prompt' = RepairPrompt(provider, calls)
                /\ pc' = "ask"
           ELSE pc' = "returned" /\ UNCHANGED <<prompt, invalid>>
  BY DEF ReceiveText
<1>2. pc = "await" /\ UNCHANGED <<provider, attempts, calls>>
  BY DEF ReceiveText
<1>3. calls \in Nat /\ calls > 0 /\ invalid = 1..(calls - 1)
  BY <1>2
<1>4. (calls > 0 => MayAsk(provider, calls - 1))'
  BY <1>2 DEF MayAsk
<1>5. raw' \in Seq(Char)
  <2>1. text \in Seq(Char)
    BY TextsAssumption
  <2>2. LeftBrace \in Char
    BY ONLY DEF Char
  <2>3. <<LeftBrace>> \o text \in Seq(Char)
    BY ONLY <2>1, <2>2, PrependType
  <2> QED
    BY <1>1, <2>1, <2>3 DEF RawResponse
<1>6. CASE pc' = "ask"
  <2>1. invalid' = 1..calls /\ prompt' = RepairPrompt(provider, calls)
    <3>1. 1..calls = (1..(calls - 1)) \cup {calls}
      BY <1>3
    <3> QED
      BY <1>1, <1>3, <1>6, <3>1
  <2>2. prompt' \in {Original} \cup {Repair(n) : n \in 1..calls}
    BY <1>3, <2>1 DEF RepairPrompt
  <2> QED
    BY <1>2, <1>3, <1>4, <1>5, <1>6, <2>1, <2>2 DEF RepairPrompt
<1>7. CASE pc' = "returned"
  <2>1. UNCHANGED <<prompt, invalid>>
    BY <1>1, <1>7
  <2> QED
    BY <1>2, <1>3, <1>4, <1>5, <1>7, <2>1
<1> QED
  BY <1>1, <1>6, <1>7

\* What parse_json_object makes of a reply decides where generate_json stands.
LEMMA InitRead == Init => ReplyRead
BY DEF Init, ReplyRead

\* The reply goes with the next request.
LEMMA AskRead == ReplyRead /\ Ask => ReplyRead'
BY DEF Ask, ReplyRead

\* A request that fails leaves no reply.
LEMMA ReceiveFailureRead == ReplyRead /\ ReceiveFailure => ReplyRead'
BY DEF ReceiveFailure, ReplyRead

\* A text is a reply.
LEMMA ReceiveTextRead == ReplyRead /\ ReceiveText => ReplyRead'
<1> SUFFICES ASSUME ReceiveText PROVE ReplyRead'
  OBVIOUS
<1>1. PICK text \in Texts :
        /\ raw' = RawResponse(provider, text)
        /\ IF ParseJsonObject(RawResponse(provider, text)) = <<>>
           THEN pc' = "ask"
           ELSE pc' = "returned"
  BY DEF ReceiveText
<1>2. raw' \in Responses
  BY <1>1 DEF RawResponse, Responses
<1>3. ParseJsonObject(raw)' = ParseJsonObject(raw')
  OBVIOUS
<1> QED
  BY <1>1, <1>2, <1>3 DEF ReplyRead

\* IInv holds in every reachable state.
THEOREM Invariance == Spec => []IInv
<1>1. IInv /\ UNCHANGED vars => IInv'
  BY DEF IInv, CallsInv, ReplyRead, TypeOK, Ended, vars, MayAsk
<1>2. IInv /\ [Next]_vars => IInv'
  BY <1>1, AskCalls, ReceiveFailureCalls, ReceiveTextCalls,
     AskRead, ReceiveFailureRead, ReceiveTextRead DEF Next, IInv
<1> QED
  BY InitCalls, InitRead, <1>2, PTL DEF Spec, IInv

\* Every variable stays in its type.
THEOREM TypeCorrect == Spec => []TypeOK
<1>1. IInv => TypeOK
  BY DEF IInv, CallsInv
<1> QED
  BY Invariance, <1>1, PTL

\* Whatever the provider answers, a question costs at most one request more
\* than the configured repair attempts.
THEOREM BoundedCalls == Spec => []CallsBounded
<1>1. IInv => CallsBounded
  BY AttemptsAssumption DEF IInv, CallsInv, TypeOK, CallsBounded, MayAsk, Providers
<1> QED
  BY Invariance, <1>1, PTL

\* Whatever came before, a repair is asked of the reply received last, which
\* held no JSON object.
THEOREM LatestRepaired == Spec => []RepairsLatest
<1>1. IInv => RepairsLatest
  BY DEF IInv, CallsInv, TypeOK, RepairsLatest
<1> QED
  BY Invariance, <1>1, PTL

\* A client gives up on invalid replies only when its attempts are used up, and
\* returns nothing but the last reply.
THEOREM AttemptsUsed == Spec => []UsesItsAttempts
<1>1. IInv => UsesItsAttempts
  <2> SUFFICES ASSUME IInv PROVE UsesItsAttempts
    OBVIOUS
  <2>1. calls \in Nat /\ attempts \in Int
    BY AttemptsAssumption DEF IInv, CallsInv, TypeOK
  <2>2. ASSUME pc = "LLMError", invalid = 1..calls, attempts >= 0
        PROVE  calls = attempts + 1
    <3>1. ~(calls > 0 /\ invalid = 1..(calls - 1))
      BY <2>1, <2>2
    <3>2. ~MayAsk(provider, calls)
      BY <2>2, <3>1 DEF IInv, CallsInv
    <3>3. calls > attempts /\ calls > 0
      BY <2>1, <2>2, <3>2 DEF MayAsk
    <3>4. calls - 1 <= attempts
      BY <2>1, <2>2, <3>3 DEF IInv, CallsInv, MayAsk
    <3> QED
      BY <2>1, <3>3, <3>4
  <2> QED
    BY <2>2 DEF UsesItsAttempts, IInv, CallsInv
<1> QED
  BY Invariance, <1>1, PTL

\* Whatever the text around it and the braces, quotes and backslashes in its
\* strings, the object at a reply's first brace is found: only a reply without
\* one is repaired, and no other part of a reply is returned.
THEOREM FirstObjectParsed == Spec => []FirstBraceParsed
<1>1. IInv => FirstBraceParsed
  <2> SUFFICES ASSUME IInv, NEW start \in DOMAIN raw, raw[start] = LeftBrace,
                      \A i \in 1..(start - 1) : raw[i] # LeftBrace
               PROVE  LET objects == {stop \in start..Len(raw) : IsObject(SubSeq(raw, start, stop))}
                      IN /\ pc \in {"ask", "LLMError"} => objects = {}
                         /\ pc = "returned" =>
                              \E stop \in objects : ParseJsonObject(raw) = SubSeq(raw, start, stop)
    BY DEF FirstBraceParsed
  <2>1. raw \in Seq(Char) /\ Len(raw) \in Nat /\ DOMAIN raw = 1..Len(raw) /\ raw # <<>>
    BY DEF IInv, CallsInv, TypeOK
  <2>2. raw \in Responses
    BY <2>1 DEF IInv, ReplyRead
  <2>3. /\ start \in 1..Len(raw)
        /\ \A stop \in start..Len(raw) : stop \in DOMAIN raw
    BY <2>1
  <2>4. \A stop \in start..Len(raw) :
          IsObject(SubSeq(raw, start, stop)) => Balanced(SubSeq(raw, start, stop))
    BY <2>2, <2>3, ObjectsAssumption
  <2>5. ASSUME pc \in {"ask", "LLMError"}, NEW stop \in start..Len(raw),
               IsObject(SubSeq(raw, start, stop))
        PROVE  FALSE
    <3>1. ParseJsonObject(raw) = <<>>
      BY <2>1, <2>5 DEF IInv, ReplyRead
    <3>2. ~IsObject(raw)
      BY <2>1, <3>1 DEF ParseJsonObject
    <3>3. ExtractFirstJsonObject(raw) = SubSeq(raw, start, stop)
      BY <2>1, <2>3, <2>4, <2>5, BlockOfBrace
    <3>4. SubSeq(raw, start, stop) = <<>>
      BY <2>5, <3>1, <3>2, <3>3 DEF ParseJsonObject
    <3> QED
      BY <2>5, <3>4, IsObjectAssumption
  <2>6. ASSUME pc = "returned"
        PROVE  \E stop \in start..Len(raw) : /\ IsObject(SubSeq(raw, start, stop))
                                             /\ ParseJsonObject(raw) = SubSeq(raw, start, stop)
    <3>1. ParseJsonObject(raw) # <<>>
      BY <2>6 DEF IInv, ReplyRead
    <3>2. CASE IsObject(raw)
      <4>1. raw = SubSeq(raw, 1, Len(raw)) /\ 1 \in DOMAIN raw /\ Len(raw) \in DOMAIN raw
        BY <2>1, SubSeqFull
      <4>2. Balanced(raw)
        BY <2>2, <3>2, <4>1, ObjectsAssumption
      <4>3. start = 1
        BY <2>1, <2>3, <4>2 DEF Balanced
      <4>4. ParseJsonObject(raw) = raw
        BY <3>2 DEF ParseJsonObject
      <4>5. Len(raw) \in start..Len(raw)
        BY <2>1, <2>3
      <4> QED
        BY <3>2, <4>1, <4>3, <4>4, <4>5
    <3>3. CASE ~IsObject(raw)
      <4>1. /\ ParseJsonObject(raw) = ExtractFirstJsonObject(raw)
            /\ IsObject(ExtractFirstJsonObject(raw))
            /\ ExtractFirstJsonObject(raw) # <<>>
        BY <3>1, <3>3 DEF ParseJsonObject
      <4>2. PICK stop \in start..Len(raw) : ExtractFirstJsonObject(raw) = SubSeq(raw, start, stop)
        BY <2>1, <2>3, <4>1, BlockOfBrace
      <4> QED
        BY <4>1, <4>2
    <3> QED
      BY <3>2, <3>3
  <2> QED
    BY <2>5, <2>6
<1> QED
  BY Invariance, <1>1, PTL

=============================================================================
