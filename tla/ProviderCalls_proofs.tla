----------------------- MODULE ProviderCalls_proofs -----------------------
(***************************************************************************)
(* Theorems about ProviderCalls, for any number of callers, any times and  *)
(* any lifetimes of tokens, told or guessed: the variables keep their      *)
(* types and the mutex its order, requests do not outlive their tokens by  *)
(* more than the configuration leaves open, and every call ends in time.   *)
(***************************************************************************)
EXTENDS ProviderCalls, SequenceTheorems, FiniteSetTheorems, TLAPS

Places == 1 .. Len(line)

(* Who stands in line waits, once, or has the mutex and fetches. *)
LineOK ==
    /\ \A i \in Places : call[line[i]].stage = "wait" \/ (i = 1 /\ call[line[i]].stage = "fetch")
    /\ \A i, j \in Places : line[i] = line[j] => i = j
    /\ \A w \in Callers : call[w].stage \in {"wait", "fetch"} => \E i \in Places : line[i] = w

(* A token is received within a fetch, so the cached one is reckoned to    *)
(* end at most a fetch too late; a request that is on its way was sent     *)
(* with a new token, or with one that was thought to last for the skew.    *)
TokensOK ==
    /\ token.expiresAt <= token.issued + token.announced + AuthTimeout
    /\ \A w \in Callers :
          /\ call[w].stage = "wait" => call[w].issued = Never
          /\ call[w].stage = "fetch" =>
                call[w].sent <= clock /\ (call[w].issued # Never => call[w].sent <= call[w].issued)
          /\ call[w].stage = "request" =>
                /\ clock <= call[w].sent + ProviderTimeout
                /\ \/ call[w].sent <= call[w].issued + AuthTimeout
                   \/ call[w].sent + RefreshSkew < call[w].issued + call[w].announced + AuthTimeout

Others == Cardinality(Callers) - 1

(* The place i of the line is reached in time: Others + 1 - i callers may  *)
(* have fetched since the one who is there came.                           *)
Ahead(i) == (Others + 1 - i) * AuthTimeout

LineInTime ==
    \A i \in Places :
        LET first == call[line[1]]
            began == call[line[i]].began
        IN  IF first.stage = "fetch"
            THEN /\ first.sent <= clock /\ clock <= first.sent + AuthTimeout
                 /\ i > 1 => first.sent <= began + Ahead(i)
            ELSE clock <= began + Ahead(i)

CallingInTime ==
    \A w \in Callers : call[w].stage \in {"fetch", "request", "stream"} =>
        Alive(w) \/ clock <= call[w].began + Others * AuthTimeout

TimesOK == LineInTime /\ CallingInTime

(* The gaps add up to the time from the first token to the previous one.   *)
GapsAddUp(t) ==
    t.stage \in {"wait", "fetch", "request", "stream"} =>
        /\ t.began <= clock
        /\ IF t.first = Never THEN t.chunks = 0 /\ t.gapSum = 0
           ELSE t.began <= t.first /\ t.first <= t.previous /\ t.previous <= clock
                /\ t.chunks > 0 /\ t.gapSum = t.previous - t.first /\ t.stage = "stream"

StreamOK == \A w \in Callers : GapsAddUp(call[w])

FiguresOK == StreamOK /\ FiguresAddUp

-----------------------------------------------------------------------------
(* Types and the mutex *)

(* The times of the configuration are natural numbers. *)
LEMMA TimesAreNaturals ==
    /\ TaskTimeout \in Nat /\ AuthTimeout \in Nat /\ ProviderTimeout \in Nat
    /\ RefreshSkew \in Nat /\ DefaultLifetime \in Nat /\ MaxChunks \in Nat
    /\ Lifetimes \subseteq Nat /\ Usages \subseteq Nat
BY TimesAssumption

(* Content leaves a stream typed. *)
LEMMA WithContentTyped ==
    ASSUME clock \in Nat, NEW t \in CallState
    PROVE  WithContent(t) \in CallState
<1> DEFINE first == [t EXCEPT !.first = clock, !.chunks = t.chunks + 1, !.previous = clock]
           next == [t EXCEPT !.gapSum = t.gapSum + (clock - t.previous), !.chunks = t.chunks + 1,
                             !.previous = clock]
<1>1. /\ t.chunks + 1 \in Nat /\ t.gapSum + (clock - t.previous) \in Int
  BY DEF CallState
<1>2. first \in CallState
  BY <1>1 DEF CallState
<1>3. next \in CallState
  BY <1>1 DEF CallState
<1> QED
  BY <1>2, <1>3 DEF WithContent

(* A caller that starts afresh is typed. *)
LEMMA IdleTyped == Idle \in CallState
BY DEF Idle, CallState, Stage, Kind, Never

(* Whoever fetches is the first of the line. *)
LEMMA FetcherIsFirst ==
    ASSUME TypeOK, LineOK, NEW w \in Callers, call[w].stage = "fetch"
    PROVE  line # <<>> /\ line[1] = w /\ Len(line) >= 1
<1>1. PICK i \in Places : line[i] = w
  BY DEF LineOK
<1>2. i = 1
  BY <1>1 DEF LineOK
<1> QED
  BY <1>1, <1>2, EmptySeq DEF Places, TypeOK

(* The answer of a call changes the caller and its result in their types. *)
LEMMA AnswerTyped ==
    ASSUME TypeOK, NEW w \in Callers, NEW r \in Result, Answer(w, r)
    PROVE  /\ \E t \in CallState : call' = [call EXCEPT ![w] = t] /\ t.stage = "answered"
           /\ result' \in [Callers -> Result]
<1> DEFINE t == [Idle EXCEPT !.stage = "answered", !.until = call[w].until,
                             !.gapSum = call[w].gapSum, !.chunks = call[w].chunks]
<1>0. call[w] \in CallState
  BY DEF TypeOK
<1>1. t \in CallState /\ t.stage = "answered"
  BY <1>0, IdleTyped DEF Idle, CallState, Stage
<1>2. call' = [call EXCEPT ![w] = t]
  BY DEF Answer
<1>3. result' \in [Callers -> Result]
  BY DEF Answer, TypeOK
<1> HIDE DEF t
<1> QED
  BY <1>1, <1>2, <1>3

(* A step of a caller leaves the clock and the others alone, and keeps     *)
(* the types.                                                              *)
LEMMA StepTyped ==
    ASSUME TypeOK, LineOK, NEW w \in Callers, Step(w)
    PROVE  /\ clock' = clock /\ token' \in Token /\ line' \in Seq(Callers)
           /\ result' \in [Callers -> Result]
           /\ \E t \in CallState : call' = [call EXCEPT ![w] = t]
<1> USE TimesAreNaturals, CallersAssumption
<1>0. call[w] \in CallState /\ clock \in Nat
  BY DEF TypeOK
<1>0a. NoFigures \in Result
  BY DEF NoFigures, Result, None
<1>0b. After(w) \in Int
  BY <1>0 DEF After, CallState
<1>1. CASE Begin(w)
  <2>0. PICK limit \in Limits(w) : BeginCaller(w, limit)
    BY <1>1 DEF Begin
  <2> DEFINE t == [call[w] EXCEPT !.stage = "ready", !.until = limit]
  <2>1. limit \in Nat
    <3>1. CASE Siblings(w) = {}
      <4>1. limit = clock + TaskTimeout
        BY <3>1 DEF Limits
      <4> QED
        BY <1>0, <4>1
    <3>2. CASE Siblings(w) # {}
      <4>1. PICK v \in Siblings(w) : limit = call[v].until
        BY <3>2 DEF Limits
      <4>2. call[v] \in CallState
        BY DEF Siblings, TypeOK
      <4> QED
        BY <4>1, <4>2 DEF CallState
    <3> QED
      BY <3>1, <3>2
  <2>2. t \in CallState
    BY <1>0, <2>1 DEF CallState, Stage
  <2>3. call' = [call EXCEPT ![w] = t]
    BY <2>0 DEF BeginCaller
  <2> HIDE DEF t
  <2> QED
    BY <2>0, <2>2, <2>3 DEF BeginCaller, TypeOK
<1>2. ASSUME NEW kind \in KindsOf[w], BeginCall(w, kind)
      PROVE  /\ clock' = clock /\ token' \in Token /\ line' \in Seq(Callers)
             /\ result' \in [Callers -> Result]
             /\ \E t \in CallState : call' = [call EXCEPT ![w] = t]
  <2> DEFINE t == [Idle EXCEPT !.stage = "wait", !.kind = kind,
                               !.until = call[w].until, !.began = clock]
  <2>1. t \in CallState
    BY <1>0, IdleTyped DEF CallState, Stage
  <2>2. call' = [call EXCEPT ![w] = t]
    BY <1>2 DEF BeginCall
  <2>3. result' \in [Callers -> Result]
    BY <1>2, <1>0a DEF BeginCall, TypeOK
  <2>4. line' \in Seq(Callers)
    BY <1>2 DEF BeginCall, TypeOK
  <2> HIDE DEF t
  <2> QED
    BY <1>2, <2>1, <2>2, <2>3, <2>4 DEF BeginCall, TypeOK
<1>3. ASSUME NEW u \in CallState, NEW tk \in Token
      PROVE  Request(u, tk) \in CallState
  BY <1>0 DEF Request, CallState, Stage, Token
<1>4. CASE UseCached(w)
  <2>1. call' = [call EXCEPT ![w] = Request(call[w], token)]
    BY <1>4 DEF UseCached
  <2>2. token \in Token
    BY DEF TypeOK
  <2>3. line' \in Seq(Callers)
    BY <1>4, HeadTailProperties DEF UseCached, Holds, TypeOK
  <2> QED
    BY <1>0, <1>3, <1>4, <2>1, <2>2, <2>3 DEF UseCached, TypeOK
<1>5. CASE Fetch(w)
  <2> DEFINE t == [call[w] EXCEPT !.stage = "fetch", !.sent = clock]
  <2>1. t \in CallState
    BY <1>0 DEF CallState, Stage
  <2>2. call' = [call EXCEPT ![w] = t]
    BY <1>5 DEF Fetch
  <2> HIDE DEF t
  <2> QED
    BY <1>5, <2>1, <2>2 DEF Fetch, TypeOK
<1>6. ASSUME NEW life \in Nat, NEW announced \in Nat, Issue(w, life, announced)
      PROVE  /\ clock' = clock /\ token' \in Token /\ line' \in Seq(Callers)
             /\ result' \in [Callers -> Result]
             /\ \E t \in CallState : call' = [call EXCEPT ![w] = t]
  <2> DEFINE t == [call[w] EXCEPT !.issued = clock, !.life = life, !.announced = announced]
  <2>1. t \in CallState
    BY <1>0 DEF CallState
  <2>2. call' = [call EXCEPT ![w] = t]
    BY <1>6 DEF Issue
  <2> HIDE DEF t
  <2> QED
    BY <1>6, <2>1, <2>2 DEF Issue, TypeOK
<1>7. CASE ReceiveToken(w)
  <2> DEFINE new == [issued |-> call[w].issued, life |-> call[w].life, announced |-> call[w].announced,
                    expiresAt |-> clock + call[w].announced]
  <2>1. new \in Token
    BY <1>0 DEF Token, CallState
  <2>2. token' = new /\ line' = Tail(line) /\ clock' = clock
    BY <1>7 DEF ReceiveToken
  <2>3. line' \in Seq(Callers)
    BY <1>7, <2>2, FetcherIsFirst, HeadTailProperties DEF ReceiveToken, TypeOK
  <2>4. CASE call[w].kind = "check"
    <3>1. Answer(w, NoFigures)
      BY <1>7, <2>4 DEF ReceiveToken
    <3> QED
      BY <1>0a, <2>1, <2>2, <2>3, <3>1, AnswerTyped
  <2>5. CASE call[w].kind # "check"
    <3>1. call' = [call EXCEPT ![w] = Request(call[w], new)] /\ result' = result
      BY <1>7, <2>5 DEF ReceiveToken
    <3> HIDE DEF new
    <3> QED
      BY <1>0, <1>3, <2>1, <2>2, <2>3, <3>1 DEF TypeOK
  <2> QED
    BY <2>4, <2>5
<1>8. CASE FailFetch(w)
  <2>1. Answer(w, NoFigures) /\ line' = Tail(line) /\ UNCHANGED <<clock, token>>
    BY <1>8 DEF FailFetch
  <2>2. line' \in Seq(Callers)
    BY <1>8, <2>1, FetcherIsFirst, HeadTailProperties DEF FailFetch, TypeOK
  <2> QED
    BY <1>0a, <2>1, <2>2, AnswerTyped DEF TypeOK
<1>9. CASE ReceiveAnswer(w)
  <2>1. Answer(w, NoFigures) /\ UNCHANGED <<clock, token, line>>
    BY <1>9 DEF ReceiveAnswer
  <2> QED
    BY <1>0a, <2>1, AnswerTyped DEF TypeOK
<1>10. CASE OpenStream(w)
  <2> DEFINE t == [call[w] EXCEPT !.stage = "stream", !.issued = Never, !.life = 0, !.announced = 0]
  <2>1. t \in CallState
    BY <1>0 DEF CallState, Stage, Never
  <2>2. call' = [call EXCEPT ![w] = t]
    BY <1>10 DEF OpenStream
  <2> HIDE DEF t
  <2> QED
    BY <1>10, <2>1, <2>2 DEF OpenStream, TypeOK
<1>11. CASE ReadContent(w)
  <2>1. call' = [call EXCEPT ![w] = WithContent(call[w])]
    BY <1>11 DEF ReadContent
  <2>2. WithContent(call[w]) \in CallState
    BY <1>0, WithContentTyped
  <2> QED
    BY <1>11, <2>1, <2>2 DEF ReadContent, TypeOK
<1>12. ASSUME NEW usage \in {None} \cup Usages, EndStream(w, usage)
       PROVE  /\ clock' = clock /\ token' \in Token /\ line' \in Seq(Callers)
              /\ result' \in [Callers -> Result]
              /\ \E t \in CallState : call' = [call EXCEPT ![w] = t]
  <2> DEFINE t == call[w]
             n == OutputTokens(t, usage)
             r == [ok |-> TRUE, latency |-> After(w), ttft |-> TTFT(t), itl |-> ITL(t),
                   tpot |-> TPOT(t, n), outputTokens |-> n]
  <2>1. Answer(w, r) /\ UNCHANGED <<clock, token, line>>
    BY <1>12 DEF EndStream
  <2>2. n \in Int /\ After(w) \in Int /\ TTFT(t) \in Int
    BY <1>0 DEF OutputTokens, After, TTFT, CallState, None
  <2>3. ITL(t) \in Int
    BY <1>0 DEF ITL, CallState, None
  <2>4. TPOT(t, n) \in Int
    <3> HIDE DEF n
    <3> QED
      BY <1>0, <2>2 DEF TPOT, CallState, None
  <2>5. r \in Result
    BY <2>2, <2>3, <2>4 DEF Result
  <2> HIDE DEF r
  <2> QED
    BY <2>1, <2>5, AnswerTyped DEF TypeOK
<1>13. ASSUME NEW usage \in {None} \cup Usages, BreakStream(w, usage)
       PROVE  /\ clock' = clock /\ token' \in Token /\ line' \in Seq(Callers)
              /\ result' \in [Callers -> Result]
              /\ \E t \in CallState : call' = [call EXCEPT ![w] = t]
  <2> DEFINE r == [NoFigures EXCEPT !.latency = After(w), !.ttft = TTFT(call[w]), !.outputTokens = usage]
  <2>1. Answer(w, r) /\ UNCHANGED <<clock, token, line>>
    BY <1>13 DEF BreakStream
  <2>2. usage \in Int /\ After(w) \in Int /\ TTFT(call[w]) \in Int
    BY <1>0 DEF After, TTFT, CallState, None
  <2>3. r \in Result
    BY <1>0a, <2>2 DEF Result
  <2> HIDE DEF r
  <2> QED
    BY <2>1, <2>3, AnswerTyped DEF TypeOK
<1>14. CASE EndCaller(w)
  <2>1. call' = [call EXCEPT ![w] = Idle] /\ result' = [result EXCEPT ![w] = NoFigures]
        /\ UNCHANGED <<clock, token, line>>
    BY <1>14 DEF EndCaller
  <2> QED
    BY <2>1, <1>0a, IdleTyped DEF TypeOK
<1> QED
  BY <1>1, <1>2, <1>4, <1>5, <1>6, <1>7, <1>8, <1>9, <1>10, <1>11, <1>12, <1>13, <1>14
     DEF Step, Call, Stream

(* The variables keep their types. *)
LEMMA NextTyped == TypeOK /\ LineOK /\ [Next]_vars => TypeOK'
<1> SUFFICES ASSUME TypeOK, LineOK, [Next]_vars PROVE TypeOK'
  OBVIOUS
<1>1. CASE Tick
  BY <1>1 DEF Tick, TypeOK
<1>2. ASSUME NEW w \in Callers, Step(w) PROVE TypeOK'
  <2>1. PICK t \in CallState : call' = [call EXCEPT ![w] = t]
    BY <1>2, StepTyped
  <2> QED
    BY <1>2, <2>1, StepTyped DEF TypeOK
<1>3. CASE UNCHANGED vars
  BY <1>3 DEF vars, TypeOK
<1> QED
  BY <1>1, <1>2, <1>3 DEF Next

(* A step of a caller that neither is nor gets into line leaves the line in *)
(* order, and so does one that changes only the stage of its first.        *)
LEMMA LineStays ==
    ASSUME TypeOK, LineOK, line' = line, NEW w \in Callers,
           \A v \in Callers \ {w} : call'[v] = call[v],
           \/ call[w].stage \notin {"wait", "fetch"} /\ call'[w].stage \notin {"wait", "fetch"}
           \/ line[1] = w /\ call[w].stage \in {"wait", "fetch"} /\ call'[w].stage = "fetch"
    PROVE  LineOK'
<1>0. \A i \in Places : line[i] \in Callers
  BY DEF TypeOK, Places
<1>1. Places' = Places
  BY DEF Places
<1>2. \A i \in Places : line[i] = w => i = 1 /\ call'[w].stage = "fetch"
  <2>1. ASSUME NEW i \in Places, line[i] = w PROVE i = 1 /\ call'[w].stage = "fetch"
    <3>1. call[w].stage \in {"wait", "fetch"}
      BY <2>1 DEF LineOK
    <3>2. 1 \in Places
      BY DEF Places, TypeOK
    <3> QED
      BY <2>1, <3>1, <3>2 DEF LineOK
  <2> QED
    BY <2>1
<1>3. \A i \in Places : call'[line[i]].stage = "wait" \/ (i = 1 /\ call'[line[i]].stage = "fetch")
  BY <1>0, <1>2 DEF LineOK
<1>4. ASSUME NEW v \in Callers, call'[v].stage \in {"wait", "fetch"}
      PROVE  \E i \in Places : line[i] = v
  <2>1. call[v].stage \in {"wait", "fetch"}
    BY <1>4
  <2> QED
    BY <2>1 DEF LineOK
<1> QED
  BY <1>1, <1>3, <1>4 DEF LineOK

(* When the first of the line leaves it, the others move up. *)
LEMMA LineMovesUp ==
    ASSUME TypeOK, LineOK, NEW w \in Callers, line # <<>>, line[1] = w, line' = Tail(line),
           \A v \in Callers \ {w} : call'[v] = call[v], call'[w].stage \notin {"wait", "fetch"}
    PROVE  /\ LineOK'
           /\ Places' = 1 .. Len(line) - 1
           /\ \A i \in Places' : i + 1 \in Places /\ line'[i] = line[i + 1] /\ line'[i] \in Callers \ {w}
<1>1. /\ Len(line') = Len(line) - 1 /\ Len(line) \in Nat \ {0}
      /\ \A i \in 1 .. Len(line') : line'[i] = line[i + 1]
  BY HeadTailProperties, EmptySeq DEF TypeOK
<1>2. Places' = 1 .. Len(line) - 1
  BY <1>1 DEF Places
<1>3. \A i \in Places' : i \in Nat /\ i + 1 \in Places /\ i + 1 # 1 /\ line'[i] = line[i + 1]
  BY <1>1, <1>2 DEF Places
<1>4. 1 \in Places
  BY <1>1 DEF Places
<1>5. \A i \in Places' : line'[i] \in Callers \ {w}
  BY <1>3, <1>4 DEF LineOK, TypeOK, Places
<1>6. ASSUME NEW i \in Places' PROVE call'[line'[i]].stage = "wait"
  <2>1. call'[line'[i]] = call[line[i + 1]]
    BY <1>3, <1>5
  <2>2. i + 1 \in Places /\ i + 1 # 1
    BY <1>3
  <2>3. call[line[i + 1]].stage = "wait"
    BY <2>2 DEF LineOK
  <2> QED
    BY <2>1, <2>3
<1>7. ASSUME NEW i \in Places', NEW j \in Places', line'[i] = line'[j] PROVE i = j
  <2>1. i + 1 \in Places /\ j + 1 \in Places /\ line[i + 1] = line[j + 1]
    BY <1>3, <1>7
  <2>2. i + 1 = j + 1
    BY <2>1 DEF LineOK
  <2> QED
    BY <1>3, <2>2
<1>8. ASSUME NEW v \in Callers, call'[v].stage \in {"wait", "fetch"}
      PROVE  \E i \in Places' : line'[i] = v
  <2>1. v # w /\ call[v].stage \in {"wait", "fetch"}
    BY <1>8
  <2>2. PICK j \in Places : line[j] = v
    BY <2>1 DEF LineOK
  <2>3. j # 1
    BY <2>1, <2>2
  <2>4. j - 1 \in Places' /\ line'[j - 1] = line[(j - 1) + 1] /\ (j - 1) + 1 = j
    BY <1>1, <1>2, <1>3, <2>3 DEF Places
  <2> QED
    BY <2>2, <2>4
<1>9. LineOK'
  BY <1>6, <1>7, <1>8 DEF LineOK
<1> QED
  BY <1>2, <1>3, <1>5, <1>9

(* Whoever gets into line is its last. *)
LEMMA LineGrows ==
    ASSUME TypeOK, LineOK, NEW w \in Callers, call[w].stage \notin {"wait", "fetch"},
           line' = Append(line, w), call'[w].stage = "wait",
           \A v \in Callers \ {w} : call'[v] = call[v]
    PROVE  /\ LineOK'
           /\ Len(line) + 1 \in Nat \ {0} /\ Places' = 1 .. Len(line) + 1
           /\ \A i \in Places : line'[i] = line[i] /\ line[i] \in Callers \ {w}
           /\ line'[Len(line) + 1] = w
<1>1. /\ Len(line) \in Nat /\ Len(line') = Len(line) + 1
      /\ \A i \in 1 .. Len(line) : line'[i] = line[i]
      /\ line'[Len(line) + 1] = w
  BY DEF TypeOK
<1>2. Places' = 1 .. Len(line) + 1 /\ Places' = Places \cup {Len(line) + 1}
  BY <1>1 DEF Places
<1>3. \A i \in Places : line'[i] = line[i] /\ line[i] \in Callers \ {w}
  BY <1>1 DEF LineOK, Places, TypeOK
<1>3a. \A i \in Places' : i \in Places \/ (i = Len(line) + 1 /\ i \notin Places /\ line'[i] = w)
  BY <1>1, <1>2 DEF Places
<1>4. ASSUME NEW i \in Places'
      PROVE  call'[line'[i]].stage = "wait" \/ (i = 1 /\ call'[line'[i]].stage = "fetch")
  <2>1. CASE i \in Places
    <3>1. call'[line'[i]] = call[line[i]]
      BY <1>3, <2>1
    <3>2. call[line[i]].stage = "wait" \/ (i = 1 /\ call[line[i]].stage = "fetch")
      BY <2>1 DEF LineOK
    <3> QED
      BY <3>1, <3>2
  <2>2. CASE line'[i] = w
    BY <2>2
  <2> QED
    BY <1>3a, <2>1, <2>2
<1>5. ASSUME NEW i \in Places', NEW j \in Places', line'[i] = line'[j] PROVE i = j
  <2>1. CASE i \in Places /\ j \in Places
    <3>1. line[i] = line[j]
      BY <1>3, <1>5, <2>1
    <3> QED
      BY <2>1, <3>1 DEF LineOK
  <2>2. CASE i \notin Places /\ j \notin Places
    BY <1>3a, <2>2
  <2>3. CASE i \in Places <=> j \notin Places
    BY <1>3, <1>3a, <1>5, <2>3
  <2> QED
    BY <2>1, <2>2, <2>3
<1>6. ASSUME NEW v \in Callers, call'[v].stage \in {"wait", "fetch"}
      PROVE  \E i \in Places' : line'[i] = v
  <2>1. CASE v = w
    BY <1>1, <1>2, <2>1
  <2>2. CASE v # w
    <3>1. PICK i \in Places : line[i] = v
      BY <1>6, <2>2 DEF LineOK
    <3> QED
      BY <1>2, <1>3, <3>1
  <2> QED
    BY <2>1, <2>2
<1>7. LineOK'
  BY <1>4, <1>5, <1>6 DEF LineOK
<1> QED
  BY <1>1, <1>2, <1>3, <1>7

(* What the steps of a caller do to the line and to its times. *)
Calling == {"wait", "fetch", "request", "stream"}

Joins(w) ==
    /\ call[w].stage \notin {"wait", "fetch"} /\ line' = Append(line, w)
    /\ call'[w].stage = "wait" /\ call'[w].began = clock

Leaves(w) ==
    /\ line # <<>> /\ line[1] = w /\ call[w].stage \in {"wait", "fetch"}
    /\ line' = Tail(line)
    /\ \/ call'[w].stage = "answered"
       \/ call'[w].stage = "request" /\ call'[w].began = call[w].began /\ call'[w].until = call[w].until

Stays(w) ==
    /\ line' = line
    /\ \/ call[w].stage \notin {"wait", "fetch"} /\ call'[w].stage \notin {"wait", "fetch"}
       \/ /\ line[1] = w /\ call[w].stage \in {"wait", "fetch"} /\ call'[w].stage = "fetch"
          /\ call'[w].sent = IF call[w].stage = "wait" THEN clock ELSE call[w].sent
    /\ call'[w].stage \in Calling =>
          /\ call[w].stage \in Calling
          /\ call'[w].began = call[w].began /\ call'[w].until = call[w].until

LEMMA StepShape ==
    ASSUME TypeOK, LineOK, NEW w \in Callers, Step(w)
    PROVE  Joins(w) \/ Leaves(w) \/ Stays(w)
<1> USE DEF Calling
<1>0. DOMAIN call = Callers /\ call[w] \in CallState
  BY DEF TypeOK
<1>1. CASE Begin(w)
  BY <1>0, <1>1 DEF Begin, BeginCaller, Stays, CallState
<1>2. ASSUME NEW kind \in KindsOf[w], BeginCall(w, kind) PROVE Joins(w)
  BY <1>0, <1>2 DEF BeginCall, Joins, Idle, CallState
<1>3. CASE UseCached(w)
  <2>1. line # <<>> /\ line[1] = w
    BY <1>3 DEF UseCached, Holds
  <2> QED
    BY <1>0, <1>3, <2>1 DEF UseCached, Request, Leaves, CallState
<1>4. CASE Fetch(w)
  <2>1. line[1] = w
    BY <1>4 DEF Fetch, Holds
  <2> QED
    BY <1>0, <1>4, <2>1 DEF Fetch, Stays, CallState
<1>5. ASSUME NEW life, NEW announced, Issue(w, life, announced) PROVE Stays(w)
  <2>1. line[1] = w
    BY <1>5, FetcherIsFirst DEF Issue
  <2> QED
    BY <1>0, <1>5, <2>1 DEF Issue, Stays, CallState
<1>6. CASE ReceiveToken(w)
  <2>1. line # <<>> /\ line[1] = w
    BY <1>6, FetcherIsFirst DEF ReceiveToken
  <2>1a. call[w].stage = "fetch" /\ line' = Tail(line)
    BY <1>6 DEF ReceiveToken
  <2>2. CASE call[w].kind = "check"
    <3>1. Answer(w, NoFigures)
      BY <1>6, <2>2 DEF ReceiveToken
    <3> QED
      BY <1>0, <2>1, <2>1a, <3>1 DEF Answer, Leaves, CallState
  <2>3. CASE call[w].kind # "check"
    <3>1. PICK tk : call' = [call EXCEPT ![w] = Request(call[w], tk)]
      BY <1>6, <2>3 DEF ReceiveToken
    <3> QED
      BY <1>0, <2>1, <2>1a, <3>1 DEF Request, Leaves, CallState
  <2> QED
    BY <2>2, <2>3
<1>7. CASE FailFetch(w)
  <2>1. line # <<>> /\ line[1] = w
    BY <1>7, FetcherIsFirst DEF FailFetch
  <2> QED
    BY <1>0, <1>7, <2>1 DEF FailFetch, Answer, Leaves, CallState
<1>8. CASE ReceiveAnswer(w)
  BY <1>0, <1>8 DEF ReceiveAnswer, Answer, Stays, CallState
<1>9. CASE OpenStream(w)
  BY <1>0, <1>9 DEF OpenStream, Stays, CallState
<1>10. CASE ReadContent(w)
  BY <1>0, <1>10 DEF ReadContent, WithContent, Stays, CallState
<1>11. ASSUME NEW usage \in {None} \cup Usages, EndStream(w, usage) PROVE Stays(w)
  BY <1>0, <1>11 DEF EndStream, Answer, Stays, CallState
<1>12. ASSUME NEW usage \in {None} \cup Usages, BreakStream(w, usage) PROVE Stays(w)
  BY <1>0, <1>12 DEF BreakStream, Answer, Stays, CallState
<1>13. CASE EndCaller(w)
  BY <1>0, <1>13 DEF EndCaller, Idle, Stays, CallState
<1> QED
  BY <1>1, <1>2, <1>3, <1>4, <1>5, <1>6, <1>7, <1>8, <1>9, <1>10, <1>11, <1>12, <1>13,
     TimesAreNaturals DEF Step, Call, Stream

(* The other callers stay as they are. *)
LEMMA OthersStay ==
    ASSUME TypeOK, LineOK, NEW w \in Callers, Step(w)
    PROVE  clock' = clock /\ \A v \in Callers \ {w} : call'[v] = call[v]
<1>1. PICK t \in CallState : call' = [call EXCEPT ![w] = t]
  BY StepTyped
<1> QED
  BY <1>1, StepTyped DEF TypeOK

(* The line stays in order. *)
LEMMA NextLineOK == TypeOK /\ LineOK /\ [Next]_vars => LineOK'
<1> SUFFICES ASSUME TypeOK, LineOK, [Next]_vars PROVE LineOK'
  OBVIOUS
<1>1. CASE Tick
  BY <1>1 DEF Tick, LineOK, Places
<1>2. ASSUME NEW w \in Callers, Step(w) PROVE LineOK'
  <2>1. CASE Joins(w)
    BY <1>2, <2>1, OthersStay, LineGrows DEF Joins
  <2>2. CASE Leaves(w)
    <3>1. call'[w].stage \notin {"wait", "fetch"}
      BY <2>2 DEF Leaves
    <3> QED
      BY <1>2, <2>2, <3>1, OthersStay, LineMovesUp DEF Leaves
  <2>3. CASE Stays(w)
    BY <1>2, <2>3, OthersStay, LineStays DEF Stays
  <2> QED
    BY <1>2, <2>1, <2>2, <2>3, StepShape
<1>3. CASE UNCHANGED vars
  BY <1>3 DEF vars, LineOK, Places
<1> QED
  BY <1>1, <1>2, <1>3 DEF Next

(* Initially nobody calls. *)
LEMMA InitOK == Init => TypeOK /\ LineOK
<1> SUFFICES ASSUME Init PROVE TypeOK /\ LineOK
  OBVIOUS
<1>1. NoFigures \in Result /\ NoToken \in Token
  BY DEF NoFigures, Result, None, NoToken, Token, Never
<1>2. TypeOK
  BY <1>1, IdleTyped DEF Init, TypeOK
<1>3. Places = {}
  BY DEF Init, Places
<1>4. \A w \in Callers : call[w].stage = "idle"
  BY DEF Init, Idle
<1>5. LineOK
  BY <1>3, <1>4 DEF LineOK
<1> QED
  BY <1>2, <1>5

(* Whatever calls overlap, every variable keeps its type. *)
THEOREM TypeCorrect == Spec => [](TypeOK /\ LineOK)
BY InitOK, NextTyped, NextLineOK, PTL DEF Spec

-----------------------------------------------------------------------------
(* Tokens *)

(* A call that is answered is over. *)
LEMMA AnswerEnds ==
    ASSUME TypeOK, NEW w \in Callers, NEW r, Answer(w, r)
    PROVE  call'[w].stage = "answered"
<1>1. DOMAIN call = Callers /\ call[w] \in CallState
  BY DEF TypeOK
<1>2. call'[w] = [Idle EXCEPT !.stage = "answered", !.until = call[w].until,
                              !.gapSum = call[w].gapSum, !.chunks = call[w].chunks]
  BY <1>1 DEF Answer
<1> QED
  BY <1>2 DEF Idle

(* Reading content leaves a caller in its stream. *)
LEMMA ContentKeepsStage ==
    ASSUME TypeOK, NEW w \in Callers, ReadContent(w)
    PROVE  call'[w].stage = "stream"
<1>1. DOMAIN call = Callers /\ call[w] \in CallState
  BY DEF TypeOK
<1>2. call[w].stage = "stream" /\ call' = [call EXCEPT ![w] = WithContent(call[w])]
  BY DEF ReadContent
<1>3. call'[w] = WithContent(call[w])
  BY <1>1, <1>2
<1>4. WithContent(call[w]).stage = call[w].stage
  BY <1>1 DEF WithContent, CallState
<1> QED
  BY <1>2, <1>3, <1>4

(* No step makes a token seem to last longer, or a request be sent with a  *)
(* token that the program takes to end within the skew.                    *)
LEMMA NextTokensOK == TypeOK /\ LineOK /\ TokensOK /\ [Next]_vars => TokensOK'
<1> SUFFICES ASSUME TypeOK, LineOK, TokensOK, [Next]_vars PROVE TokensOK'
  OBVIOUS
<1> USE TimesAreNaturals
<1> DEFINE Good(v) ==
      /\ call[v].stage = "wait" => call[v].issued = Never
      /\ call[v].stage = "fetch" =>
            call[v].sent <= clock /\ (call[v].issued # Never => call[v].sent <= call[v].issued)
      /\ call[v].stage = "request" =>
            /\ clock <= call[v].sent + ProviderTimeout
            /\ \/ call[v].sent <= call[v].issued + AuthTimeout
               \/ call[v].sent + RefreshSkew < call[v].issued + call[v].announced + AuthTimeout
<1>0. clock \in Nat /\ DOMAIN call = Callers /\ \A v \in Callers : call[v] \in CallState
  BY DEF TypeOK
<1>0a. token.expiresAt \in Nat /\ token.issued \in Nat /\ token.announced \in Nat
  BY DEF TypeOK, Token
<1>0b. token.expiresAt <= token.issued + token.announced + AuthTimeout /\ \A v \in Callers : Good(v)
  BY DEF TokensOK
<1>1. CASE Tick
  <2>1. clock' = clock + 1 /\ token' = token /\ call' = call
    BY <1>1 DEF Tick
  <2>2. ASSUME NEW v \in Callers, call[v].stage = "request"
        PROVE  clock + 1 <= call[v].sent + ProviderTimeout
    <3>1. ~Urgent(v)
      BY <1>1 DEF Tick
    <3>2. ~(clock >= RequestLimit(v))
      BY <2>2, <3>1 DEF Urgent
    <3> QED
      BY <1>0, <3>2 DEF RequestLimit, Earlier, CallState
  <2>2a. ASSUME NEW v \in Callers, call[v].stage = "fetch" PROVE call[v].sent <= clock + 1
    BY <1>0, <1>0b, <2>2a DEF CallState
  <2>3. \A v \in Callers : Good(v)'
    BY <1>0b, <2>1, <2>2, <2>2a
  <2> QED
    BY <1>0b, <2>1, <2>3 DEF TokensOK
<1>2. ASSUME NEW w \in Callers, Step(w) PROVE TokensOK'
  <2>1. clock' = clock /\ \A v \in Callers \ {w} : call'[v] = call[v]
    BY <1>2, OthersStay
  <2>2. \A v \in Callers \ {w} : Good(v)'
    BY <1>0b, <2>1
  <2>3. ASSUME UNCHANGED token, Good(w)' PROVE TokensOK'
    BY <1>0b, <2>2, <2>3 DEF TokensOK
  <2>4. ASSUME call'[w].stage \notin {"wait", "fetch", "request"} PROVE Good(w)'
    BY <2>4
  <2>5. CASE Begin(w)
    <3>1. call'[w].stage = "ready" /\ token' = token
      BY <1>0, <2>5 DEF Begin, BeginCaller, CallState
    <3> QED
      BY <2>3, <2>4, <3>1
  <2>6. ASSUME NEW kind \in KindsOf[w], BeginCall(w, kind) PROVE TokensOK'
    <3>1. call'[w].stage = "wait" /\ token' = token /\ call'[w].issued = Never
      BY <1>0, <2>6 DEF BeginCall, Idle
    <3> QED
      BY <2>3, <3>1
  <2>7. CASE UseCached(w)
    <3>1. /\ call'[w].stage = "request" /\ call'[w].sent = clock /\ token' = token
          /\ call'[w].issued = token.issued /\ call'[w].announced = token.announced
      BY <1>0, <2>7 DEF UseCached, Request, CallState
    <3>2. token.expiresAt - clock > RefreshSkew
      BY <2>7 DEF UseCached, Cached
    <3>3. clock + RefreshSkew < token.issued + token.announced + AuthTimeout
      BY <1>0, <1>0a, <1>0b, <3>2
    <3> QED
      BY <1>0, <2>1, <2>3, <3>1, <3>3
  <2>8. CASE Fetch(w)
    <3>1. /\ call'[w].stage = "fetch" /\ call'[w].sent = clock /\ token' = token
          /\ call'[w].issued = call[w].issued /\ call[w].stage = "wait"
      BY <1>0, <2>8 DEF Fetch, CallState
    <3>2. call[w].issued = Never
      BY <3>1, <1>0b
    <3> QED
      BY <1>0, <2>1, <2>3, <3>1, <3>2
  <2>9. ASSUME NEW life, NEW announced, Issue(w, life, announced) PROVE TokensOK'
    <3>1. /\ call[w].stage = "fetch" /\ call'[w].stage = "fetch" /\ token' = token
          /\ call'[w].sent = call[w].sent /\ call'[w].issued = clock
      BY <1>0, <2>9 DEF Issue, CallState
    <3> QED
      BY <1>0, <1>0b, <2>1, <2>3, <3>1
  <2>10. CASE ReceiveToken(w)
    <3> DEFINE new == [issued |-> call[w].issued, life |-> call[w].life,
                       announced |-> call[w].announced, expiresAt |-> clock + call[w].announced]
    <3>1. /\ call[w].stage = "fetch" /\ call[w].issued # Never
          /\ clock <= FetchLimit(w) /\ token' = new
      BY <2>10 DEF ReceiveToken
    <3>2. clock <= call[w].sent + AuthTimeout
      BY <1>0, <3>1 DEF FetchLimit, Earlier, CallState
    <3>2a. clock <= call[w].issued + AuthTimeout
      BY <1>0, <1>0b, <3>1, <3>2 DEF CallState
    <3>3. token'.expiresAt <= token'.issued + token'.announced + AuthTimeout
      BY <1>0, <3>1, <3>2a DEF CallState
    <3>4. Good(w)'
      <4>1. CASE call[w].kind = "check"
        <5>1. Answer(w, NoFigures)
          BY <2>10, <4>1 DEF ReceiveToken
        <5>2. call'[w].stage = "answered"
          BY <5>1, AnswerEnds
        <5> QED
          BY <2>4, <5>2
      <4>2. CASE call[w].kind # "check"
        <5>1. call' = [call EXCEPT ![w] = Request(call[w], new)]
          BY <2>10, <4>2 DEF ReceiveToken
        <5>2. call'[w].stage = "request" /\ call'[w].sent = clock /\ call'[w].issued = call[w].issued
          BY <1>0, <5>1 DEF Request, CallState
        <5> QED
          BY <1>0, <2>1, <3>2a, <5>2
      <4> QED
        BY <4>1, <4>2
    <3> HIDE DEF new
    <3> QED
      BY <2>2, <3>3, <3>4 DEF TokensOK
  <2>11. CASE FailFetch(w)
    <3>1. Answer(w, NoFigures) /\ token' = token
      BY <2>11 DEF FailFetch
    <3>2. call'[w].stage = "answered"
      BY <3>1, AnswerEnds
    <3> QED
      BY <2>3, <2>4, <3>1, <3>2
  <2>12. CASE ReceiveAnswer(w)
    <3>1. Answer(w, NoFigures) /\ token' = token
      BY <2>12 DEF ReceiveAnswer
    <3>2. call'[w].stage = "answered"
      BY <3>1, AnswerEnds
    <3> QED
      BY <2>3, <2>4, <3>1, <3>2
  <2>13. CASE OpenStream(w)
    <3>1. token' = token
      BY <2>13 DEF OpenStream
    <3>2. call'[w].stage = "stream"
      BY <1>0, <2>13 DEF OpenStream, CallState
    <3> QED
      BY <2>3, <2>4, <3>1, <3>2
  <2>13a. CASE ReadContent(w)
    <3>1. call'[w].stage = "stream"
      BY <2>13a, ContentKeepsStage
    <3>2. token' = token
      BY <2>13a DEF ReadContent
    <3> QED
      BY <2>3, <2>4, <3>1, <3>2
  <2>14. ASSUME NEW usage \in {None} \cup Usages, EndStream(w, usage) PROVE TokensOK'
    <3> DEFINE t == call[w]
               n == OutputTokens(t, usage)
    <3>1. /\ Answer(w, [ok |-> TRUE, latency |-> After(w), ttft |-> TTFT(t), itl |-> ITL(t),
                        tpot |-> TPOT(t, n), outputTokens |-> n])
          /\ token' = token
      BY <2>14 DEF EndStream
    <3>2. call'[w].stage = "answered"
      BY <3>1, AnswerEnds
    <3> QED
      BY <2>3, <2>4, <3>1, <3>2
  <2>14a. ASSUME NEW usage \in {None} \cup Usages, BreakStream(w, usage) PROVE TokensOK'
    <3>1. /\ Answer(w, [NoFigures EXCEPT !.latency = After(w), !.ttft = TTFT(call[w]),
                                   !.outputTokens = usage])
          /\ token' = token
      BY <2>14a DEF BreakStream
    <3>2. call'[w].stage = "answered"
      BY <3>1, AnswerEnds
    <3> QED
      BY <2>3, <2>4, <3>1, <3>2
  <2>15. CASE EndCaller(w)
    <3>1. call'[w].stage = "idle" /\ token' = token
      BY <1>0, <2>15 DEF EndCaller, Idle
    <3> QED
      BY <2>3, <2>4, <3>1
  <2> QED
    BY <1>2, <2>5, <2>6, <2>7, <2>8, <2>9, <2>10, <2>11, <2>12, <2>13,
       <2>13a, <2>14, <2>14a, <2>15
       DEF Step, Call, Stream
<1>3. CASE UNCHANGED vars
  BY <1>3 DEF vars, TokensOK
<1> QED
  BY <1>1, <1>2, <1>3 DEF Next

LEMMA InitTokensOK == Init => TokensOK
<1> SUFFICES ASSUME Init PROVE TokensOK
  OBVIOUS
<1>1. token.expiresAt = 0 /\ token.issued = 0 /\ token.announced = 0
  BY DEF Init, NoToken, Never
<1>2. \A w \in Callers : call[w].stage = "idle"
  BY DEF Init, Idle
<1> QED
  BY <1>1, <1>2, TimesAreNaturals DEF TokensOK

(* Whatever the configuration, and whatever life the endpoint gives its    *)
(* tokens and does not tell, a request outlives its token by no more than  *)
(* the times leave open: nothing else adds to it.                          *)
THEOREM TokensCoverRequestsAlways == Spec => []TokensCoverRequests
<1>1. TypeOK /\ TokensOK => TokensCoverRequests
  <2> SUFFICES ASSUME TypeOK, TokensOK, NEW w \in Callers, call[w].stage = "request"
               PROVE  LET t == call[w]
                          ends == t.issued + t.life
                          trip == AuthTimeout + ProviderTimeout
                      IN  \/ clock <= ends + (trip - t.life)
                          \/ clock < ends + (trip - RefreshSkew) + (t.announced - t.life)
    BY DEF TokensCoverRequests
  <2>1. call[w] \in CallState /\ clock \in Nat
    BY DEF TypeOK
  <2> QED
    BY <2>1, TimesAreNaturals DEF TokensOK, CallState
<1> QED
  BY <1>1, InitOK, InitTokensOK, NextTyped, NextLineOK, NextTokensOK, PTL DEF Spec

(* A token whose life was told, and is no shorter than a fetch and a       *)
(* request, lasts until its request is over.                               *)
ToldTokensLast ==
    \A w \in Callers :
        /\ call[w].stage = "request"
        /\ call[w].announced = call[w].life /\ AuthTimeout + ProviderTimeout <= call[w].life
        => clock <= call[w].issued + call[w].life

(* The configured skew keeps requests within the lives of their tokens if  *)
(* it allows for a fetch and a request.                                    *)
THEOREM ToldTokensLastAlways ==
    ASSUME AuthTimeout + ProviderTimeout <= RefreshSkew
    PROVE  Spec => []ToldTokensLast
<1>1. TypeOK /\ TokensOK => ToldTokensLast
  <2> SUFFICES ASSUME TypeOK, TokensOK, NEW w \in Callers, call[w].stage = "request",
                      call[w].announced = call[w].life,
                      AuthTimeout + ProviderTimeout <= call[w].life
               PROVE  clock <= call[w].issued + call[w].life
    BY DEF ToldTokensLast
  <2>1. call[w] \in CallState /\ clock \in Nat
    BY DEF TypeOK
  <2> QED
    BY <2>1, TimesAreNaturals DEF TokensOK, CallState
<1> QED
  BY <1>1, InitOK, InitTokensOK, NextTyped, NextLineOK, NextTokensOK, PTL DEF Spec

-----------------------------------------------------------------------------
(* Time *)

(* No more callers are in line than there are, and one less when somebody is *)
(* not in it.                                                              *)
LEMMA LineFits ==
    ASSUME TypeOK, LineOK
    PROVE  /\ Len(line) \in Nat /\ Others \in Int
           /\ Len(line) <= Others + 1
           /\ \A w \in Callers : call[w].stage \notin {"wait", "fetch"} => Len(line) <= Others
<1> DEFINE f == [i \in Places |-> line[i]]
<1>1. Len(line) \in Nat /\ \A i \in Places : line[i] \in Callers
  BY DEF TypeOK, Places
<1>2. Cardinality(Places) = Len(line)
  <2> DEFINE n == Len(line)
  <2>1. n \in Int /\ 1 \in Int
    BY <1>1
  <2> HIDE DEF n
  <2>2. Cardinality(1 .. n) = IF 1 > n THEN 0 ELSE n - 1 + 1
    BY <2>1, FS_Interval
  <2> USE DEF n
  <2> QED
    BY <1>1, <2>2 DEF Places
<1>3. Cardinality(Callers) \in Nat
  BY CallersAssumption, FS_CardinalityType
<1>4. Len(line) <= Cardinality(Callers)
  <2>1. f \in Injection(Places, Callers)
    BY <1>1 DEF Injection, IsInjective, LineOK
  <2> QED
    BY <1>2, <2>1, CallersAssumption, FS_Injection
<1>5. ASSUME NEW w \in Callers, call[w].stage \notin {"wait", "fetch"}
      PROVE  Len(line) <= Others
  <2>1. \A i \in Places : line[i] \in Callers \ {w}
    BY <1>1, <1>5 DEF LineOK
  <2>2. f \in Injection(Places, Callers \ {w})
    BY <2>1 DEF Injection, IsInjective, LineOK
  <2>3. IsFiniteSet(Callers \ {w}) /\ Cardinality(Callers \ {w}) = Others
    BY CallersAssumption, FS_RemoveElement DEF Others
  <2> QED
    BY <1>2, <2>2, <2>3, FS_Injection
<1> QED
  BY <1>1, <1>3, <1>4, <1>5 DEF Others

(* Each step forward in the line leaves room for one more fetch. *)
LEMMA AheadOf ==
    ASSUME Others \in Int, NEW i \in Nat \ {0}, i <= Others + 1
    PROVE  /\ Ahead(i) \in Nat
           /\ Ahead(i + 1) \in Int /\ Ahead(i + 1) + AuthTimeout = Ahead(i)
           /\ Ahead(i) <= Others * AuthTimeout
<1> DEFINE k == Others + 1 - i
<1>1. k \in Nat /\ k <= Others /\ AuthTimeout \in Nat /\ Others \in Nat
  BY TimesAreNaturals
<1>2. Ahead(i) = k * AuthTimeout /\ Ahead(i + 1) = (k - 1) * AuthTimeout
  BY <1>1 DEF Ahead
<1>3. \A a, b \in Nat : a * b \in Nat
  OBVIOUS
<1>4. \A a \in Nat, b \in Nat : (a - 1) * b = a * b - b
  OBVIOUS
<1>5. \A a \in Nat, b \in Nat, c \in Nat : a <= b => a * c <= b * c
  <2> SUFFICES ASSUME NEW a \in Nat, NEW b \in Nat, NEW c \in Nat, a <= b
               PROVE  a * c <= b * c
    OBVIOUS
  <2>1. b - a \in Nat /\ (b - a) * c \in Nat /\ (b - a) * c = b * c - a * c
    OBVIOUS
  <2> QED
    BY <2>1
<1> HIDE DEF k
<1>6. k * AuthTimeout \in Nat
  BY <1>1, <1>3
<1>7. (k - 1) * AuthTimeout = k * AuthTimeout - AuthTimeout
  BY <1>1, <1>4
<1>8. k * AuthTimeout <= Others * AuthTimeout
  BY <1>1, <1>5
<1> DEFINE p == k * AuthTimeout
<1>9. p \in Nat /\ Ahead(i) = p /\ Ahead(i + 1) = p - AuthTimeout /\ p <= Others * AuthTimeout
  BY <1>2, <1>6, <1>7, <1>8
<1> HIDE DEF p
<1> QED
  BY <1>1, <1>9

(* Whoever waits is in time as long as the line is. *)
LEMMA WaitInTime ==
    ASSUME TypeOK, LineOK, LineInTime, NEW w \in Callers, call[w].stage = "wait"
    PROVE  clock <= call[w].began + Others * AuthTimeout
<1>1. PICK i \in Places : line[i] = w
  BY DEF LineOK
<1>2. i \in Nat \ {0} /\ i <= Others + 1 /\ Others \in Int /\ 1 \in Places
  BY LineFits DEF Places
<1>3. /\ Ahead(i) \in Nat /\ Ahead(i) <= Others * AuthTimeout /\ Ahead(1) <= Others * AuthTimeout
      /\ Others * AuthTimeout \in Int
  BY <1>2, AheadOf, TimesAreNaturals
<1>4. call[w] \in CallState /\ call[line[1]] \in CallState /\ clock \in Nat /\ line[1] \in Callers
  BY <1>2 DEF TypeOK, Places
<1>5. CASE call[line[1]].stage = "fetch"
  <2>1. i # 1
    BY <1>1, <1>5
  <2>2. i - 1 \in Nat \ {0} /\ i - 1 <= Others + 1 /\ (i - 1) + 1 = i
    BY <1>2, <2>1
  <2>3. Ahead(i) + AuthTimeout = Ahead(i - 1) /\ Ahead(i - 1) <= Others * AuthTimeout
        /\ Ahead(i - 1) \in Nat
    BY <1>2, <2>2, AheadOf
  <2>4. /\ clock <= call[line[1]].sent + AuthTimeout
        /\ call[line[1]].sent <= call[w].began + Ahead(i)
    BY <1>1, <1>2, <1>5, <2>1 DEF LineInTime
  <2> HIDE DEF Ahead
  <2>5. call[w].began \in Nat /\ call[line[1]].sent \in Nat
    BY <1>4 DEF CallState
  <2> QED
    BY <1>3, <1>4, <2>3, <2>4, <2>5, TimesAreNaturals
<1>6. CASE call[line[1]].stage # "fetch"
  <2>1. clock <= call[w].began + Ahead(i)
    BY <1>1, <1>6 DEF LineInTime
  <2>2. call[w].began \in Nat
    BY <1>4 DEF CallState
  <2> QED
    BY <1>3, <1>4, <2>1, <2>2
<1> QED
  BY <1>5, <1>6

(* The clock does not pass the limits of a fetch, nor does it go on while  *)
(* the mutex is free for the first of the line.                            *)
LEMMA TickInTime ==
    ASSUME TypeOK, LineOK, TimesOK, Tick
    PROVE  TimesOK'
<1>0. clock' = clock + 1 /\ call' = call /\ line' = line /\ clock \in Nat
  BY DEF Tick, TypeOK
<1>1. \A v \in Callers : ~Urgent(v) /\ call[v] \in CallState
  BY DEF Tick, TypeOK
<1>2. LineInTime'
  <2> SUFFICES ASSUME NEW i \in Places
               PROVE  LET first == call[line[1]]
                          began == call[line[i]].began
                      IN  IF first.stage = "fetch"
                          THEN /\ first.sent <= clock + 1 /\ clock + 1 <= first.sent + AuthTimeout
                               /\ i > 1 => first.sent <= began + Ahead(i)
                          ELSE clock + 1 <= began + Ahead(i)
    BY <1>0 DEF LineInTime, Places, Ahead, Others
  <2> DEFINE h == line[1]
  <2>1. h \in Callers /\ 1 \in Places /\ line # <<>>
    BY EmptySeq DEF TypeOK, Places
  <2>2. call[h].stage # "wait"
    BY <1>1, <2>1 DEF Urgent, Holds
  <2>3. call[h].stage = "fetch"
    BY <2>1, <2>2 DEF LineOK
  <2>4. ~(clock >= FetchLimit(h))
    BY <1>1, <2>1, <2>3 DEF Urgent
  <2>5. call[h].sent \in Nat /\ call[h].until \in Nat
    BY <1>1, <2>1 DEF CallState
  <2>6. clock < call[h].sent + AuthTimeout
    BY <1>0, <2>4, <2>5, TimesAreNaturals DEF FetchLimit, Earlier
  <2>7. call[h].sent <= clock /\ (i > 1 => call[h].sent <= call[line[i]].began + Ahead(i))
    BY <2>3 DEF TimesOK, LineInTime
  <2> HIDE DEF h
  <2> QED
    BY <1>0, <2>3, <2>5, <2>6, <2>7, TimesAreNaturals DEF h
<1>3. ASSUME NEW v \in Callers, call[v].stage \in {"fetch", "request", "stream"}
      PROVE  clock + 1 <= call[v].until
  <2>1. ~(clock >= FetchLimit(v)) \/ ~(clock >= RequestLimit(v))
    BY <1>1, <1>3 DEF Urgent
  <2>2. call[v].sent \in Nat /\ call[v].until \in Nat
    BY <1>1 DEF CallState
  <2> QED
    BY <1>0, <2>1, <2>2, TimesAreNaturals DEF FetchLimit, RequestLimit, Earlier
<1>4. CallingInTime'
  BY <1>0, <1>3 DEF CallingInTime, Alive
<1> QED
  BY <1>2, <1>4 DEF TimesOK

(* LineInTime in the next state, spelt out. *)
LEMMA LineInTimeNext ==
    ASSUME \A i \in Places' :
              IF call'[line'[1]].stage = "fetch"
              THEN /\ call'[line'[1]].sent <= clock' /\ clock' <= call'[line'[1]].sent + AuthTimeout
                   /\ i > 1 => call'[line'[1]].sent <= call'[line'[i]].began + Ahead(i)
              ELSE clock' <= call'[line'[i]].began + Ahead(i)
    PROVE  LineInTime'
BY DEF LineInTime, Ahead, Others

(* Whoever gets into line has at most all the others ahead. *)
LEMMA JoinInTime ==
    ASSUME TypeOK, LineOK, TimesOK, NEW w \in Callers, Step(w), Joins(w)
    PROVE  TimesOK'
<1>0. clock' = clock /\ clock \in Nat /\ \A v \in Callers \ {w} : call'[v] = call[v]
  BY OthersStay DEF TypeOK
<1>1. /\ Len(line) + 1 \in Nat \ {0} /\ Places' = 1 .. Len(line) + 1
      /\ \A i \in Places : line'[i] = line[i] /\ line[i] \in Callers \ {w}
      /\ line'[Len(line) + 1] = w
  BY <1>0, LineGrows DEF Joins
<1>2. Len(line) \in Nat /\ Len(line) <= Others /\ Others \in Int
  BY LineFits DEF Joins
<1>3. call'[w].stage = "wait" /\ call'[w].began = clock
  BY DEF Joins
<1>4. Ahead(Len(line) + 1) \in Nat
  BY <1>1, <1>2, AheadOf
<1>5. ASSUME NEW i \in Places'
      PROVE  IF call'[line'[1]].stage = "fetch"
             THEN /\ call'[line'[1]].sent <= clock' /\ clock' <= call'[line'[1]].sent + AuthTimeout
                  /\ i > 1 => call'[line'[1]].sent <= call'[line'[i]].began + Ahead(i)
             ELSE clock' <= call'[line'[i]].began + Ahead(i)
  <2>1. CASE i \in Places
    <3>1. 1 \in Places
      BY <2>1 DEF Places
    <3>2. call'[line'[1]] = call[line[1]] /\ call'[line'[i]] = call[line[i]]
      BY <1>0, <1>1, <2>1, <3>1
    <3> QED
      BY <1>0, <2>1, <3>2 DEF TimesOK, LineInTime
  <2>2. CASE i = Len(line) + 1
    <3>1. clock' <= call'[line'[i]].began + Ahead(i) /\ call'[line'[i]].began = clock
      BY <1>0, <1>1, <1>3, <1>4, <2>2
    <3>2. CASE i > 1
      <4>1. 1 \in Places
        BY <1>2, <2>2, <3>2 DEF Places
      <4>2. call'[line'[1]] = call[line[1]] /\ call[line[1]] \in CallState
        BY <1>0, <1>1, <4>1 DEF TypeOK
      <4>3. call[line[1]].sent \in Nat
        BY <4>2 DEF CallState
      <4>4. call[line[1]].stage = "fetch" =>
              call[line[1]].sent <= clock /\ clock <= call[line[1]].sent + AuthTimeout
        BY <4>1 DEF TimesOK, LineInTime
      <4> QED
        BY <1>0, <1>4, <2>2, <3>1, <4>2, <4>3, <4>4
    <3>3. CASE i = 1
      <4>1. call'[line'[1]].stage = "wait"
        BY <1>1, <1>3, <2>2, <3>3
      <4> QED
        BY <3>1, <4>1
    <3> QED
      BY <1>1, <3>2, <3>3
  <2> QED
    BY <1>1, <1>2, <2>1, <2>2 DEF Places
<1>6. CallingInTime'
  BY <1>0, <1>3 DEF TimesOK, CallingInTime, Alive, Others
<1> QED
  BY <1>5, <1>6, LineInTimeNext DEF TimesOK

(* When the first of the line leaves it, all the others have one fetch     *)
(* less ahead of them.                                                     *)
LEMMA LeaveInTime ==
    ASSUME TypeOK, LineOK, TimesOK, NEW w \in Callers, Step(w), Leaves(w)
    PROVE  TimesOK'
<1>0. clock' = clock /\ clock \in Nat /\ (\A v \in Callers \ {w} : call'[v] = call[v])
      /\ \A v \in Callers : call[v] \in CallState
  BY OthersStay DEF TypeOK
<1>1. /\ LineOK'
      /\ Places' = 1 .. Len(line) - 1
      /\ \A i \in Places' : i + 1 \in Places /\ line'[i] = line[i + 1] /\ line'[i] \in Callers \ {w}
  BY <1>0, LineMovesUp DEF Leaves
<1>2. Len(line) \in Nat /\ Len(line) <= Others + 1 /\ Others \in Int
  BY LineFits
<1>3. line[1] = w /\ call[w].stage \in {"wait", "fetch"} /\ 1 \in Places
  BY EmptySeq DEF Leaves, Places, TypeOK
<1>4. ASSUME NEW i \in Places'
      PROVE  IF call'[line'[1]].stage = "fetch"
             THEN /\ call'[line'[1]].sent <= clock' /\ clock' <= call'[line'[1]].sent + AuthTimeout
                  /\ i > 1 => call'[line'[1]].sent <= call'[line'[i]].began + Ahead(i)
             ELSE clock' <= call'[line'[i]].began + Ahead(i)
  <2>0. i \in 1 .. Len(line) - 1 /\ i + 1 \in Places
    BY <1>1
  <2>0a. 1 \in 1 .. Len(line) - 1
    BY <1>2, <2>0
  <2>1. i \in Nat \ {0} /\ i <= Others + 1 /\ i + 1 \in Places /\ i + 1 > 1 /\ 1 \in Places'
    BY <1>1, <1>2, <2>0, <2>0a
  <2>2. /\ call'[line'[i]] = call[line[i + 1]] /\ line[i + 1] \in Callers
        /\ call'[line'[1]] = call[line[1 + 1]] /\ 1 + 1 \in Places /\ 1 + 1 # 1
    BY <1>0, <1>1, <2>1
  <2>3. call'[line'[1]].stage = "wait"
    BY <2>2 DEF LineOK
  <2>4. Ahead(i) \in Nat /\ Ahead(i + 1) \in Int /\ Ahead(i + 1) + AuthTimeout = Ahead(i)
    BY <1>2, <2>1, AheadOf
  <2> DEFINE began == call[line[i + 1]].began
  <2>5. began \in Nat /\ call[w].sent \in Nat
    BY <1>0, <2>2 DEF CallState
  <2>6. clock <= began + Ahead(i)
    <3>1. CASE call[w].stage = "fetch"
      <4>1. clock <= call[w].sent + AuthTimeout /\ call[w].sent <= began + Ahead(i + 1)
        BY <1>3, <2>1, <3>1 DEF TimesOK, LineInTime
      <4> HIDE DEF began
      <4> QED
        BY <1>0, <2>4, <2>5, <4>1, TimesAreNaturals
    <3>2. CASE call[w].stage = "wait"
      <4>1. clock <= began + Ahead(i + 1)
        BY <1>3, <2>1, <3>2 DEF TimesOK, LineInTime
      <4> HIDE DEF began
      <4> QED
        BY <1>0, <2>4, <2>5, <4>1, TimesAreNaturals
    <3> QED
      BY <1>3, <3>1, <3>2
  <2> QED
    BY <1>0, <2>2, <2>3, <2>6
<1>5. Alive(w) \/ clock <= call[w].began + Others * AuthTimeout
  BY <1>3, WaitInTime DEF TimesOK, CallingInTime
<1>6. call'[w].stage \in {"fetch", "request", "stream"} =>
        call'[w].began = call[w].began /\ call'[w].until = call[w].until
  BY DEF Leaves
<1>7. CallingInTime'
  BY <1>0, <1>5, <1>6 DEF TimesOK, CallingInTime, Alive, Others
<1> QED
  BY <1>4, <1>7, LineInTimeNext DEF TimesOK

(* Steps that do not change the line take no time. *)
LEMMA StayInTime ==
    ASSUME TypeOK, LineOK, TimesOK, NEW w \in Callers, Step(w), Stays(w)
    PROVE  TimesOK'
<1>0. clock' = clock /\ clock \in Nat /\ (\A v \in Callers \ {w} : call'[v] = call[v])
      /\ \A v \in Callers : call[v] \in CallState
  BY OthersStay DEF TypeOK
<1>1. line' = line /\ Places' = Places
  BY DEF Stays, Places
<1>2. CallingInTime'
  <2>1. ASSUME call'[w].stage \in {"fetch", "request", "stream"}
        PROVE  Alive(w) \/ clock <= call[w].began + Others * AuthTimeout
    <3>1. call[w].stage \in Calling
      BY <2>1 DEF Stays, Calling
    <3> QED
      BY <3>1, WaitInTime DEF TimesOK, CallingInTime, Calling
  <2>2. call'[w].stage \in {"fetch", "request", "stream"} =>
          call'[w].began = call[w].began /\ call'[w].until = call[w].until
    BY DEF Stays, Calling
  <2> QED
    BY <1>0, <2>1, <2>2 DEF TimesOK, CallingInTime, Alive, Others
<1>3. CASE call[w].stage \notin {"wait", "fetch"}
  <2>1. \A i \in Places : line[i] \in Callers \ {w}
    BY <1>3 DEF LineOK, TypeOK, Places
  <2>2. \A i \in Places : call'[line[i]] = call[line[i]] /\ 1 \in Places
    BY <1>0, <2>1 DEF Places, TypeOK
  <2>3. LineInTime'
    BY <1>0, <1>1, <2>2 DEF TimesOK, LineInTime, Ahead, Others
  <2> QED
    BY <1>2, <2>3 DEF TimesOK
<1>4. CASE call[w].stage \in {"wait", "fetch"}
  <2>1. line[1] = w /\ call'[w].stage = "fetch" /\ call'[w].began = call[w].began
        /\ call'[w].sent = IF call[w].stage = "wait" THEN clock ELSE call[w].sent
    BY <1>4 DEF Stays, Calling
  <2>2. ASSUME NEW i \in Places
        PROVE  /\ call'[w].sent <= clock /\ clock <= call'[w].sent + AuthTimeout
               /\ i > 1 => call'[w].sent <= call'[line[i]].began + Ahead(i)
    <3>1. call'[line[i]].began = call[line[i]].began
      BY <1>0, <2>1 DEF TypeOK, Places
    <3>2. CASE call[w].stage = "wait"
      BY <1>0, <2>1, <3>1, <3>2, TimesAreNaturals DEF TimesOK, LineInTime
    <3>3. CASE call[w].stage = "fetch"
      BY <1>0, <2>1, <3>1, <3>3, TimesAreNaturals DEF TimesOK, LineInTime
    <3> QED
      BY <1>4, <3>2, <3>3
  <2>3. LineInTime'
    BY <1>0, <1>1, <2>1, <2>2, LineInTimeNext
  <2> QED
    BY <1>2, <2>3 DEF TimesOK
<1> QED
  BY <1>3, <1>4

LEMMA NextTimesOK == TypeOK /\ LineOK /\ TimesOK /\ [Next]_vars => TimesOK'
<1> SUFFICES ASSUME TypeOK, LineOK, TimesOK, [Next]_vars PROVE TimesOK'
  OBVIOUS
<1>1. ASSUME NEW w \in Callers, Step(w) PROVE TimesOK'
  BY <1>1, StepShape, JoinInTime, LeaveInTime, StayInTime
<1>2. CASE UNCHANGED vars
  BY <1>2 DEF vars, TimesOK, LineInTime, CallingInTime, Alive, Places, Ahead, Others
<1> QED
  BY <1>1, <1>2, TickInTime DEF Next

(* No call goes on for longer than its task's time limit, or than the      *)
(* fetches of all the other callers, those of the same task included, may  *)
(* take after it began.                                                    *)
THEOREM CallsEndInTimeAlways == Spec => []CallsEndInTime
<1>1. Init => TimesOK
  <2> SUFFICES ASSUME Init PROVE TimesOK
    OBVIOUS
  <2>1. Places = {} /\ \A w \in Callers : call[w].stage = "idle"
    BY DEF Init, Places, Idle
  <2> QED
    BY <2>1 DEF TimesOK, LineInTime, CallingInTime
<1>2. TypeOK /\ LineOK /\ TimesOK => CallsEndInTime
  BY WaitInTime DEF TimesOK, CallingInTime, CallsEndInTime, Others
<1> QED
  BY <1>1, <1>2, InitOK, NextTyped, NextLineOK, NextTimesOK, PTL DEF Spec

-----------------------------------------------------------------------------
(* Figures *)

(* A mean, taken as often as there are shares, does not exceed the sum. *)
LEMMA MeanOfShares == \A a \in Nat, n \in Nat \ {0} : (a \div n) \in Nat /\ (a \div n) * n <= a
OBVIOUS

(* The figures of a stream that ends, and of one that breaks off. *)
LEMMA StreamFigures ==
    ASSUME NEW t \in CallState, clock \in Nat, t.stage = "stream", t.began <= clock,
           IF t.first = Never THEN t.chunks = 0 /\ t.gapSum = 0
           ELSE t.began <= t.first /\ t.first <= t.previous /\ t.previous <= clock
                /\ t.chunks > 0 /\ t.gapSum = t.previous - t.first
    PROVE  /\ TTFT(t) \in Int
           /\ TTFT(t) # None => TTFT(t) + t.gapSum <= clock - t.began
           /\ ITL(t) # None =>
                TTFT(t) # None /\ TTFT(t) + ITL(t) * (t.chunks - 1) <= clock - t.began
           /\ \A n \in Int : TPOT(t, n) # None =>
                TTFT(t) # None /\ TTFT(t) + TPOT(t, n) * n <= clock - t.began
<1>0. /\ t.began \in Nat /\ t.first \in Nat /\ t.previous \in Nat /\ t.gapSum \in Int
      /\ t.chunks \in Nat
  BY DEF CallState
<1>1. TTFT(t) \in Int /\ (t.first # Never => TTFT(t) = t.first - t.began /\ TTFT(t) # None)
      /\ (t.first = Never => TTFT(t) = None)
  BY <1>0 DEF TTFT, None
<1>2. TTFT(t) # None => TTFT(t) + t.gapSum <= clock - t.began
  BY <1>0, <1>1
<1>3. ASSUME ITL(t) # None
      PROVE  TTFT(t) # None /\ TTFT(t) + ITL(t) * (t.chunks - 1) <= clock - t.began
  <2>1. t.chunks > 1 /\ ITL(t) = t.gapSum \div (t.chunks - 1)
    BY <1>3 DEF ITL
  <2>2. t.first # Never /\ TTFT(t) # None
    BY <1>0, <1>1, <2>1
  <2>3. t.gapSum \in Nat /\ t.chunks - 1 \in Nat \ {0}
    BY <1>0, <2>1, <2>2
  <2>4. (t.gapSum \div (t.chunks - 1)) * (t.chunks - 1) <= t.gapSum
        /\ (t.gapSum \div (t.chunks - 1)) \in Nat
    BY <2>3, MeanOfShares
  <2> DEFINE share == ITL(t) * (t.chunks - 1)
  <2>5. share <= t.gapSum /\ share \in Int
    BY <2>1, <2>3, <2>4
  <2> HIDE DEF share
  <2>6. TTFT(t) + share <= clock - t.began
    BY <1>0, <1>1, <1>2, <2>2, <2>5
  <2> QED
    BY <2>2, <2>6 DEF share
<1>4. ASSUME NEW n \in Int, TPOT(t, n) # None
      PROVE  TTFT(t) # None /\ TTFT(t) + TPOT(t, n) * n <= clock - t.began
  <2>1. t.first # Never /\ n > 0 /\ clock > t.first /\ TPOT(t, n) = (clock - t.first) \div n
    BY <1>4 DEF TPOT
  <2>2. clock - t.first \in Nat /\ n \in Nat \ {0}
    BY <1>0, <2>1
  <2>3. ((clock - t.first) \div n) * n <= clock - t.first /\ ((clock - t.first) \div n) \in Nat
    BY <2>2, MeanOfShares
  <2> DEFINE share == TPOT(t, n) * n
  <2>4. share <= clock - t.first /\ share \in Int
    BY <2>1, <2>2, <2>3
  <2> HIDE DEF share
  <2>5. TTFT(t) + share <= clock - t.began
    BY <1>0, <1>1, <2>1, <2>4
  <2> QED
    BY <1>1, <2>1, <2>5 DEF share
<1> QED
  BY <1>1, <1>2, <1>3, <1>4

(* A caller's step changes no other caller's result. *)
LEMMA OtherResultsStay ==
    ASSUME TypeOK, NEW w \in Callers, Step(w)
    PROVE  \A v \in Callers \ {w} : result'[v] = result[v]
<1> SUFFICES ASSUME NEW v \in Callers \ {w} PROVE result'[v] = result[v]
  OBVIOUS
<1>0. DOMAIN result = Callers
  BY DEF TypeOK
<1>1. CASE Begin(w) \/ UseCached(w) \/ Fetch(w) \/ OpenStream(w) \/ ReadContent(w) \/ EndCaller(w)
  BY <1>0, <1>1 DEF Begin, BeginCaller, UseCached, Fetch, OpenStream, ReadContent, EndCaller
<1>2. ASSUME NEW r, Answer(w, r) PROVE result'[v] = result[v]
  BY <1>0, <1>2 DEF Answer
<1>3. CASE ReceiveToken(w)
  BY <1>2, <1>3 DEF ReceiveToken
<1>4. CASE FailFetch(w)
  BY <1>2, <1>4 DEF FailFetch
<1>5. CASE \E kind \in KindsOf[w] : BeginCall(w, kind)
  BY <1>0, <1>5 DEF BeginCall
<1>6. CASE \E life \in Lifetimes : \E announced \in {life, DefaultLifetime} : Issue(w, life, announced)
  BY <1>6 DEF Issue
<1>7. CASE ReceiveAnswer(w)
  BY <1>2, <1>7 DEF ReceiveAnswer
<1>8. CASE \E usage \in {None} \cup Usages : EndStream(w, usage) \/ BreakStream(w, usage)
  BY <1>2, <1>8 DEF EndStream, BreakStream
<1> QED
  BY <1>1, <1>3, <1>4, <1>5, <1>6, <1>7, <1>8 DEF Step, Call, Stream

(* The figures of one call, as FiguresAddUp states them. *)
Adds(r, t) ==
    t.stage = "answered" =>
        /\ r.ttft # None => r.ttft + t.gapSum <= r.latency
        /\ r.itl # None => r.ok /\ r.ttft # None /\ r.ttft + r.itl * (t.chunks - 1) <= r.latency
        /\ r.tpot # None => r.ok /\ r.ttft # None /\ r.ttft + r.tpot * r.outputTokens <= r.latency

(* The figures of an answer are those it is given, and the stream is kept. *)
LEMMA AnswerFigures ==
    ASSUME TypeOK, NEW w \in Callers, NEW r, Answer(w, r)
    PROVE  /\ result'[w] = r
           /\ call'[w].stage = "answered" /\ call'[w].gapSum = call[w].gapSum
           /\ call'[w].chunks = call[w].chunks
BY DEF Answer, Idle, TypeOK, CallState

(* A call that is not a stream has no figures. *)
LEMMA NoFiguresAdd ==
    ASSUME TypeOK, NEW w \in Callers, Answer(w, NoFigures)
    PROVE  GapsAddUp(call[w])' /\ Adds(result[w], call[w])'
<1>1. result'[w] = NoFigures /\ call'[w].stage = "answered"
  BY AnswerFigures
<1>2. result'[w].ttft = None /\ result'[w].itl = None /\ result'[w].tpot = None
  BY <1>1 DEF NoFigures
<1> QED
  BY <1>1, <1>2 DEF GapsAddUp, Adds

(* A call that goes on has recorded nothing that its stream does not hold. *)
LEMMA StepGaps ==
    ASSUME TypeOK, StreamOK, NEW w \in Callers, Step(w)
    PROVE  GapsAddUp(call[w])' /\ Adds(result[w], call[w])'
<1>0. /\ DOMAIN call = Callers /\ DOMAIN result = Callers /\ call[w] \in CallState /\ GapsAddUp(call[w])
      /\ clock \in Nat \ {0}
  BY DEF TypeOK, StreamOK
<1>0a. /\ call[w].began \in Nat /\ call[w].first \in Nat /\ call[w].previous \in Nat
       /\ call[w].gapSum \in Int /\ call[w].chunks \in Nat
  BY <1>0 DEF CallState
<1>1. ASSUME call'[w].stage \in {"idle", "ready"} PROVE GapsAddUp(call[w])' /\ Adds(result[w], call[w])'
  BY <1>1 DEF GapsAddUp, Adds
<1>2. ASSUME clock' = clock, call'[w].stage \in {"fetch", "request", "stream"},
             call[w].stage \in {"wait", "fetch", "request"},
             call'[w].began = call[w].began, call'[w].first = call[w].first,
             call'[w].chunks = call[w].chunks, call'[w].gapSum = call[w].gapSum
      PROVE  GapsAddUp(call[w])' /\ Adds(result[w], call[w])'
  BY <1>0, <1>2 DEF GapsAddUp, Adds
<1>3. CASE Begin(w)
  BY <1>0, <1>1, <1>3 DEF Begin, BeginCaller, CallState
<1>4. ASSUME NEW kind \in KindsOf[w], BeginCall(w, kind)
      PROVE  GapsAddUp(call[w])' /\ Adds(result[w], call[w])'
  <2>1. /\ call'[w].stage = "wait" /\ call'[w].began = clock /\ call'[w].first = Never
        /\ call'[w].chunks = 0 /\ call'[w].gapSum = 0 /\ clock' = clock
    BY <1>0, <1>4 DEF BeginCall, Idle
  <2> QED
    BY <1>0, <2>1 DEF GapsAddUp, Adds
<1>5. CASE UseCached(w)
  BY <1>0, <1>2, <1>5 DEF UseCached, Request, CallState
<1>6. CASE Fetch(w)
  BY <1>0, <1>2, <1>6 DEF Fetch, CallState
<1>7. ASSUME NEW life, NEW announced, Issue(w, life, announced)
      PROVE  GapsAddUp(call[w])' /\ Adds(result[w], call[w])'
  BY <1>0, <1>2, <1>7 DEF Issue, CallState
<1>8. CASE ReceiveToken(w)
  <2>1. call[w].stage = "fetch" /\ clock' = clock
    BY <1>8 DEF ReceiveToken
  <2>2. CASE call[w].kind = "check"
    BY <1>8, <2>2, NoFiguresAdd DEF ReceiveToken
  <2>3. CASE call[w].kind # "check"
    <3>1. PICK tk : call' = [call EXCEPT ![w] = Request(call[w], tk)]
      BY <1>8, <2>3 DEF ReceiveToken
    <3> QED
      BY <1>0, <1>2, <2>1, <3>1 DEF Request, CallState
  <2> QED
    BY <2>2, <2>3
<1>9. CASE FailFetch(w)
  BY <1>9, NoFiguresAdd DEF FailFetch
<1>10. CASE ReceiveAnswer(w)
  BY <1>10, NoFiguresAdd DEF ReceiveAnswer
<1>11. CASE OpenStream(w)
  BY <1>0, <1>2, <1>11 DEF OpenStream, CallState
<1>12. CASE ReadContent(w)
  <2>1. call[w].stage = "stream" /\ clock' = clock /\ call' = [call EXCEPT ![w] = WithContent(call[w])]
    BY <1>12 DEF ReadContent
  <2>2. call'[w] = WithContent(call[w])
    BY <1>0, <2>1
  <2>3. CASE call[w].first = Never
    <3>1. /\ call'[w].first = clock /\ call'[w].previous = clock
          /\ call'[w].chunks = call[w].chunks + 1 /\ call'[w].gapSum = call[w].gapSum
          /\ call'[w].began = call[w].began /\ call'[w].stage = "stream"
      BY <1>0, <2>1, <2>2, <2>3 DEF WithContent, CallState
    <3> QED
      BY <1>0, <1>0a, <2>1, <2>3, <3>1 DEF GapsAddUp, Adds, Never
  <2>4. CASE call[w].first # Never
    <3>1. /\ call'[w].first = call[w].first /\ call'[w].previous = clock
          /\ call'[w].chunks = call[w].chunks + 1
          /\ call'[w].gapSum = call[w].gapSum + (clock - call[w].previous)
          /\ call'[w].began = call[w].began /\ call'[w].stage = "stream"
      BY <1>0, <2>1, <2>2, <2>4 DEF WithContent, CallState
    <3> QED
      BY <1>0, <1>0a, <2>1, <2>4, <3>1 DEF GapsAddUp, Adds
  <2> QED
    BY <2>3, <2>4
<1>13. ASSUME call[w].stage = "stream"
       PROVE  /\ TTFT(call[w]) \in Int
              /\ TTFT(call[w]) # None => TTFT(call[w]) + call[w].gapSum <= After(w)
              /\ ITL(call[w]) # None =>
                   TTFT(call[w]) # None /\ TTFT(call[w]) + ITL(call[w]) * (call[w].chunks - 1) <= After(w)
              /\ \A n \in Int : TPOT(call[w], n) # None =>
                   TTFT(call[w]) # None /\ TTFT(call[w]) + TPOT(call[w], n) * n <= After(w)
  BY <1>0, <1>13, StreamFigures DEF GapsAddUp, After
<1>14. ASSUME NEW usage \in {None} \cup Usages, EndStream(w, usage)
       PROVE  GapsAddUp(call[w])' /\ Adds(result[w], call[w])'
  <2> DEFINE t == call[w]
             n == OutputTokens(t, usage)
             r == [ok |-> TRUE, latency |-> After(w), ttft |-> TTFT(t), itl |-> ITL(t),
                   tpot |-> TPOT(t, n), outputTokens |-> n]
  <2>1. Answer(w, r) /\ t.stage = "stream"
    BY <1>14 DEF EndStream
  <2>1a. usage \in Int
    BY TimesAreNaturals DEF None
  <2>2. n \in Int
    BY <1>0a, <2>1a DEF OutputTokens
  <2>3. /\ result'[w] = r
        /\ call'[w].stage = "answered" /\ call'[w].gapSum = t.gapSum /\ call'[w].chunks = t.chunks
    BY <2>1, AnswerFigures
  <2>4. /\ r.ok /\ r.latency = After(w) /\ r.ttft = TTFT(t) /\ r.itl = ITL(t)
        /\ r.tpot = TPOT(t, n) /\ r.outputTokens = n
    OBVIOUS
  <2> HIDE DEF n, r
  <2>5. Adds(r, call[w]')
    BY <1>13, <2>1, <2>2, <2>3, <2>4 DEF Adds
  <2> QED
    BY <2>3, <2>5 DEF GapsAddUp
<1>15. ASSUME NEW usage \in {None} \cup Usages, BreakStream(w, usage)
       PROVE  GapsAddUp(call[w])' /\ Adds(result[w], call[w])'
  <2> DEFINE r == [NoFigures EXCEPT !.latency = After(w), !.ttft = TTFT(call[w]), !.outputTokens = usage]
  <2>1. Answer(w, r) /\ call[w].stage = "stream"
    BY <1>15 DEF BreakStream
  <2>2. /\ result'[w] = r
        /\ call'[w].stage = "answered" /\ call'[w].gapSum = call[w].gapSum
    BY <2>1, AnswerFigures
  <2>3. r.latency = After(w) /\ r.ttft = TTFT(call[w]) /\ r.itl = None /\ r.tpot = None
    BY DEF NoFigures
  <2> HIDE DEF r
  <2>4. Adds(r, call[w]')
    BY <1>13, <2>1, <2>2, <2>3 DEF Adds
  <2> QED
    BY <2>2, <2>4 DEF GapsAddUp
<1>16. CASE EndCaller(w)
  BY <1>0, <1>1, <1>16 DEF EndCaller, Idle
<1> QED
  BY <1>3, <1>4, <1>5, <1>6, <1>7, <1>8, <1>9, <1>10, <1>11, <1>12, <1>14, <1>15, <1>16
     DEF Step, Call, Stream

LEMMA NextFiguresOK == TypeOK /\ LineOK /\ FiguresOK /\ [Next]_vars => FiguresOK'
<1> SUFFICES ASSUME TypeOK, LineOK, FiguresOK, [Next]_vars PROVE FiguresOK'
  OBVIOUS
<1>0. \A v \in Callers : GapsAddUp(call[v]) /\ Adds(result[v], call[v])
  BY DEF FiguresOK, StreamOK, FiguresAddUp, Adds
<1>1. ASSUME \A v \in Callers : GapsAddUp(call[v])' /\ Adds(result[v], call[v])' PROVE FiguresOK'
  BY <1>1 DEF FiguresOK, StreamOK, FiguresAddUp, Adds
<1>2. CASE Tick
  <2>1. clock' = clock + 1 /\ call' = call /\ result' = result /\ clock \in Nat
    BY <1>2 DEF Tick, TypeOK
  <2>2. ASSUME NEW v \in Callers PROVE GapsAddUp(call[v])'
    <3>1. call[v].began \in Nat /\ call[v].previous \in Nat
      BY DEF TypeOK, CallState
    <3> QED
      BY <1>0, <2>1, <3>1 DEF GapsAddUp
  <2> QED
    BY <1>0, <1>1, <2>1, <2>2 DEF Adds
<1>3. ASSUME NEW w \in Callers, Step(w) PROVE FiguresOK'
  <2>1. GapsAddUp(call[w])' /\ Adds(result[w], call[w])'
    BY <1>3, StepGaps DEF FiguresOK
  <2>2. ASSUME NEW v \in Callers \ {w} PROVE GapsAddUp(call[v])' /\ Adds(result[v], call[v])'
    <3>1. call'[v] = call[v] /\ clock' = clock /\ result'[v] = result[v]
      BY <1>3, <2>2, OthersStay, OtherResultsStay
    <3> QED
      BY <1>0, <3>1 DEF GapsAddUp, Adds
  <2> QED
    BY <1>1, <2>1, <2>2
<1>4. CASE UNCHANGED vars
  BY <1>4 DEF vars, FiguresOK, StreamOK, GapsAddUp, FiguresAddUp
<1> QED
  BY <1>2, <1>3, <1>4 DEF Next

(* The times that a probe reports fit into its latency, for any times of   *)
(* arrival, any number of tokens and any reported usage.                   *)
THEOREM FiguresAddUpAlways == Spec => []FiguresAddUp
<1>1. Init => FiguresOK
  <2> SUFFICES ASSUME Init PROVE FiguresOK
    OBVIOUS
  <2>1. \A w \in Callers : call[w].stage = "idle"
    BY DEF Init, Idle
  <2> QED
    BY <2>1 DEF FiguresOK, StreamOK, GapsAddUp, FiguresAddUp
<1>2. FiguresOK => FiguresAddUp
  BY DEF FiguresOK
<1> QED
  BY <1>1, <1>2, InitOK, NextTyped, NextLineOK, NextFiguresOK, PTL DEF Spec
=============================================================================
