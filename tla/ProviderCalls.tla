---------------------------- MODULE ProviderCalls ----------------------------
(***************************************************************************)
(* Calls to one provider that a worker process makes at the same time: the *)
(* access token they share (auth/provider.go), the request                 *)
(* (llm/transport.go) and, for a chat probe, its stream (llm/chat.go,      *)
(* llm/stream.go).                                                         *)
(*                                                                         *)
(* A caller makes one call after the other: a task that has one goroutine, *)
(* or one of the goroutines that a snapshot probes models with, at most    *)
(* max_concurrency at a time.  Callers of one task share its time limit.   *)
(*                                                                         *)
(* The token is guarded by a mutex that is held while a new one is         *)
(* fetched.  Whoever waits for it does not look at his task's time limit;  *)
(* the fetch and the request do.  Go hands the mutex over in the order of  *)
(* arrival once somebody waits longer than a millisecond.                  *)
(*                                                                         *)
(* A request is one exchange with all its retries: they use one token and  *)
(* share one timeout.  Health checks, inventories and embedding probes are *)
(* alike here ("ask"): one answer, read at once.  A provider with a static *)
(* token keeps no state and is left out.                                   *)
(***************************************************************************)
EXTENDS Integers, Sequences, FiniteSets

CONSTANTS
    Callers,            \* goroutines that may call at the same time
    TaskOf,             \* [Callers -> tasks]: whose goroutine a caller is
    KindsOf,            \* [Callers -> SUBSET Kind]: the calls that a caller makes
    MaxTime,            \* bound on the clock
    MaxChunks,          \* bound on the tokens of a stream
    TaskTimeout,        \* the time limit of a task
    AuthTimeout,        \* providers[].auth.timeout
    ProviderTimeout,    \* providers[].timeout, retries included
    RefreshSkew,        \* providers[].auth.refresh_skew
    Lifetimes,          \* the lifetimes the endpoint gives its tokens
    DefaultLifetime,    \* assumed when expires_in is missing
    Usages              \* completion tokens that a stream may report

Kind == {"check", "ask", "chat"}

ASSUME CallersAssumption == IsFiniteSet(Callers) /\ KindsOf \in [Callers -> SUBSET Kind]
ASSUME TimesAssumption ==
    /\ {MaxTime, MaxChunks, TaskTimeout, AuthTimeout, ProviderTimeout, RefreshSkew,
        DefaultLifetime} \subseteq Nat
    /\ Lifetimes \subseteq Nat \ {0}
    /\ Usages \subseteq Nat

VARIABLES
    clock,      \* the wall clock
    token,      \* the cached token
    line,       \* the callers at the mutex; the first one holds it
    call,       \* what each caller is doing
    result      \* the figures that its last call returned, if it was a stream

vars == <<clock, token, line, call, result>>

Never == 0
None == -1

(* A token was issued for a life; the program takes it to have been        *)
(* announced for some time, and to end at expiresAt.                       *)
NoToken == [issued |-> Never, life |-> 0, announced |-> 0, expiresAt |-> Never]

(* until: the time limit of the caller's task; began: the call's start;    *)
(* sent: that of the fetch or the request; issued, life, announced: the    *)
(* token on its way, or in use by the request; the rest: the stream so     *)
(* far.                                                                    *)
Idle == [stage |-> "idle", kind |-> "none", until |-> Never, began |-> Never, sent |-> Never,
         issued |-> Never, life |-> 0, announced |-> 0,
         first |-> Never, previous |-> Never, gapSum |-> 0, chunks |-> 0]

NoFigures == [ok |-> FALSE, latency |-> None, ttft |-> None, itl |-> None, tpot |-> None,
              outputTokens |-> None]

Alive(w) == clock <= call[w].until
Holds(w) == line # <<>> /\ Head(line) = w

(* A bug used to validate the checks: a fetch does not carry the context. *)
ClientLimit(w) == call[w].sent + AuthTimeout

(* When the context or the client's timeout ends a fetch or a request. *)
Earlier(a, b) == IF a < b THEN a ELSE b

FetchLimit(w) == Earlier(call[w].until, call[w].sent + AuthTimeout)

RequestLimit(w) == Earlier(call[w].until, call[w].sent + ProviderTimeout)

-----------------------------------------------------------------------------
Init ==
    /\ clock = 1
    /\ token = NoToken
    /\ line = <<>>
    /\ call = [w \in Callers |-> Idle]
    /\ result = [w \in Callers |-> NoFigures]

(* A limit that is reached ends what it limits, and the mutex is not left  *)
(* with somebody who may go on at once.                                    *)
Urgent(w) ==
    CASE call[w].stage = "wait" -> Holds(w)
      [] call[w].stage = "fetch" -> clock >= FetchLimit(w)
      [] call[w].stage \in {"request", "stream"} -> clock >= RequestLimit(w)
      [] OTHER -> FALSE

Tick ==
    /\ clock < MaxTime
    /\ \A w \in Callers : ~Urgent(w)
    /\ clock' = clock + 1
    /\ UNCHANGED <<token, line, call, result>>

Siblings(w) == {v \in Callers : TaskOf[v] = TaskOf[w] /\ call[v].stage # "idle"}

(* The time limit of a task that begins, or of the one that goes on. *)
Limits(w) ==
    IF Siblings(w) = {} THEN {clock + TaskTimeout} ELSE {call[v].until : v \in Siblings(w)}

(* A task begins, or one more of its goroutines gets a place to probe in,  *)
(* which may be too late.                                                  *)
BeginCaller(w, limit) ==
    /\ call[w].stage = "idle"
    /\ call' = [call EXCEPT ![w].stage = "ready", ![w].until = limit]
    /\ UNCHANGED <<clock, token, line, result>>

(* Check, or newRequest with Token: the caller queues up for the mutex.  A *)
(* caller goes on to its next call even when the task's time is up.        *)
BeginCall(w, kind) ==
    /\ call[w].stage \in {"ready", "answered"}
    /\ call' = [call EXCEPT ![w] = [Idle EXCEPT !.stage = "wait", !.kind = kind,
                                                !.until = call[w].until, !.began = clock]]
    /\ line' = Append(line, w)
    /\ result' = [result EXCEPT ![w] = NoFigures]
    /\ UNCHANGED <<clock, token>>

(* A bug used to validate the checks: the token is used until it ends. *)
Unexpired == token # NoToken /\ token.expiresAt > clock

Cached == token # NoToken /\ token.expiresAt - clock > RefreshSkew

(* tk: the token the request carries. *)
Request(t, tk) == [t EXCEPT !.stage = "request", !.sent = clock, !.issued = tk.issued,
                            !.life = tk.life, !.announced = tk.announced]

(* Token with a token that lasts. *)
UseCached(w) ==
    /\ call[w].stage = "wait" /\ Holds(w)
    /\ call[w].kind # "check" /\ Cached
    /\ call' = [call EXCEPT ![w] = Request(@, token)]
    /\ line' = Tail(line)
    /\ UNCHANGED <<clock, token, result>>

(* Check always fetches a token, Token if it has none that lasts. *)
Fetch(w) ==
    /\ call[w].stage = "wait" /\ Holds(w)
    /\ call[w].kind = "check" \/ ~Cached
    /\ call' = [call EXCEPT ![w].stage = "fetch", ![w].sent = clock]
    /\ UNCHANGED <<clock, token, line, result>>

(* The endpoint issues a token.  When it does not say for how long, the    *)
(* program takes the life to be the default, whatever it really is.        *)
Issue(w, life, announced) ==
    /\ call[w].stage = "fetch" /\ call[w].issued = Never
    /\ clock <= FetchLimit(w)
    /\ call' = [call EXCEPT ![w].issued = clock, ![w].life = life, ![w].announced = announced]
    /\ UNCHANGED <<clock, token, line, result>>

Answer(w, r) ==
    /\ call' = [call EXCEPT ![w] = [Idle EXCEPT !.stage = "answered", !.until = call[w].until,
                                                !.gapSum = call[w].gapSum,
                                                !.chunks = call[w].chunks]]
    /\ result' = [result EXCEPT ![w] = r]

After(w) == clock - call[w].began

ReceiveToken(w) ==
    LET new == [issued |-> call[w].issued, life |-> call[w].life, announced |-> call[w].announced,
                expiresAt |-> clock + call[w].announced]
    IN  /\ call[w].stage = "fetch" /\ call[w].issued # Never
        /\ clock <= FetchLimit(w)
        /\ token' = new
        /\ line' = Tail(line)
        /\ IF call[w].kind = "check"
           THEN Answer(w, NoFigures)
           ELSE call' = [call EXCEPT ![w] = Request(@, new)] /\ UNCHANGED result
        /\ UNCHANGED clock

(* The token cached before stays. *)
FailFetch(w) ==
    /\ call[w].stage = "fetch"
    /\ line' = Tail(line)
    /\ Answer(w, NoFigures)
    /\ UNCHANGED <<clock, token>>

(* The answer, an error status, or no answer; a chat's answer opens its    *)
(* stream instead.                                                         *)
ReceiveAnswer(w) ==
    /\ call[w].stage = "request"
    /\ Answer(w, NoFigures)
    /\ UNCHANGED <<clock, token, line>>

(* RunChatStream: the headers are there, the stream begins. *)
OpenStream(w) ==
    /\ call[w].stage = "request" /\ call[w].kind = "chat" /\ Alive(w)
    /\ call' = [call EXCEPT ![w].stage = "stream", ![w].issued = Never, ![w].life = 0,
                            ![w].announced = 0]
    /\ UNCHANGED <<clock, token, line, result>>

(* A bug used to validate the checks: gaps are measured from the first     *)
(* token on.                                                               *)
GapFromFirst(t) ==
    IF t.first = Never THEN [t EXCEPT !.first = clock, !.chunks = @ + 1, !.previous = clock]
    ELSE [t EXCEPT !.gapSum = @ + (clock - t.first), !.chunks = @ + 1, !.previous = clock]

(* parseChatStream: a chunk with a choice that has content. *)
WithContent(t) ==
    IF t.first = Never THEN [t EXCEPT !.first = clock, !.chunks = @ + 1, !.previous = clock]
    ELSE [t EXCEPT !.gapSum = @ + (clock - t.previous), !.chunks = @ + 1, !.previous = clock]

ReadContent(w) ==
    /\ call[w].stage = "stream" /\ call[w].chunks < MaxChunks /\ Alive(w)
    /\ call' = [call EXCEPT ![w] = WithContent(@)]
    /\ UNCHANGED <<clock, token, line, result>>

TTFT(t) == IF t.first = Never THEN None ELSE t.first - t.began

OutputTokens(t, usage) == IF usage = None /\ t.chunks > 0 THEN t.chunks ELSE usage

(* The mean gap between tokens. *)
ITL(t) == IF t.chunks > 1 THEN t.gapSum \div (t.chunks - 1) ELSE None

(* The time after the first token, for each token. *)
TPOT(t, outputTokens) ==
    IF t.first # Never /\ outputTokens > 0 /\ clock > t.first
    THEN (clock - t.first) \div outputTokens ELSE None

(* The stream ends, with or without [DONE].  usage: the completion tokens  *)
(* in the last chunk that told them.                                       *)
EndStream(w, usage) ==
    LET t == call[w]
        n == OutputTokens(t, usage)
    IN  /\ t.stage = "stream" /\ Alive(w)
        /\ Answer(w, [ok |-> TRUE, latency |-> After(w), ttft |-> TTFT(t), itl |-> ITL(t),
                      tpot |-> TPOT(t, n), outputTokens |-> n])
        /\ UNCHANGED <<clock, token, line>>

(* It breaks off, a chunk cannot be parsed or says error, or time is up. *)
BreakStream(w, usage) ==
    /\ call[w].stage = "stream"
    /\ Answer(w, [NoFigures EXCEPT !.latency = After(w), !.ttft = TTFT(call[w]),
                                   !.outputTokens = usage])
    /\ UNCHANGED <<clock, token, line>>

(* The caller has recorded its last result. *)
EndCaller(w) ==
    /\ call[w].stage = "answered"
    /\ call' = [call EXCEPT ![w] = Idle]
    /\ result' = [result EXCEPT ![w] = NoFigures]
    /\ UNCHANGED <<clock, token, line>>

Call(w) ==
    \/ \E kind \in KindsOf[w] : BeginCall(w, kind)
    \/ UseCached(w)
    \/ Fetch(w)
    \/ \E life \in Lifetimes : \E announced \in {life, DefaultLifetime} : Issue(w, life, announced)
    \/ ReceiveToken(w)
    \/ FailFetch(w)
    \/ ReceiveAnswer(w)

Stream(w) ==
    \/ OpenStream(w)
    \/ ReadContent(w)
    \/ \E usage \in {None} \cup Usages : EndStream(w, usage) \/ BreakStream(w, usage)

Begin(w) == \E limit \in Limits(w) : BeginCaller(w, limit)

Step(w) == Begin(w) \/ Call(w) \/ Stream(w) \/ EndCaller(w)

Next == Tick \/ \E w \in Callers : Step(w)

Spec == Init /\ [][Next]_vars

-----------------------------------------------------------------------------
Token == [issued : Nat, life : Nat, announced : Nat, expiresAt : Nat]
Stage == {"idle", "ready", "wait", "fetch", "request", "stream", "answered"}
CallState ==
    [stage : Stage, kind : Kind \cup {"none"}, until : Nat, began : Nat, sent : Nat, issued : Nat,
     life : Nat, announced : Nat, first : Nat, previous : Nat, gapSum : Int,
     chunks : Nat]
Result == [ok : BOOLEAN, latency : Int, ttft : Int, itl : Int, tpot : Int, outputTokens : Int]

(* Every variable has its type. *)
TypeOK ==
    /\ clock \in Nat \ {0}
    /\ token \in Token
    /\ line \in Seq(Callers)
    /\ call \in [Callers -> CallState]
    /\ result \in [Callers -> Result]

(* A request is over, its retries included, before its token really ends,  *)
(* but for what the program cannot know or is not told to allow for: a new *)
(* token may live for less than a fetch and a request take; a cached one   *)
(* was sent when the skew was left, which may be less than they take, of a *)
(* life that is guessed when expires_in is missing.                        *)
TokensCoverRequests ==
    \A w \in Callers : call[w].stage = "request" =>
        LET t == call[w]
            ends == t.issued + t.life
            trip == AuthTimeout + ProviderTimeout
        IN  \/ clock <= ends + (trip - t.life)
            \/ clock < ends + (trip - RefreshSkew) + (t.announced - t.life)

(* Though nobody leaves the mutex's line when his time is up, and a caller *)
(* whose task's time is up goes on to its next call, no call goes on for   *)
(* longer than the fetches of the other callers allow, those of the same   *)
(* task included.                                                          *)
CallsEndInTime ==
    \A w \in Callers : call[w].stage \in {"wait", "fetch", "request", "stream"} =>
        Alive(w) \/ clock <= call[w].began + (Cardinality(Callers) - 1) * AuthTimeout

(* The figures of a probe are shares of its latency: the time to the first *)
(* token and the gaps after it, as well as the time of all tokens.  Only a *)
(* probe that went well has a mean.                                        *)
FiguresAddUp ==
    \A w \in Callers : LET r == result[w] t == call[w] IN
        call[w].stage = "answered" =>
            /\ r.ttft # None => r.ttft + t.gapSum <= r.latency
            /\ r.itl # None => r.ok /\ r.ttft # None /\ r.ttft + r.itl * (t.chunks - 1) <= r.latency
            /\ r.tpot # None => r.ok /\ r.ttft # None /\ r.ttft + r.tpot * r.outputTokens <= r.latency
=============================================================================
