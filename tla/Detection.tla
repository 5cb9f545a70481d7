----------------------------- MODULE Detection -----------------------------
(***************************************************************************)
(* How a snapshot task classifies the models of a provider, and what is    *)
(* kept of it (tasks/models/model_snapshot.go, capabilities.go).           *)
(*                                                                         *)
(* The task lists the models, reads the newest runnable capability on      *)
(* record of each, and probes all of them, each in a goroutine of its own, *)
(* MaxConcurrency at a time: a chat request first, an embedding request if *)
(* it fails.  The observation is committed when all have ended.  The       *)
(* task's context may end at any time.  Snapshots of a provider overlap.   *)
(*                                                                         *)
(* ModelStates has the rest of the row.  Marks and disappearance leave the *)
(* capability alone and do not occur here, nor does retention.             *)
(***************************************************************************)
EXTENDS FiniteSets, Naturals

CONSTANTS
    Models,         \* models of the provider
    Workers,        \* goroutines that process queued tasks
    MaxConcurrency, \* models.max_concurrency
    Refusals        \* bound: the sets of requests a model may refuse

ASSUME ConcurrencyAssumption == MaxConcurrency \in Nat \ {0}
ASSUME RefusalsAssumption == Refusals \subseteq SUBSET {"chat", "embedding"}

VARIABLES
    capability,     \* in the row of model_states, "absent" without a row
    newest,         \* the newest runnable capability in rows and snapshot items
    refusing,       \* the kinds of request each model refuses
    task,           \* what each worker is doing
    worked,         \* history: the requests of a model that have succeeded
    refused         \* history: models that refused both requests of a detection

vars == <<capability, newest, refusing, task, worked, refused>>

Runnable == {"chat", "embedding"}
Capability == Runnable \cup {"unknown", "skip"}

(* The answer to a request.  transient: isTransientProbeFailure; refused:  *)
(* any other failure, an embedding without a vector included.              *)
Answer == {"ok", "transient", "refused"}

(* The goroutine of a model: chat is the answer that made it ask for an    *)
(* embedding, result the detected capability.                              *)
Probe == [stage : {"unlisted", "waiting", "chat", "embedding", "ended"},
          chat : {"none", "transient", "refused"}, result : Capability \cup {"none"}]
ProbeIn(stage) == [stage |-> stage, chat |-> "none", result |-> "none"]
Detection(capa) == [stage |-> "ended", chat |-> "none", result |-> capa]

(* alive: the context has not ended; spared: it will not end, and nothing  *)
(* else fails, before the task does (only the fairness condition asks).    *)
Task == [stage : {"idle", "listed", "probing"}, alive : BOOLEAN, spared : BOOLEAN,
         known : [Models -> Runnable \cup {"none"}], probe : [Models -> Probe]]
NoneKnown == [m \in Models |-> "none"]
Idle == [stage |-> "idle", alive |-> TRUE, spared |-> FALSE, known |-> NoneKnown,
         probe |-> [m \in Models |-> ProbeIn("unlisted")]]

-----------------------------------------------------------------------------
(* What a detection concludes *)

AnyTransient(chat, embedding) == chat = "transient" \/ embedding = "transient"

(* detectChatFirstCapability, once chat has failed. *)
Detected(chat, embedding) ==
    CASE embedding = "ok"              -> "embedding"
      [] AnyTransient(chat, embedding) -> "unknown"
      [] OTHER                         -> "skip"

(* Bugs used to validate the checks: nothing is preserved; any known       *)
(* capability is preserved as chat; what is preserved need not be known.   *)
NotPreserved(result, known) == result
PreservedAsChat(result, known) ==
    IF result = "unknown" /\ known \in Runnable THEN "chat" ELSE result
PreservedUnchecked(result, known) == IF result = "unknown" THEN known ELSE result

(* preservedRunnableCapability keeps what was known through transient      *)
(* failures.                                                               *)
Preserved(result, known) ==
    IF result = "unknown" /\ known \in Runnable THEN known ELSE result

-----------------------------------------------------------------------------
Init ==
    /\ capability = [m \in Models |-> "absent"]
    /\ newest = NoneKnown
    /\ refusing \in [Models -> Refusals]
    /\ task = [w \in Workers |-> Idle]
    /\ worked = [m \in Models |-> {}]
    /\ refused = {}

(* A model changes which requests it refuses. *)
Turn(m) ==
    /\ \E kinds \in Refusals : refusing' = [refusing EXCEPT ![m] = kinds]
    /\ UNCHANGED <<capability, newest, task, worked, refused>>

(* A snapshot task starts and has listed the models. *)
ListModels(w, listed, spared) ==
    /\ task[w].stage = "idle"
    /\ task' = [task EXCEPT ![w] =
          [Idle EXCEPT !.stage = "listed", !.spared = spared,
                       !.probe = [m \in Models |->
                          ProbeIn(IF m \in listed THEN "waiting" ELSE "unlisted")]]]
    /\ UNCHANGED <<capability, newest, refusing, worked, refused>>

(* LastRunnableCapabilities; when the query fails nothing is known. *)
LoadKnown(w) ==
    /\ task[w].stage = "listed" /\ task[w].alive
    /\ task' = [task EXCEPT ![w].stage = "probing", ![w].known = newest]
    /\ UNCHANGED <<capability, newest, refusing, worked, refused>>

FailToLoad(w) ==
    /\ task[w].stage = "listed" /\ ~task[w].spared
    /\ task' = [task EXCEPT ![w].stage = "probing"]
    /\ UNCHANGED <<capability, newest, refusing, worked, refused>>

(* The context ends: the time limit, or the worker shuts down. *)
EndContext(w) ==
    /\ task[w].stage # "idle" /\ task[w].alive /\ ~task[w].spared
    /\ task' = [task EXCEPT ![w].alive = FALSE]
    /\ UNCHANGED <<capability, newest, refusing, worked, refused>>

Holders(w) == {m \in Models : task[w].probe[m].stage \in {"chat", "embedding"}}

(* The goroutine of m gets the semaphore, *)
Acquire(w, m) ==
    /\ task[w].stage = "probing" /\ task[w].probe[m].stage = "waiting"
    /\ Cardinality(Holders(w)) < MaxConcurrency
    /\ task' = [task EXCEPT ![w].probe[m] = ProbeIn("chat")]
    /\ UNCHANGED <<capability, newest, refusing, worked, refused>>

(* or sees that the context has ended.  If both are ready either may win.  *)
GiveUpWaiting(w, m) ==
    /\ task[w].stage = "probing" /\ task[w].probe[m].stage = "waiting"
    /\ ~task[w].alive
    /\ task' = [task EXCEPT ![w].probe[m] = Detection("skip")]
    /\ UNCHANGED <<capability, newest, refusing, worked, refused>>

(* A request may fail for a while.  After the end of the context it fails, *)
(* with an error that is transient (a deadline) or not (a cancellation).   *)
Answers(w, m, kind) ==
    IF ~task[w].alive THEN {"transient", "refused"}
    ELSE {"transient", IF kind \in refusing[m] THEN "refused" ELSE "ok"}

(* RunChat *)
AnswerChat(w, m, a) ==
    /\ task[w].stage = "probing" /\ task[w].probe[m].stage = "chat"
    /\ a \in Answers(w, m, "chat")
    /\ task' = [task EXCEPT ![w].probe[m] =
          IF a = "ok" THEN Detection("chat") ELSE [ProbeIn("embedding") EXCEPT !.chat = a]]
    /\ worked' = IF a = "ok" THEN [worked EXCEPT ![m] = @ \cup {"chat"}] ELSE worked
    /\ UNCHANGED <<capability, newest, refusing, refused>>

(* RunEmbedding, after a chat request that failed. *)
AnswerEmbedding(w, m, a) ==
    LET chat == task[w].probe[m].chat
    IN  /\ task[w].stage = "probing" /\ task[w].probe[m].stage = "embedding"
        /\ a \in Answers(w, m, "embedding")
        /\ task' = [task EXCEPT ![w].probe[m] = Detection(Detected(chat, a))]
        /\ worked' = IF a = "ok" THEN [worked EXCEPT ![m] = @ \cup {"embedding"}] ELSE worked
        /\ refused' = IF task[w].alive /\ chat = "refused" /\ a = "refused"
                      THEN refused \cup {m} ELSE refused
        /\ UNCHANGED <<capability, newest, refusing>>

Listed(t) == {m \in Models : t.probe[m].stage # "unlisted"}
AllEnded(t) == \A m \in Listed(t) : t.probe[m].stage = "ended"

(* A bug used to validate the checks: the commit outlives the context. *)
AlwaysCommits(t) == TRUE

(* No transaction begins or commits once the context has ended. *)
MayCommit(t) == t.alive

(* ProcessModelObservation.  An observation that is older than one already *)
(* on record replaces the row all the same, but is not the newest item.    *)
CommitObservation(w) ==
    LET t == task[w]
        seen(m) == Preserved(t.probe[m].result, t.known[m])
    IN  /\ t.stage = "probing" /\ AllEnded(t) /\ MayCommit(t)
        /\ capability' = [m \in Models |-> IF m \in Listed(t) THEN seen(m) ELSE capability[m]]
        /\ \E overtaken \in SUBSET {m \in Models : newest[m] # "none"} :
             newest' = [m \in Models |->
                IF m \in Listed(t) \ overtaken /\ seen(m) \in Runnable THEN seen(m)
                ELSE newest[m]]
        /\ task' = [task EXCEPT ![w] = Idle]
        /\ UNCHANGED <<refusing, worked, refused>>

(* The transaction fails, or the worker dies. *)
Abandon(w) ==
    /\ task[w].stage # "idle" /\ ~task[w].spared
    /\ task' = [task EXCEPT ![w] = Idle]
    /\ UNCHANGED <<capability, newest, refusing, worked, refused>>

Begin(w) ==
    \E listed \in SUBSET Models, spared \in BOOLEAN : ListModels(w, listed, spared)

Continue(w) ==
    \/ LoadKnown(w) \/ FailToLoad(w) \/ EndContext(w)
    \/ \E m \in Models :
         \/ Acquire(w, m) \/ GiveUpWaiting(w, m)
         \/ \E a \in Answer : AnswerChat(w, m, a) \/ AnswerEmbedding(w, m, a)
    \/ CommitObservation(w) \/ Abandon(w)

Next ==
    \/ \E m \in Models : Turn(m)
    \/ \E w \in Workers : Begin(w) \/ Continue(w)

Spec == Init /\ [][Next]_vars

(* A started task goes on, and again and again a snapshot that lists every *)
(* model meets no failure but the transient ones of its probes.            *)
Fairness ==
    /\ \A w \in Workers : WF_vars(Continue(w))
    /\ SF_vars(\E w \in Workers : ListModels(w, Models, TRUE))

FairSpec == Spec /\ Fairness

-----------------------------------------------------------------------------
(* Every variable has its type. *)
TypeOK ==
    /\ capability \in [Models -> Capability \cup {"absent"}]
    /\ newest \in [Models -> Runnable \cup {"none"}]
    /\ refusing \in [Models -> Refusals]
    /\ task \in [Workers -> Task]
    /\ worked \in [Models -> SUBSET Runnable]
    /\ refused \in SUBSET Models

(* A model is on record as one to skip only if it once refused both kinds  *)
(* of request in one detection: neither a transient failure nor the end of *)
(* a task's context makes it one.                                          *)
SkipWasRefused == \A m \in Models : capability[m] = "skip" => m \in refused

(* A model is on record as runnable only if it has served that kind of     *)
(* request, however often the capability was preserved since.              *)
RunnableHasWorked ==
    \A m \in Models : capability[m] \in Runnable => capability[m] \in worked[m]

(* What is known of a model is found again: although a snapshot that read  *)
(* too early, or whose query failed, puts a runnable model on record as    *)
(* unknown, or refusals made it one to skip, later snapshots restore it    *)
(* even if all requests fail transiently from now on.                      *)
CapabilityComesBack ==
    \A m \in Models, kind \in Runnable :
        <>[](kind \notin refusing[m]) =>
            (newest[m] # "none" ~> capability[m] \in Runnable)
=============================================================================
