-------------------------- MODULE Detection_proofs --------------------------
(***************************************************************************)
(* Theorems about Detection, for any number of models and workers, any     *)
(* concurrency and any refusals: what the rows say of a capability was     *)
(* once seen.                                                              *)
(***************************************************************************)
EXTENDS Detection, TLAPS

-----------------------------------------------------------------------------
(* Types *)

(* A worker that is idle has a task. *)
LEMMA IdleTyped == Idle \in Task
BY DEF Idle, Task, NoneKnown, ProbeIn, Probe

(* What a goroutine can be in the middle of, and what it concludes. *)
LEMMA ProbeTyped ==
    /\ \A stage \in {"unlisted", "waiting", "chat", "embedding"} : ProbeIn(stage) \in Probe
    /\ \A capa \in Capability : Detection(capa) \in Probe
    /\ \A chat \in {"transient", "refused"} : [ProbeIn("embedding") EXCEPT !.chat = chat] \in Probe
BY DEF ProbeIn, Detection, Probe

(* The conclusion is a capability, and runnable only if an answer was OK   *)
(* or the capability was known.                                            *)
LEMMA ConclusionTyped ==
    /\ \A chat, a : Detected(chat, a) \in Capability
    /\ \A result \in Capability \cup {"none"}, known \in Runnable \cup {"none"} :
          Preserved(result, known) \in Capability \cup {"none"}
BY DEF Detected, Capability, Runnable, Preserved

(* A task whose goroutine of m went on to a probe p is a task. *)
LEMMA ProbeChanged ==
    ASSUME TypeOK, NEW w \in Workers, NEW m \in Models, NEW p \in Probe,
           task' = [task EXCEPT ![w].probe[m] = p]
    PROVE  task' \in [Workers -> Task]
<1> DEFINE t == [task[w] EXCEPT !.probe[m] = p]
<1>1. t \in Task
  BY DEF TypeOK, Task
<1>2. task' = [task EXCEPT ![w] = t]
  BY DEF TypeOK
<1> HIDE DEF t
<1> QED
  BY <1>1, <1>2 DEF TypeOK

-----------------------------------------------------------------------------
(* The inductive invariant *)

(* A goroutine asks for an embedding only after a chat request failed, and *)
(* ends with a capability.                                                 *)
ProbesInOrder ==
    \A w \in Workers, m \in Models :
        /\ task[w].probe[m].stage = "embedding" => task[w].probe[m].chat # "none"
        /\ task[w].probe[m].stage = "ended" => task[w].probe[m].result # "none"

(* What tasks and tables take for runnable has served that request. *)
NewestHasWorked == \A m \in Models : newest[m] \in Runnable => newest[m] \in worked[m]

KnownHasWorked ==
    \A w \in Workers, m \in Models :
        task[w].known[m] \in Runnable => task[w].known[m] \in worked[m]

ResultHasWorked ==
    \A w \in Workers, m \in Models :
        task[w].probe[m].result \in Runnable => task[w].probe[m].result \in worked[m]

(* What a task that may still commit takes for one to skip has refused. *)
SkipIsRefusal ==
    \A w \in Workers, m \in Models :
        task[w].alive /\ task[w].probe[m].result = "skip" => m \in refused

DetectionInv ==
    /\ TypeOK
    /\ ProbesInOrder
    /\ NewestHasWorked
    /\ KnownHasWorked
    /\ ResultHasWorked
    /\ SkipIsRefusal
    /\ SkipWasRefused
    /\ RunnableHasWorked

(* Initially nothing is claimed. *)
LEMMA InitInv == Init => DetectionInv
<1> SUFFICES ASSUME Init PROVE DetectionInv
  OBVIOUS
<1>1. TypeOK
  <2>1. newest \in [Models -> Runnable \cup {"none"}]
    BY DEF Init, NoneKnown
  <2>2. refusing \in [Models -> Refusals]
    BY DEF Init
  <2>3. task \in [Workers -> Task]
    BY IdleTyped DEF Init
  <2> QED
    BY <2>1, <2>2, <2>3 DEF Init, TypeOK
<1>2. \A w \in Workers, m \in Models :
        /\ task[w].probe[m] = ProbeIn("unlisted")
        /\ task[w].known[m] = "none"
  BY DEF Init, Idle, NoneKnown
<1>3. ProbesInOrder /\ KnownHasWorked /\ ResultHasWorked /\ SkipIsRefusal
  BY <1>2 DEF ProbesInOrder, KnownHasWorked, ResultHasWorked, SkipIsRefusal, ProbeIn, Runnable
<1>4. NewestHasWorked /\ SkipWasRefused /\ RunnableHasWorked
  BY DEF Init, NewestHasWorked, SkipWasRefused, RunnableHasWorked, NoneKnown, Runnable
<1> QED
  BY <1>1, <1>3, <1>4 DEF DetectionInv

-----------------------------------------------------------------------------
(* One lemma per action that is not obvious *)

(* A task that stops being, or starts, has no conclusions and no claims. *)
LEMMA FreshTask ==
    ASSUME DetectionInv, NEW w \in Workers, NEW t \in Task,
           task' = [task EXCEPT ![w] = t],
           UNCHANGED <<capability, newest, worked, refused>>,
           refusing' \in [Models -> Refusals],
           \A m \in Models : /\ t.probe[m].stage \notin {"embedding", "ended"}
                             /\ t.probe[m].result = "none"
                             /\ t.known[m] = "none"
    PROVE  DetectionInv'
<1>1. TypeOK'
  BY DEF DetectionInv, TypeOK
<1>2. \A v \in Workers \ {w} : task'[v] = task[v]
  BY DEF DetectionInv, TypeOK
<1>3. task'[w] = t
  BY DEF DetectionInv, TypeOK
<1>4. ProbesInOrder' /\ KnownHasWorked' /\ ResultHasWorked' /\ SkipIsRefusal'
  BY <1>2, <1>3 DEF DetectionInv, ProbesInOrder, KnownHasWorked, ResultHasWorked, SkipIsRefusal, Runnable
<1>5. NewestHasWorked' /\ SkipWasRefused' /\ RunnableHasWorked'
  BY DEF DetectionInv, NewestHasWorked, SkipWasRefused, RunnableHasWorked
<1> QED
  BY <1>1, <1>4, <1>5 DEF DetectionInv

(* A goroutine goes on to p: the invariant holds if it holds of p. *)
LEMMA ProbeStep ==
    ASSUME DetectionInv, NEW w \in Workers, NEW m \in Models, NEW p \in Probe,
           task' = [task EXCEPT ![w].probe[m] = p],
           UNCHANGED <<capability, newest, refusing>>,
           worked' \in [Models -> SUBSET Runnable],
           \A n \in Models : worked[n] \subseteq worked'[n],
           refused' \in SUBSET Models, refused \subseteq refused',
           p.stage = "embedding" => p.chat # "none",
           p.stage = "ended" => p.result # "none",
           p.result \in Runnable => p.result \in worked'[m],
           task[w].alive /\ p.result = "skip" => m \in refused'
    PROVE  DetectionInv'
<1>1. TypeOK'
  <2>1. task' \in [Workers -> Task]
    BY ProbeChanged DEF DetectionInv
  <2> QED
    BY <2>1 DEF DetectionInv, TypeOK
<1>2. \A v \in Workers, n \in Models :
        /\ task'[v].probe[n] = IF v = w /\ n = m THEN p ELSE task[v].probe[n]
        /\ task'[v].known = task[v].known
        /\ task'[v].alive = task[v].alive
  BY DEF DetectionInv, TypeOK, Task
<1>3. ProbesInOrder'
  BY <1>2 DEF DetectionInv, ProbesInOrder
<1>4. KnownHasWorked'
  BY <1>2 DEF DetectionInv, KnownHasWorked
<1>5. ResultHasWorked'
  BY <1>2 DEF DetectionInv, ResultHasWorked
<1>6. SkipIsRefusal'
  BY <1>2 DEF DetectionInv, SkipIsRefusal
<1>7. NewestHasWorked' /\ SkipWasRefused' /\ RunnableHasWorked'
  BY DEF DetectionInv, NewestHasWorked, SkipWasRefused, RunnableHasWorked
<1> QED
  BY <1>1, <1>3, <1>4, <1>5, <1>6, <1>7 DEF DetectionInv

(* The stage, the known capabilities or the context of a task change. *)
LEMMA TaskStep ==
    ASSUME DetectionInv, NEW w \in Workers, NEW t \in Task,
           task' = [task EXCEPT ![w] = t],
           UNCHANGED <<capability, newest, refusing, worked, refused>>,
           t.probe = task[w].probe, t.alive => task[w].alive,
           t.known \in {task[w].known, newest}
    PROVE  DetectionInv'
<1>1. TypeOK'
  BY DEF DetectionInv, TypeOK
<1>2. \A v \in Workers \ {w} : task'[v] = task[v]
  BY DEF DetectionInv, TypeOK
<1>3. task'[w] = t
  BY DEF DetectionInv, TypeOK
<1>4. ProbesInOrder'
  BY <1>2, <1>3 DEF DetectionInv, ProbesInOrder
<1>5. KnownHasWorked'
  BY <1>2, <1>3 DEF DetectionInv, KnownHasWorked, NewestHasWorked
<1>6. ResultHasWorked' /\ SkipIsRefusal'
  BY <1>2, <1>3 DEF DetectionInv, ResultHasWorked, SkipIsRefusal
<1>7. NewestHasWorked' /\ SkipWasRefused' /\ RunnableHasWorked'
  BY DEF DetectionInv, NewestHasWorked, SkipWasRefused, RunnableHasWorked
<1> QED
  BY <1>1, <1>4, <1>5, <1>6, <1>7 DEF DetectionInv

(* The commit of an observation: what it writes comes from the goroutines  *)
(* and from what was known, and the context has not ended.                 *)
LEMMA CommitStep ==
    ASSUME DetectionInv, NEW w \in Workers, CommitObservation(w)
    PROVE  DetectionInv'
<1> DEFINE t == task[w]
           seen(m) == Preserved(t.probe[m].result, t.known[m])
<1>1. ASSUME NEW m \in Listed(t)
      PROVE  /\ seen(m) \in Capability
             /\ seen(m) \in Runnable => seen(m) \in worked[m]
             /\ seen(m) = "skip" => m \in refused
  <2>1. m \in Models /\ t.probe[m].result \in Capability /\ t.alive
    BY <1>1 DEF CommitObservation, MayCommit, AllEnded, Listed, DetectionInv, ProbesInOrder,
                TypeOK, Task, Probe
  <2>2. seen(m) \in {t.probe[m].result, t.known[m]} /\ (seen(m) = "skip" => t.probe[m].result = "skip")
    BY DEF Preserved, Runnable
  <2>3. seen(m) \in Capability
    BY <2>1 DEF Preserved, Capability
  <2>4. seen(m) \in Runnable => seen(m) \in worked[m]
    BY <2>1, <2>2 DEF DetectionInv, ResultHasWorked, KnownHasWorked
  <2>5. seen(m) = "skip" => m \in refused
    BY <2>1, <2>2 DEF DetectionInv, SkipIsRefusal
  <2> QED
    BY <2>3, <2>4, <2>5
<1>2. capability' = [m \in Models |-> IF m \in Listed(t) THEN seen(m) ELSE capability[m]]
  BY DEF CommitObservation
<1>3. PICK overtaken \in SUBSET {m \in Models : newest[m] # "none"} :
        newest' = [m \in Models |->
            IF m \in Listed(t) \ overtaken /\ seen(m) \in Runnable THEN seen(m) ELSE newest[m]]
  BY DEF CommitObservation
<1>4. task' = [task EXCEPT ![w] = Idle] /\ UNCHANGED <<refusing, worked, refused>>
  BY DEF CommitObservation
<1> HIDE DEF seen, t
<1>5. TypeOK'
  <2>1. capability' \in [Models -> Capability \cup {"absent"}]
    BY <1>1, <1>2 DEF DetectionInv, TypeOK
  <2>2. newest' \in [Models -> Runnable \cup {"none"}]
    BY <1>3 DEF DetectionInv, TypeOK
  <2>3. task' \in [Workers -> Task]
    BY <1>4, IdleTyped DEF DetectionInv, TypeOK
  <2> QED
    BY <1>4, <2>1, <2>2, <2>3 DEF DetectionInv, TypeOK
<1>6. NewestHasWorked'
  BY <1>1, <1>3, <1>4 DEF DetectionInv, NewestHasWorked
<1>7. SkipWasRefused' /\ RunnableHasWorked'
  BY <1>1, <1>2, <1>4 DEF DetectionInv, SkipWasRefused, RunnableHasWorked
<1>8. \A v \in Workers \ {w} : task'[v] = task[v]
  BY <1>4 DEF DetectionInv, TypeOK
<1>9. \A m \in Models : task'[w].probe[m] = ProbeIn("unlisted") /\ task'[w].known[m] = "none"
  BY <1>4 DEF DetectionInv, TypeOK, Idle, NoneKnown
<1>10. ProbesInOrder' /\ KnownHasWorked' /\ ResultHasWorked' /\ SkipIsRefusal'
  BY <1>4, <1>8, <1>9 DEF DetectionInv, ProbesInOrder, KnownHasWorked, ResultHasWorked,
                          SkipIsRefusal, ProbeIn, Runnable
<1> QED
  BY <1>5, <1>6, <1>7, <1>10 DEF DetectionInv

-----------------------------------------------------------------------------
(* The theorems *)

(* Every step keeps the invariant. *)
LEMMA NextInv == DetectionInv /\ [Next]_vars => DetectionInv'
<1> SUFFICES ASSUME DetectionInv, [Next]_vars PROVE DetectionInv'
  OBVIOUS
<1> USE DEF DetectionInv
<1>1. ASSUME NEW m \in Models, Turn(m) PROVE DetectionInv'
  <2>1. TypeOK'
    BY <1>1 DEF Turn, TypeOK
  <2> QED
    BY <1>1, <2>1 DEF Turn, ProbesInOrder, NewestHasWorked, KnownHasWorked, ResultHasWorked,
                      SkipIsRefusal, SkipWasRefused, RunnableHasWorked
<1>2. ASSUME NEW w \in Workers, NEW listed \in SUBSET Models, NEW spared \in BOOLEAN,
             ListModels(w, listed, spared)
      PROVE  DetectionInv'
  <2> DEFINE probe == [m \in Models |-> ProbeIn(IF m \in listed THEN "waiting" ELSE "unlisted")]
             t == [Idle EXCEPT !.stage = "listed", !.spared = spared, !.probe = probe]
  <2>1. probe \in [Models -> Probe]
    BY ProbeTyped
  <2>2. \A m \in Models : probe[m].stage \notin {"embedding", "ended"} /\ probe[m].result = "none"
    BY DEF ProbeIn
  <2>3. task' = [task EXCEPT ![w] = t] /\ UNCHANGED <<capability, newest, refusing, worked, refused>>
    BY <1>2 DEF ListModels
  <2> HIDE DEF probe
  <2>4. t \in Task
    BY <2>1, IdleTyped DEF Task
  <2>5. \A m \in Models : t.probe[m] = probe[m] /\ t.known[m] = "none"
    BY DEF Idle, NoneKnown
  <2> HIDE DEF t
  <2> QED
    BY <2>2, <2>3, <2>4, <2>5, FreshTask DEF TypeOK
<1>3. ASSUME NEW w \in Workers, LoadKnown(w) PROVE DetectionInv'
  <2> DEFINE t == [task[w] EXCEPT !.stage = "probing", !.known = newest]
  <2>1. t \in Task /\ t.probe = task[w].probe /\ t.alive = task[w].alive /\ t.known = newest
    BY DEF TypeOK, Task
  <2>2. task' = [task EXCEPT ![w] = t] /\ UNCHANGED <<capability, newest, refusing, worked, refused>>
    BY <1>3 DEF LoadKnown, TypeOK
  <2> HIDE DEF t
  <2> QED
    BY <2>1, <2>2, TaskStep
<1>4. ASSUME NEW w \in Workers, FailToLoad(w) PROVE DetectionInv'
  <2> DEFINE t == [task[w] EXCEPT !.stage = "probing"]
  <2>1. t \in Task /\ t.probe = task[w].probe /\ t.alive = task[w].alive /\ t.known = task[w].known
    BY DEF TypeOK, Task
  <2>2. task' = [task EXCEPT ![w] = t] /\ UNCHANGED <<capability, newest, refusing, worked, refused>>
    BY <1>4 DEF FailToLoad, TypeOK
  <2> HIDE DEF t
  <2> QED
    BY <2>1, <2>2, TaskStep
<1>5. ASSUME NEW w \in Workers, EndContext(w) PROVE DetectionInv'
  <2> DEFINE t == [task[w] EXCEPT !.alive = FALSE]
  <2>1. t \in Task /\ t.probe = task[w].probe /\ ~t.alive /\ t.known = task[w].known
    BY DEF TypeOK, Task
  <2>2. task' = [task EXCEPT ![w] = t] /\ UNCHANGED <<capability, newest, refusing, worked, refused>>
    BY <1>5 DEF EndContext, TypeOK
  <2> HIDE DEF t
  <2> QED
    BY <2>1, <2>2, TaskStep
<1>6. ASSUME NEW w \in Workers, NEW m \in Models, Acquire(w, m) PROVE DetectionInv'
  <2>1. ProbeIn("chat") \in Probe /\ ProbeIn("chat").stage = "chat" /\ ProbeIn("chat").result = "none"
    BY ProbeTyped DEF ProbeIn
  <2>2. /\ task' = [task EXCEPT ![w].probe[m] = ProbeIn("chat")]
        /\ UNCHANGED <<capability, newest, refusing, worked, refused>>
    BY <1>6 DEF Acquire
  <2> QED
    BY <2>1, <2>2, ProbeStep DEF TypeOK, Runnable
<1>7. ASSUME NEW w \in Workers, NEW m \in Models, GiveUpWaiting(w, m) PROVE DetectionInv'
  <2>1. /\ Detection("skip") \in Probe /\ Detection("skip").stage = "ended"
        /\ Detection("skip").result = "skip"
    BY ProbeTyped DEF Detection, Capability
  <2>2. /\ task' = [task EXCEPT ![w].probe[m] = Detection("skip")]
        /\ UNCHANGED <<capability, newest, refusing, worked, refused>>
        /\ ~task[w].alive
    BY <1>7 DEF GiveUpWaiting
  <2> QED
    BY <2>1, <2>2, ProbeStep DEF TypeOK, Runnable
<1>8. ASSUME NEW w \in Workers, NEW m \in Models, NEW a \in Answer, AnswerChat(w, m, a)
      PROVE  DetectionInv'
  <2> DEFINE p == IF a = "ok" THEN Detection("chat") ELSE [ProbeIn("embedding") EXCEPT !.chat = a]
  <2>1. /\ task' = [task EXCEPT ![w].probe[m] = p]
        /\ worked' = IF a = "ok" THEN [worked EXCEPT ![m] = @ \cup {"chat"}] ELSE worked
        /\ UNCHANGED <<capability, newest, refusing, refused>>
    BY <1>8 DEF AnswerChat
  <2>2. /\ p \in Probe
        /\ p.stage = "embedding" => p.chat # "none"
        /\ p.stage = "ended" => p.result # "none"
        /\ p.result = IF a = "ok" THEN "chat" ELSE "none"
    <3>1. Detection("chat") \in Probe
      BY ProbeTyped DEF Capability, Runnable
    <3>2. a # "ok" => a \in {"transient", "refused"}
      BY DEF Answer
    <3>3. a # "ok" => [ProbeIn("embedding") EXCEPT !.chat = a] \in Probe
      BY <3>2, ProbeTyped
    <3> QED
      BY <3>1, <3>2, <3>3 DEF Detection, ProbeIn
  <2>3. /\ worked' \in [Models -> SUBSET Runnable]
        /\ \A n \in Models : worked[n] \subseteq worked'[n]
        /\ a = "ok" => "chat" \in worked'[m]
    BY <2>1 DEF TypeOK, Runnable
  <2> HIDE DEF p
  <2> QED
    BY <2>1, <2>2, <2>3, ProbeStep DEF TypeOK, Runnable
<1>9. ASSUME NEW w \in Workers, NEW m \in Models, NEW a \in Answer, AnswerEmbedding(w, m, a)
      PROVE  DetectionInv'
  <2> DEFINE chat == task[w].probe[m].chat
             p == Detection(Detected(chat, a))
  <2>1. /\ task' = [task EXCEPT ![w].probe[m] = p]
        /\ worked' = IF a = "ok" THEN [worked EXCEPT ![m] = @ \cup {"embedding"}] ELSE worked
        /\ refused' = IF task[w].alive /\ chat = "refused" /\ a = "refused"
                      THEN refused \cup {m} ELSE refused
        /\ UNCHANGED <<capability, newest, refusing>>
    BY <1>9 DEF AnswerEmbedding
  <2>2. chat \in {"transient", "refused"}
    BY <1>9 DEF AnswerEmbedding, ProbesInOrder, TypeOK, Task, Probe
  <2>3. /\ p \in Probe /\ p.stage = "ended"
        /\ p.result = Detected(chat, a) /\ p.result \in Capability
    BY ProbeTyped, ConclusionTyped DEF Detection
  <2>4. /\ worked' \in [Models -> SUBSET Runnable]
        /\ \A n \in Models : worked[n] \subseteq worked'[n]
        /\ a = "ok" => "embedding" \in worked'[m]
    BY <2>1 DEF TypeOK, Runnable
  <2>5. /\ refused' \in SUBSET Models /\ refused \subseteq refused'
        /\ task[w].alive /\ chat = "refused" /\ a = "refused" => m \in refused'
    BY <2>1 DEF TypeOK
  <2>6. /\ Detected(chat, a) \in Runnable => Detected(chat, a) \in worked'[m]
        /\ Detected(chat, a) # "none"
        /\ task[w].alive /\ Detected(chat, a) = "skip" => m \in refused'
    BY <2>2, <2>4, <2>5 DEF Detected, AnyTransient, Runnable, Answer
  <2>7. /\ p.result \in Runnable => p.result \in worked'[m]
        /\ p.result # "none"
        /\ task[w].alive /\ p.result = "skip" => m \in refused'
    BY <2>3, <2>6
  <2> HIDE DEF p, chat
  <2> QED
    BY <2>1, <2>3, <2>4, <2>5, <2>7, ProbeStep
<1>10. ASSUME NEW w \in Workers, CommitObservation(w) PROVE DetectionInv'
  BY <1>10, CommitStep
<1>11. ASSUME NEW w \in Workers, Abandon(w) PROVE DetectionInv'
  <2>1. \A m \in Models : /\ Idle.probe[m] = ProbeIn("unlisted")
                          /\ Idle.known[m] = "none"
    BY DEF Idle, NoneKnown
  <2>2. \A m \in Models : /\ Idle.probe[m].stage \notin {"embedding", "ended"}
                          /\ Idle.probe[m].result = "none"
    BY <2>1 DEF ProbeIn
  <2> QED
    BY <1>11, <2>1, <2>2, IdleTyped, FreshTask DEF Abandon, TypeOK
<1>12. CASE UNCHANGED vars
  BY <1>12 DEF vars, TypeOK, ProbesInOrder, NewestHasWorked, KnownHasWorked, ResultHasWorked,
               SkipIsRefusal, SkipWasRefused, RunnableHasWorked
<1> QED
  BY <1>1, <1>2, <1>3, <1>4, <1>5, <1>6, <1>7, <1>8, <1>9, <1>10, <1>11, <1>12
  DEF Next, Begin, Continue

(* The invariant holds in every state. *)
THEOREM DetectionInvAlways == Spec => []DetectionInv
BY InitInv, NextInv, PTL DEF Spec

(* Every variable keeps its type. *)
THEOREM DetectionTypeCorrect == Spec => []TypeOK
<1>1. DetectionInv => TypeOK
  BY DEF DetectionInv
<1> QED
  BY DetectionInvAlways, <1>1, PTL

(* Neither transient failures nor the end of a task's context put a model  *)
(* on record as one to skip.                                               *)
THEOREM SkipWasRefusedAlways == Spec => []SkipWasRefused
<1>1. DetectionInv => SkipWasRefused
  BY DEF DetectionInv
<1> QED
  BY DetectionInvAlways, <1>1, PTL

(* A model is on record as runnable only for what it has once served.      *)
THEOREM RunnableHasWorkedAlways == Spec => []RunnableHasWorked
<1>1. DetectionInv => RunnableHasWorked
  BY DEF DetectionInv
<1> QED
  BY DetectionInvAlways, <1>1, PTL
=============================================================================
