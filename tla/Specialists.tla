------------------------------ MODULE Specialists ------------------------------
(***************************************************************************)
(* The multi-agent investigation (semibrain_agent/multi_agent.py,          *)
(* multi_policy.py, task_outputs.py, investigation_progress.py): a         *)
(* coordinator whose graph is checkpointed like that of Investigation, and *)
(* specialists that work at the same time, each with the state of its task *)
(* in the database.  A lease may be lost while specialists are working;    *)
(* the next worker begins from the checkpoint, the old specialists go on   *)
(* until their next fenced write.  Review and closeout are those of        *)
(* Investigation and are one step here.                                    *)
(***************************************************************************)
EXTENDS Naturals, Sequences, Journals

CONSTANTS
  Keys,      \* tasks of a plan, in an order that their dependencies follow
  MaxTurns,  \* the 6 rounds of a specialist
  MaxFences  \* bound on workers of the run

ASSUME SpecialistsAssumption == Keys \subseteq Nat /\ MaxTurns \in Nat /\ MaxFences \in Nat \ {0}

\* A first plan, and one when a specialist hands over early.  (review() could ask for
\* others, but every draft is written after begin_answer(), when it no longer may.)
Versions == 1..2
Finished == {"succeeded", "partial", "failed"}
NewWork  == [phase |-> "model", round |-> 0, retried |-> FALSE]

VARIABLES
  control,    \* the state of the coordinator's graph
  committed,  \* ... in the checkpoint
  plans,      \* the supervisor's turns: version -> key -> what it depends on, and what of it is reused
  tasks,      \* <<version, key>> -> task
  experts,    \* threads: task, attempt, fence, and the task's state once they have begun
  pool,       \* tasks the coordinator waits for
  fence,      \* the fence of the run
  stop,       \* runs.closeout_reason
  exhausted   \* keys whose source path is closed

specialistsVars == <<control, committed, plans, tasks, experts, pool, fence, stop, exhausted>>

Begun == [phase |-> "plan", version |-> 0, handedOff |-> FALSE, revised |-> FALSE, reason |-> "none", outcome |-> "none"]

SpecialistsTypes ==
  /\ {control, committed} \subseteq
       [phase : {"plan", "dispatch", "synthesize", "answer", "review", "revise", "finalize", "done"}, version : {0} \cup Versions,
        handedOff : BOOLEAN, revised : BOOLEAN, reason : {"none", "ready", "limit", "idle"},
        outcome : {"none", "succeeded", "partial"}]
  /\ DOMAIN tasks \subseteq Versions \X Keys
  /\ \A t \in DOMAIN tasks : tasks[t].status \in {"queued", "running"} \cup Finished /\ tasks[t].attempt \in 0..MaxFences
  /\ pool \subseteq DOMAIN tasks /\ exhausted \subseteq Keys /\ fence \in 1..MaxFences
  /\ \A e \in experts : e.task \in DOMAIN tasks /\ e.fence \in 1..fence

SpecialistsInit ==
  /\ control = Begun /\ committed = Begun /\ plans = <<>> /\ tasks = <<>>
  /\ experts = {} /\ pool = {} /\ fence = 1 /\ stop = "none" /\ exhausted = {}

FirstReason(reason) == IF stop = "none" THEN reason ELSE stop
Here(k)   == <<control.version, k>>
PlanTasks   == {t \in DOMAIN tasks : t[1] = control.version}
Open      == {t \in PlanTasks : tasks[t].status \notin Finished}

-----------------------------------------------------------------------------
(* The coordinator. *)

TaskGate(phase) == control.phase = phase /\ (stop = "none" \/ control.reason # "none")

Commit(c) == control' = c /\ committed' = c

\* What validate_plan() accepts after normalize_plan() has merged the tasks of a role:
\* tasks that can be done in an order, which is that of their keys.
Acyclic(needs) == \A k \in DOMAIN needs : \A d \in needs[k] : d < k

\* The supervisor's turn, journaled: an accepted plan names some tasks, or in a later
\* plan none.
AskSupervisor ==
  /\ TaskGate("plan") /\ Len(plans) = control.version
  /\ \E named \in SUBSET Keys, reused \in SUBSET Keys :
       /\ named = {} => control.version > 0
       /\ reused \subseteq {k \in named : control.version > 0 /\ Here(k) \in DOMAIN tasks /\ tasks[Here(k)].status = "succeeded"}
       /\ \E needs \in [named -> SUBSET named] :
            /\ Acyclic(needs)
            /\ plans' = Append(plans, [k \in named |-> [needs |-> needs[k], reused |-> k \in reused]])
  /\ UNCHANGED <<control, committed, tasks, experts, pool, fence, stop, exhausted>>

Planned == plans[control.version + 1]

\* followup_blocked(): the path was tried in vain, and there is no unread target.
Blocked(k) == k \in exhausted \/ \E t \in DOMAIN tasks : t[1] <= control.version /\ t[2] = k /\ tasks[t].status = "partial"

\* save_record() of one task, whose identity is its version and key; a task that was
\* saved before a crash is kept.  An unread target may unblock it.
SaveTask(k) ==
  /\ TaskGate("plan") /\ Len(plans) > control.version /\ k \in DOMAIN Planned
  /\ <<control.version + 1, k>> \notin DOMAIN tasks
  /\ \E status \in (IF Planned[k].reused THEN {"succeeded"} ELSE {"queued"} \cup IF Blocked(k) THEN {"partial"} ELSE {}) :
       /\ k \in exhausted => status # "queued"
       /\ tasks' = Put(tasks, <<control.version + 1, k>>,
                       [status |-> status, attempt |-> 0, needs |-> Planned[k].needs, work |-> NewWork])
  /\ UNCHANGED <<control, committed, plans, experts, pool, fence, stop, exhausted>>

\* The end of plan().  Nothing new to do: the closeout begins.
EndPlan ==
  /\ TaskGate("plan") /\ Len(plans) > control.version
  /\ LET version == control.version + 1
         mine    == {t \in DOMAIN tasks : t[1] = version}
         next    == [control EXCEPT !.version = version]
     IN /\ {t[2] : t \in mine} = DOMAIN Planned
        /\ IF \E t \in mine : tasks[t].status = "queued" \/ (mine # {} /\ \A k \in DOMAIN Planned : Planned[k].reused)
           THEN Commit([next EXCEPT !.phase = "dispatch"]) /\ UNCHANGED stop
           ELSE /\ stop' = FirstReason("idle")
                /\ Commit([next EXCEPT !.phase = "finalize", !.reason = stop'])
  /\ UNCHANGED <<plans, tasks, experts, pool, fence, exhausted>>

\* Mutant of ReadyTasks: a task that was running when its worker died is not taken up.
ReadyQueuedTasks == {t \in Open : tasks[t].status = "queued" /\ \A d \in tasks[t].needs : tasks[Here(d)].status \in Finished}

\* ready_tasks().  Three at a time are more than the tasks that are open here.
ReadyTasks == {t \in Open : \A d \in tasks[t].needs : tasks[Here(d)].status \in Finished}

\* dispatch() submits what is ready, with the tasks as it has read them, and waits.
Dispatch ==
  /\ TaskGate("dispatch") /\ pool = {} /\ ReadyTasks # {}
  /\ pool' = ReadyTasks
  /\ experts' = experts \cup {[task |-> t, attempt |-> tasks[t].attempt + 1, fence |-> fence,
                               work |-> tasks[t].work, begun |-> FALSE] : t \in ReadyTasks}
  /\ UNCHANGED <<control, committed, plans, tasks, fence, stop, exhausted>>

\* Nothing is ready: an early handoff, once, or the synthesis.
EndDispatch ==
  /\ TaskGate("dispatch") /\ pool = {} /\ ReadyTasks = {}
  /\ \/ Commit([control EXCEPT !.phase = "synthesize"])
     \/ /\ ~control.handedOff /\ \E t \in PlanTasks : tasks[t].status = "partial"
        /\ Commit([control EXCEPT !.phase = "plan", !.handedOff = TRUE])
  /\ UNCHANGED <<plans, tasks, experts, pool, fence, stop, exhausted>>

\* begin_answer(): the reason is in the database before the draft is, which the
\* checkpoint knows nothing of.
BeginSynthesis ==
  /\ TaskGate("synthesize")
  /\ stop' = FirstReason("ready")
  /\ control' = [control EXCEPT !.phase = "answer", !.reason = stop']
  /\ UNCHANGED <<committed, plans, tasks, experts, pool, fence, exhausted>>

\* The draft, in the checkpoint; the run is closing, so that a call that fails ends it.
\* A worker that dies before leaves its successor at a synthesis the gate refuses.
Synthesize ==
  /\ control.phase = "answer"
  /\ \/ Commit([control EXCEPT !.phase = "review"])
     \/ control' = [control EXCEPT !.phase = "done", !.outcome = "partial"] /\ UNCHANGED committed
  /\ UNCHANGED <<plans, tasks, experts, pool, fence, stop, exhausted>>

\* review_closeout() of an answer that is ready, whatever became of the tasks, or of a
\* packet; finish() reports a limit as partial whatever the review has said.
ReviewAnswer ==
  /\ control.phase \in {"review", "revise"}
  /\ \/ \E outcome \in {"partial"} \cup (IF control.reason = "ready" THEN {"succeeded"} ELSE {}) :
          control.phase = "review" /\ Commit([control EXCEPT !.phase = "done", !.outcome = outcome])
     \/ /\ control.phase = "review" /\ ~control.revised
        /\ Commit([control EXCEPT !.phase = "revise", !.revised = TRUE])
     \/ control.phase = "revise" /\ Commit([control EXCEPT !.phase = "review"])
  /\ UNCHANGED <<plans, tasks, experts, pool, fence, stop, exhausted>>

\* A limit of the coordinator's own, as that on its requests, or one it is told of by
\* the gate: what is queued is given up, and the closeout begins.
CoordinatorStops ==
  /\ control.phase \in {"plan", "dispatch", "synthesize"} /\ pool = {}
  /\ stop' = FirstReason("limit")
  /\ control' = [control EXCEPT !.phase = "finalize", !.reason = stop']
  /\ UNCHANGED <<committed, plans, tasks, experts, pool, fence, exhausted>>

Finalize ==
  /\ control.phase = "finalize"
  /\ tasks' = [t \in DOMAIN tasks |-> IF tasks[t].status = "queued" THEN [tasks[t] EXCEPT !.status = "partial"] ELSE tasks[t]]
  /\ stop' = FirstReason(control.reason)
  /\ \/ Commit([control EXCEPT !.phase = "review"])
     \/ Commit([control EXCEPT !.phase = "done", !.outcome = "partial"])
  /\ UNCHANGED <<plans, experts, pool, fence, exhausted>>

\* The lease is lost, with or without the process.
LoseLease ==
  /\ fence < MaxFences /\ control.phase # "done"
  /\ fence' = fence + 1 /\ control' = committed /\ pool' = {}
  /\ UNCHANGED <<committed, plans, tasks, experts, stop, exhausted>>

-----------------------------------------------------------------------------
(* A specialist. *)

\* Mutant of Writes: the attempt is not compared, nor is the fence.
WritesAny(e) == TRUE

\* task_update(): the fence of the run, and, once begun, the attempt of the task.
Writes(e) == e.fence = fence /\ (e.begun => tasks[e.task].attempt = e.attempt)

Leaves(e) == experts' = experts \ {e} /\ pool' = IF e.fence = fence THEN pool \ {e.task} ELSE pool

\* The beginning of professional().
BeginExpert(e) ==
  /\ ~e.begun /\ Writes(e)
  /\ tasks' = [tasks EXCEPT ![e.task].status = "running", ![e.task].attempt = e.attempt]
  /\ experts' = (experts \ {e}) \cup {[e EXCEPT !.begun = TRUE]}
  /\ UNCHANGED <<control, committed, plans, pool, fence, stop, exhausted>>

\* One phase of its graph ends with a fenced write of the task's state.
KeepWork(e, w) ==
  /\ tasks' = [tasks EXCEPT ![e.task].work = w]
  /\ experts' = (experts \ {e}) \cup {[e EXCEPT !.work = w]}
  /\ UNCHANGED <<pool, exhausted>>

\* The end of a task; the state it was in is of no more use.
EndTask(e, status) ==
  /\ tasks' = [tasks EXCEPT ![e.task].status = status, ![e.task].work = NewWork]
  /\ Leaves(e) /\ UNCHANGED exhausted

\* dependency_inputs(): a producer that gave no data.
InputMissing(e) == \E d \in tasks[e.task].needs : tasks[<<e.task[1], d>>].status # "succeeded"

\* task_model(): a call for tools, or a text, which is answered once with the demand
\* to complete the task explicitly.
ThinkExpert(e) ==
  /\ e.begun /\ Writes(e) /\ e.work.phase = "model"
  /\ \/ (e.work.round = MaxTurns \/ InputMissing(e)) /\ EndTask(e, "partial")
     \/ /\ e.work.round < MaxTurns
        /\ \/ KeepWork(e, [e.work EXCEPT !.phase = "tools", !.round = @ + 1])
           \/ ~e.work.retried /\ KeepWork(e, [e.work EXCEPT !.retried = TRUE, !.round = @ + 1])
           \/ e.work.retried /\ EndTask(e, "partial")
  /\ UNCHANGED <<control, committed, plans, fence, stop>>

\* task_tools(): reads, which may close the path, or complete_task(), with one repair.
ActExpert(e) ==
  /\ e.begun /\ Writes(e) /\ e.work.phase = "tools"
  /\ \/ KeepWork(e, [e.work EXCEPT !.phase = "model"])
     \/ EndTask(e, "succeeded") \/ EndTask(e, "partial")
     \/ ~e.work.retried /\ KeepWork(e, [e.work EXCEPT !.phase = "model", !.retried = TRUE])
     \/ /\ tasks' = [tasks EXCEPT ![e.task].status = "partial", ![e.task].work = NewWork]
        /\ Leaves(e) /\ exhausted' = exhausted \cup {e.task[2]}
  /\ UNCHANGED <<control, committed, plans, fence, stop>>

\* A limit or another exception: the task has failed, the others go on.
FailExpert(e) ==
  /\ e.begun /\ Writes(e)
  /\ EndTask(e, "failed") /\ stop' \in {stop, FirstReason("limit")}
  /\ UNCHANGED <<control, committed, plans, fence>>

\* A thread of a worker that has lost its lease ends at its next write.
DropExpert(e) ==
  /\ ~Writes(e) /\ Leaves(e)
  /\ UNCHANGED <<control, committed, plans, tasks, fence, stop, exhausted>>

SpecialistsNext ==
  \/ AskSupervisor \/ EndPlan \/ Dispatch \/ EndDispatch \/ BeginSynthesis \/ Synthesize \/ ReviewAnswer
  \/ CoordinatorStops \/ Finalize \/ LoseLease
  \/ \E k \in Keys : SaveTask(k)
  \/ \E e \in experts : BeginExpert(e) \/ ThinkExpert(e) \/ ActExpert(e) \/ FailExpert(e) \/ DropExpert(e)

SpecialistsSpec == SpecialistsInit /\ [][SpecialistsNext]_specialistsVars

-----------------------------------------------------------------------------
(* Properties. *)

\* The synthesis waits for every task of the plan, those too that were running when a
\* worker died, and no specialist is working on one when the answer is written.
AnswerAfterTasks ==
  control.reason = "ready" => Open = {} /\ \A e \in experts : e.fence = fence => ~e.begun

\* What a specialist has delivered stands: no late thread of an earlier worker and no
\* later plan changes a task that is over.
DeliveredStands ==
  [][\A t \in DOMAIN tasks : tasks[t].status \in Finished => tasks'[t] = tasks[t]]_specialistsVars
=============================================================================
