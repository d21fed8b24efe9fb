--------------------------- MODULE RunCancellation ---------------------------
(***************************************************************************)
(* Stopping a run across three services: the gateway keeps the user's      *)
(* intent and repeats it, the agent stops its worker and asks after the    *)
(* tool call the run is waiting for, the business service executes that    *)
(* call (conversations.py cancel_run, worker.py tick and project; runs.py  *)
(* and control.py; client.py tool; tools.py).                              *)
(*                                                                         *)
(* A run has one logical tool call, whose identity every attempt derives   *)
(* again, so the job of run r is r.                                        *)
(***************************************************************************)
EXTENDS RunLifecycle

CONSTANTS
  Executors, Retryable, Sandboxed, Punctual,
  MaxJobAttempts,
  Tracked,     \* runs whose tool is one reconcile_cancellations asks after
  Drainable    \* bound: the services, of agent and business, whose queue gets drained

ASSUME SystemAssumption ==
  /\ MaxJobAttempts \in Nat /\ Punctual \in BOOLEAN
  /\ Retryable \subseteq Runs /\ Sandboxed \subseteq Runs \ Retryable

VARIABLES
  jobStatus, jobAttempt, jobLive, jobCancelled, jobStopped, jobDraining,
  exec, job, fenceOf, seen, result, entered, left,
  intent,      \* gateway_runs.cancel_requested_at is set
  known,       \* gateway_runs.status
  projected,   \* gateway_runs.projected_sequence
  active,      \* runs.active_call_id and active_tool are set
  call,        \* how far a worker is with its tool call
  post         \* the submission of the call is on its way to the business service

Tools == INSTANCE ToolJobs WITH Jobs <- Runs

toolVars    == <<jobStatus, jobAttempt, jobLive, jobCancelled, jobStopped, jobDraining,
                 exec, job, fenceOf, seen, result, entered, left>>
gatewayVars == <<intent, known, projected>>
callVars    == <<active, call, post>>
systemVars  == <<vars, toolVars, gatewayVars, callVars>>

SystemTypeOK ==
  /\ TypeOK /\ Tools!TypeOK
  /\ intent \in [Runs -> BOOLEAN]
  /\ known \in [Runs -> (Statuses \ {"absent", "running"}) \cup {"dispatching"}]
  /\ projected \in [Runs -> Nat]
  /\ active \in [Runs -> BOOLEAN]
  /\ call \in [Workers -> {"none", "noted", "sent", "waiting", "settling"}]
  /\ post \in [Runs -> BOOLEAN]

SystemInit ==
  /\ Init /\ Tools!Init
  /\ intent = [r \in Runs |-> FALSE]
  /\ known = [r \in Runs |-> "dispatching"]
  /\ projected = [r \in Runs |-> 0]
  /\ active = [r \in Runs |-> FALSE]
  /\ call = [w \in Workers |-> "none"]
  /\ post = [r \in Runs |-> FALSE]

-----------------------------------------------------------------------------
(* The gateway. *)

\* cancel_run(): the intent is durable, whatever the call to the agent brings.
UserCancels(r) ==
  /\ ~intent[r] /\ known[r] \notin Ended
  /\ intent' = [intent EXCEPT ![r] = TRUE]
  /\ UNCHANGED <<vars, toolVars, known, projected, callVars>>

\* That call, or its repetition by a later tick, gets through.
ForwardCancel(r) ==
  /\ intent[r] /\ known[r] \notin Ended
  /\ RequestCancel(r)
  /\ UNCHANGED <<toolVars, gatewayVars, callVars>>

\* Mutant of Project: whatever arrives is applied, older events too.
ProjectAnything(r) ==
  /\ \E e \in events[r] :
       /\ projected' = [projected EXCEPT ![r] = e[1]]
       /\ known' = [known EXCEPT ![r] = IF e[2] = "progress" THEN @ ELSE e[2]]
  /\ UNCHANGED <<vars, toolVars, intent, callVars>>

\* project(): an event older than the last one projected changes nothing.
Project(r) ==
  /\ \E e \in events[r] :
       /\ projected[r] < e[1]
       /\ projected' = [projected EXCEPT ![r] = e[1]]
       /\ known' = [known EXCEPT ![r] = IF e[2] = "progress" THEN @ ELSE e[2]]
  /\ UNCHANGED <<vars, toolVars, intent, callVars>>

-----------------------------------------------------------------------------
(* The worker and its tool call: BusinessClient.tool(). *)

Quietly(w) == UNCHANGED <<toolVars, gatewayVars, active, post>> /\ call' = [call EXCEPT ![w] = "none"]

\* The run's row names the call before it is made.
NoteTool(w) ==
  /\ call[w] = "none"
  /\ Update(w)
  /\ active' = [active EXCEPT ![task[w]] = TRUE]
  /\ call' = [call EXCEPT ![w] = "noted"]
  /\ UNCHANGED <<toolVars, gatewayVars, post>>

\* The guard passes and the job is submitted.
SendTool(w) ==
  /\ pc[w] = "working" /\ call[w] = "noted" /\ Current(w)
  /\ post' = [post EXCEPT ![task[w]] = TRUE]
  /\ call' = [call EXCEPT ![w] = "sent"]
  /\ UNCHANGED <<vars, toolVars, gatewayVars, active>>

\* The submission arrives, perhaps long after the worker has given it up ...
Deliver(r) ==
  /\ post[r]
  /\ post' = [post EXCEPT ![r] = FALSE]
  /\ \/ Tools!Submit(r)
     \/ jobStatus[r] # "absent" /\ UNCHANGED toolVars
  /\ UNCHANGED <<vars, gatewayVars, active, call>>

\* ... or never, or it is refused.
Lose(r) ==
  /\ post[r]
  /\ post' = [post EXCEPT ![r] = FALSE]
  /\ UNCHANGED <<vars, toolVars, gatewayVars, active, call>>

Submitted(w) ==
  /\ pc[w] = "working" /\ call[w] = "sent" /\ jobStatus[task[w]] # "absent"
  /\ call' = [call EXCEPT ![w] = "waiting"]
  /\ UNCHANGED <<vars, toolVars, gatewayVars, active, post>>

\* A cancel request to the business service, which may not get through.
TryCancel(r) == Tools!CancelJob(r) \/ UNCHANGED toolVars

\* The result arrives; or the call fails or reaches its deadline, and after a try
\* to cancel it the executor notes a failed observation.
ToolReturns(w) ==
  /\ pc[w] = "working"
  /\ \/ call[w] = "waiting" /\ jobStatus[task[w]] \in Tools!Settled /\ UNCHANGED toolVars
     \/ call[w] = "sent" /\ UNCHANGED toolVars
     \/ call[w] = "waiting" /\ TryCancel(task[w])
  /\ call' = [call EXCEPT ![w] = "settling"]
  /\ UNCHANGED <<vars, gatewayVars, active, post>>

\* The row no longer names the call.
ClearTool(w) ==
  /\ call[w] = "settling"
  /\ Update(w)
  /\ active' = [active EXCEPT ![task[w]] = FALSE]
  /\ call' = [call EXCEPT ![w] = "none"]
  /\ UNCHANGED <<toolVars, gatewayVars, post>>

\* The guard finds the run cancelled or taken over while the tool runs.
GiveUp(w) ==
  /\ call[w] = "waiting" /\ ~Current(w)
  /\ Raise(w)
  /\ TryCancel(task[w])
  /\ call' = [call EXCEPT ![w] = "none"]
  /\ UNCHANGED <<gatewayVars, active, post>>

WorkerStep(w) ==
  \/ NoteTool(w) \/ SendTool(w) \/ Submitted(w) \/ ToolReturns(w) \/ ClearTool(w) \/ GiveUp(w)
  \/ /\ \/ call[w] = "none" /\ Update(w)
        \/ Raise(w) \/ Acknowledge(w) \/ Failed(w)
     /\ Quietly(w)
  \/ /\ call[w] = "none" /\ Finish(w)
     /\ active' = [active EXCEPT ![task[w]] = FALSE]
     /\ UNCHANGED <<toolVars, gatewayVars, call, post>>

-----------------------------------------------------------------------------
(* reconcile_cancellations() and its questions to the business service. *)

\* Mutant of ToolStopped: an accepted request to stop counts as a stopped tool.
ToolAsked(r) ==
  \/ jobStatus[r] \in Tools!Settled \cup {"absent", "cancelling"} /\ UNCHANGED toolVars
  \/ jobStatus[r] \in {"queued", "running"} /\ Tools!CancelJob(r)

\* tool_stop_confirmed(): settled, or never submitted; a queued job settles now.
ToolStopped(r) ==
  \/ jobStatus[r] \in Tools!Settled \cup {"absent"} /\ UNCHANGED toolVars
  \/ jobStatus[r] = "queued" /\ Tools!CancelJob(r)

Reconcile(t, r) ==
  /\ \/ ~(active[r] /\ r \in Tracked) /\ Examine(t, r, TRUE) /\ UNCHANGED toolVars
     \/ active[r] /\ r \in Tracked /\ Examine(t, r, TRUE) /\ ToolStopped(r)
     \/ active[r] /\ r \in Tracked /\ Examine(t, r, FALSE) /\ TryCancel(r)
  /\ UNCHANGED <<gatewayVars, callVars>>

\* The same question by a tick that comes to no verdict yet.
AskTool(r) ==
  /\ status[r] = "cancelling" /\ active[r] /\ r \in Tracked
  /\ Tools!CancelJob(r)
  /\ UNCHANGED <<vars, gatewayVars, callVars>>

\* A run that has waited 30 minutes for input is cancelled.
WaitExpires(r) ==
  /\ status[r] = "waiting_input"
  /\ RequestCancel(r)
  /\ UNCHANGED <<toolVars, gatewayVars, callVars>>

-----------------------------------------------------------------------------
(* The business service, and the gateway's answer to authorization/check: *)
(* EXECUTION_CANCELLED once the user has asked for the cancellation; it   *)
(* may refuse for other reasons, or not be reached.                       *)
ExecutorStep(x) ==
  /\ \/ \E r \in Runs : Tools!Sweep(x, r) \/ Tools!ClaimJob(x, r)
     \/ Tools!Authorize(x, FALSE)
     \/ ~intent[job[x]] /\ Tools!Authorize(x, TRUE)
     \/ Tools!Expire(x) \/ Tools!Leave(x) \/ Tools!Complete(x)
  /\ UNCHANGED <<vars, gatewayVars, callVars>>

-----------------------------------------------------------------------------
Alone(A) == A /\ UNCHANGED <<toolVars, gatewayVars, callVars>>

Time(r) ==
  \/ Alone(LeaseExpires(r)) \/ Alone(PatienceEnds(r))
  \/ Tools!JobLeaseExpires(r) /\ UNCHANGED <<vars, gatewayVars, callVars>>

Faults ==
  \/ \E w \in Workers : WorkerDies(w) /\ Quietly(w)
  \/ \E t \in Ticks : Alone(TickDies(t))
  \/ \E x \in Executors : Tools!ExecutorDies(x) /\ UNCHANGED <<vars, gatewayVars, callVars>>
  \/ \E r \in Runs : Lose(r)

Operators ==
  \/ "agent" \in Drainable /\ Alone(SetDrain)
  \/ "business" \in Drainable /\ Tools!SetJobDrain /\ UNCHANGED <<vars, gatewayVars, callVars>>

SystemNext ==
  \/ \E r \in Runs :
       \/ UserCancels(r) \/ ForwardCancel(r) \/ Project(r) \/ Deliver(r)
       \/ AskTool(r) \/ WaitExpires(r) \/ Time(r)
       \/ Alone(Accept(r)) \/ Alone(Expire(r))
       \/ (Tools!StopSandbox(r) \/ Tools!Exhaust(r)) /\ UNCHANGED <<vars, gatewayVars, callVars>>
       \/ \E w \in Workers : Alone(Claim(w, r))
       \/ \E t \in Ticks : Reconcile(t, r)
  \/ \E w \in Workers : WorkerStep(w)
  \/ \E t \in Ticks : Alone(Conclude(t))
  \/ \E x \in Executors : ExecutorStep(x)
  \/ Faults \/ Operators

SystemSpec == SystemInit /\ [][SystemNext]_systemVars

\* Celery beat starts every kind of tick every few seconds, a worker's run ends
\* with its deadline, and time passes.  Nothing is assumed of users and operators,
\* and of faults only that a reconciling tick is not killed every time.
Fairness ==
  /\ \A r \in Runs :
       /\ WF_systemVars(ForwardCancel(r)) /\ WF_systemVars(Project(r))
       /\ WF_systemVars(Alone(Accept(r)))
       /\ WF_systemVars(Time(r))
       /\ WF_systemVars(\E t \in Ticks : Reconcile(t, r))
  /\ \A t \in Ticks : SF_systemVars(Alone(Conclude(t)))

FairSystemSpec == SystemSpec /\ Fairness

-----------------------------------------------------------------------------
(* Properties. *)

\* When a run is reported cancelled while its row names a tool call, no executor
\* is executing that call, nor will one: late submissions, executors that were
\* authorized before the cancellation and lost answers included (control.py:90-147,
\* client.py:48-53, access.py:207).
CancelledMeansStopped ==
  \A r \in Runs : status[r] = "cancelled" /\ active[r] => ~Tools!Executing(r)

\* The gateway learns of a run's end only when the agent's row has come to that
\* end, and never unlearns it, whatever order the events arrive in, late progress
\* and older statuses included (worker.py:32-41).
GatewayAgrees ==
  [][\A r \in Runs :
       /\ known[r] \in Ended => known'[r] = known[r]
       /\ known'[r] \in Ended => known'[r] = status'[r]]_systemVars

\* A user's cancellation ends: the gateway learns of the end of the run, even if
\* the request was made before the agent had accepted it, requests and answers were
\* lost, and the worker died without acknowledging (conversations.py:383-401,
\* worker.py:67-85, control.py:104-182).
CancellationEnds ==
  \A r \in Runs : intent[r] ~> known[r] \in Ended

\* A cancelled tool call is known to have ended (ToolJobs).
CancelledIsConfirmed == Tools!CancelledIsConfirmed

\* "Cancelled" is the last word on a run and on each of its tool calls: nothing
\* executes behind it.
CancelledIsOver == CancelledMeansStopped /\ CancelledIsConfirmed

=============================================================================
