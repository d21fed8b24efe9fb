------------------------------ MODULE ToolJobs ------------------------------
(***************************************************************************)
(* Durable tool jobs of the business service: submitted once per logical   *)
(* call, claimed under a lease, executed inside a cancellation scope, and  *)
(* ended by their executor, by a cancellation or by the sweep over lapsed  *)
(* leases (semibrain_business/tools.py and cancellation.py).               *)
(*                                                                         *)
(* As for runs, jobAttempt stands for the fence: a claim renews both.      *)
(***************************************************************************)
EXTENDS Naturals

CONSTANTS
  Jobs,
  Executors,   \* business.query ticks
  Retryable,   \* jobs whose tool may be executed again (business.*)
  Sandboxed,   \* jobs that run in a sandbox instance cancel() can stop
  Punctual,    \* TRUE: an execution ends before its 90s lease does
  MaxJobAttempts   \* claims of a job; 3 in the code

ASSUME JobsAssumption ==
  /\ MaxJobAttempts \in Nat /\ Punctual \in BOOLEAN
  /\ Retryable \subseteq Jobs /\ Sandboxed \subseteq Jobs \ Retryable

Settled     == {"succeeded", "partial", "failed", "cancelled"}
JobStatuses == Settled \cup {"absent", "queued", "running", "cancelling"}

VARIABLES
  jobStatus,     \* tool_jobs.status; "absent" when there is no row
  jobAttempt,    \* tool_jobs.attempt, and the fence of that attempt
  jobLive,       \* tool_jobs.lease_until is in the future
  jobCancelled,  \* tool_jobs.cancel_requested_at is set
  jobStopped,    \* tool_jobs.query_stopped_at is set
  jobDraining,   \* queue_control.draining
  exec,          \* what each executor does
  job,           \* the job it has, or had last
  fenceOf,       \* the fence it drew, or read when it sweeps; 0 when it is idle
  seen,          \* the status it read when it sweeps
  result,        \* the status it is about to write
  entered,       \* history: the last attempt that entered execution
  left           \* history: the last attempt known to have left it

jobVars      == <<jobStatus, jobAttempt, jobLive, jobCancelled, jobStopped>>
executorVars == <<exec, job, fenceOf, seen, result>>
historyVars  == <<entered, left>>
vars == <<jobVars, jobDraining, executorVars, historyVars>>

JobTypes ==
  /\ jobStatus \in [Jobs -> JobStatuses]
  /\ jobAttempt \in [Jobs -> 0..MaxJobAttempts]
  /\ jobLive \in [Jobs -> BOOLEAN]
  /\ jobCancelled \in [Jobs -> BOOLEAN]
  /\ jobStopped \in [Jobs -> BOOLEAN]
  /\ jobDraining \in BOOLEAN
  /\ entered \in [Jobs -> 0..MaxJobAttempts]
  /\ left \in [Jobs -> 0..MaxJobAttempts]

ExecutorTypes ==
  /\ exec \in [Executors -> {"idle", "sweeping", "claimed", "executing", "completing"}]
  /\ job \in [Executors -> Jobs]
  /\ fenceOf \in [Executors -> 0..MaxJobAttempts]
  /\ seen \in [Executors -> JobStatuses]
  /\ result \in [Executors -> Settled]

TypeOK == JobTypes /\ ExecutorTypes

Init ==
  /\ jobStatus = [j \in Jobs |-> "absent"]
  /\ jobAttempt = [j \in Jobs |-> 0]
  /\ jobLive = [j \in Jobs |-> FALSE]
  /\ jobCancelled = [j \in Jobs |-> FALSE]
  /\ jobStopped = [j \in Jobs |-> FALSE]
  /\ jobDraining = FALSE
  /\ exec = [x \in Executors |-> "idle"]
  /\ job \in [Executors -> Jobs]
  /\ fenceOf = [x \in Executors |-> 0]
  /\ seen = [x \in Executors |-> "absent"]
  /\ result = [x \in Executors |-> "failed"]
  /\ entered = [j \in Jobs |-> 0]
  /\ left = [j \in Jobs |-> 0]

-----------------------------------------------------------------------------
(* The API. *)

\* submit(): the logical call id is the key; a repeated submission changes nothing.
Submit(j) ==
  /\ jobStatus[j] = "absent"
  /\ jobStatus' = [jobStatus EXCEPT ![j] = "queued"]
  /\ UNCHANGED <<jobAttempt, jobLive, jobCancelled, jobStopped, jobDraining, executorVars, historyVars>>

\* cancel(): a queued job ends here, a running one is asked to stop.
CancelJob(j) ==
  /\ jobStatus[j] \in {"queued", "running", "cancelling"}
  /\ jobStatus' = [jobStatus EXCEPT ![j] = IF @ = "queued" THEN "cancelled" ELSE "cancelling"]
  /\ jobCancelled' = [jobCancelled EXCEPT ![j] = TRUE]
  /\ UNCHANGED <<jobAttempt, jobLive, jobStopped, jobDraining, executorVars, historyVars>>

\* ... and its sandbox instance, if it has one, is stopped.
StopSandbox(j) ==
  /\ j \in Sandboxed /\ jobStatus[j] = "cancelling" /\ entered[j] = jobAttempt[j]
  /\ jobStopped' = [jobStopped EXCEPT ![j] = TRUE]
  /\ left' = [left EXCEPT ![j] = jobAttempt[j]]
  /\ UNCHANGED <<jobStatus, jobAttempt, jobLive, jobCancelled, jobDraining, executorVars, entered>>

SetJobDrain ==
  /\ jobDraining' = ~jobDraining
  /\ UNCHANGED <<jobVars, executorVars, historyVars>>

-----------------------------------------------------------------------------
(* execute_one(): first the jobs whose executor has been lost. *)

\* Mutant of Retriable: whatever has lapsed is executed again.
RetriableAll(j) == TRUE

\* requires_external_cancellation(): which lapsed jobs a claim may take again.
Retriable(j) == j \in Retryable

\* A lapsed job that is being cancelled, or that must not be executed twice.
Lost(j) ==
  /\ ~jobLive[j]
  /\ jobStatus[j] = "cancelling" \/ (jobStatus[j] = "running" /\ ~Retriable(j))

\* Mutant of Sweep: a requested cancellation counts as a confirmed one.
SweepTrusting(x, j) ==
  /\ exec[x] = "idle" /\ Lost(j)
  /\ exec' = [exec EXCEPT ![x] = "sweeping"]
  /\ job' = [job EXCEPT ![x] = j]
  /\ fenceOf' = [fenceOf EXCEPT ![x] = jobAttempt[j]]
  /\ seen' = [seen EXCEPT ![x] = jobStatus[j]]
  /\ result' = [result EXCEPT ![x] = IF jobCancelled[j] THEN "cancelled" ELSE "failed"]
  /\ UNCHANGED <<jobVars, jobDraining, historyVars>>

\* The row is read, and with it whether its execution is known to have stopped ...
Sweep(x, j) ==
  /\ exec[x] = "idle" /\ Lost(j)
  /\ exec' = [exec EXCEPT ![x] = "sweeping"]
  /\ job' = [job EXCEPT ![x] = j]
  /\ fenceOf' = [fenceOf EXCEPT ![x] = jobAttempt[j]]
  /\ seen' = [seen EXCEPT ![x] = jobStatus[j]]
  /\ result' = [result EXCEPT ![x] = IF jobStopped[j] /\ jobCancelled[j] THEN "cancelled" ELSE "failed"]
  /\ UNCHANGED <<jobVars, jobDraining, historyVars>>

\* The tick is over, and with it what it knew.
EndTick(x) ==
  /\ exec' = [exec EXCEPT ![x] = "idle"]
  /\ fenceOf' = [fenceOf EXCEPT ![x] = 0]
  /\ seen' = [seen EXCEPT ![x] = "absent"]
  /\ result' = [result EXCEPT ![x] = "failed"]
  /\ UNCHANGED job

\* ... and the verdict is written if the row is still in that state.
Expire(x) ==
  LET j == job[x] IN
  /\ exec[x] = "sweeping"
  /\ jobStatus' = [jobStatus EXCEPT ![j] =
       IF fenceOf[x] = jobAttempt[j] /\ seen[x] = @ /\ ~jobLive[j] THEN result[x] ELSE @]
  /\ EndTick(x)
  /\ UNCHANGED <<jobAttempt, jobLive, jobCancelled, jobStopped, jobDraining, historyVars>>

\* expire_exhausted().
Exhaust(j) ==
  /\ jobStatus[j] = "running" /\ jobAttempt[j] >= MaxJobAttempts /\ ~jobLive[j]
  /\ jobStatus' = [jobStatus EXCEPT ![j] = "failed"]
  /\ UNCHANGED <<jobAttempt, jobLive, jobCancelled, jobStopped, jobDraining, executorVars, historyVars>>

\* Mutant of ClaimJob: the bound on the attempts is forgotten.
ClaimJobForever(x, j) ==
  /\ exec[x] = "idle" /\ ~jobDraining
  /\ jobStatus[j] = "queued" \/ (jobStatus[j] = "running" /\ ~jobLive[j] /\ Retriable(j))
  /\ jobStatus' = [jobStatus EXCEPT ![j] = "running"]
  /\ jobAttempt' = [jobAttempt EXCEPT ![j] = @ + 1]
  /\ jobLive' = [jobLive EXCEPT ![j] = TRUE]
  /\ exec' = [exec EXCEPT ![x] = "claimed"]
  /\ job' = [job EXCEPT ![x] = j]
  /\ fenceOf' = [fenceOf EXCEPT ![x] = jobAttempt[j] + 1]
  /\ UNCHANGED <<jobCancelled, jobStopped, jobDraining, seen, result, historyVars>>

\* admission() and the claim.  query_stopped_at is not among what it resets.
ClaimJob(x, j) ==
  /\ exec[x] = "idle" /\ ~jobDraining
  /\ jobStatus[j] = "queued" \/ (jobStatus[j] = "running" /\ ~jobLive[j] /\ Retriable(j))
  /\ jobAttempt[j] < MaxJobAttempts
  /\ jobStatus' = [jobStatus EXCEPT ![j] = "running"]
  /\ jobAttempt' = [jobAttempt EXCEPT ![j] = @ + 1]
  /\ jobLive' = [jobLive EXCEPT ![j] = TRUE]
  /\ exec' = [exec EXCEPT ![x] = "claimed"]
  /\ job' = [job EXCEPT ![x] = j]
  /\ fenceOf' = [fenceOf EXCEPT ![x] = jobAttempt[j] + 1]
  /\ UNCHANGED <<jobCancelled, jobStopped, jobDraining, seen, result, historyVars>>

\* authorization/check at the gateway, then the tool inside its CancellationScope;
\* a refusal skips the scope.
Authorize(x, allowed) ==
  LET j == job[x] IN
  /\ exec[x] = "claimed"
  /\ exec' = [exec EXCEPT ![x] = IF allowed THEN "executing" ELSE "completing"]
  /\ result' = [result EXCEPT ![x] = "failed"]
  /\ entered' = [entered EXCEPT ![j] = IF allowed /\ @ < fenceOf[x] THEN fenceOf[x] ELSE @]
  /\ UNCHANGED <<jobVars, jobDraining, job, fenceOf, seen, left>>

\* What CancellationScope.monitor() looks for.
MustStop(x) ==
  LET j == job[x] IN fenceOf[x] # jobAttempt[j] \/ jobCancelled[j] \/ ~jobLive[j]

\* The tool returns or raises, and __exit__ notes that it has stopped.
Leave(x) ==
  LET j == job[x] IN
  /\ exec[x] = "executing"
  /\ \E s \in Settled :
       /\ s = "cancelled" => MustStop(x)
       /\ result' = [result EXCEPT ![x] = s]
  /\ jobStopped' = [jobStopped EXCEPT ![j] = @ \/ fenceOf[x] = jobAttempt[j]]
  /\ left' = [left EXCEPT ![j] = IF @ < fenceOf[x] THEN fenceOf[x] ELSE @]
  /\ exec' = [exec EXCEPT ![x] = "completing"]
  /\ UNCHANGED <<jobStatus, jobAttempt, jobLive, jobCancelled, jobDraining, job, fenceOf, seen, entered>>

\* Mutant of Complete: the result wins over a cancellation requested meanwhile.
CompleteAnyway(x) ==
  LET j == job[x] IN
  /\ exec[x] = "completing"
  /\ jobStatus' = [jobStatus EXCEPT ![j] =
       IF fenceOf[x] = jobAttempt[j] /\ @ \in {"running", "cancelling"} /\ jobLive[j] THEN result[x] ELSE @]
  /\ EndTick(x)
  /\ UNCHANGED <<jobAttempt, jobLive, jobCancelled, jobStopped, jobDraining, historyVars>>

\* complete(): a requested cancellation overrides the result.
Complete(x) ==
  LET j == job[x] IN
  /\ exec[x] = "completing"
  /\ jobStatus' = [jobStatus EXCEPT ![j] =
       IF fenceOf[x] = jobAttempt[j] /\ @ \in {"running", "cancelling"} /\ jobLive[j]
       THEN IF jobCancelled[j] THEN "cancelled" ELSE result[x]
       ELSE @]
  /\ EndTick(x)
  /\ UNCHANGED <<jobAttempt, jobLive, jobCancelled, jobStopped, jobDraining, historyVars>>

ExecutorDies(x) ==
  /\ exec[x] # "idle"
  /\ EndTick(x)
  /\ UNCHANGED <<jobVars, jobDraining, historyVars>>

JobLeaseExpires(j) ==
  /\ jobStatus[j] \in {"running", "cancelling"} /\ jobLive[j]
  /\ Punctual => \A x \in Executors :
       exec[x] \in {"claimed", "executing"} => job[x] # j \/ fenceOf[x] # jobAttempt[j]
  /\ jobLive' = [jobLive EXCEPT ![j] = FALSE]
  /\ UNCHANGED <<jobStatus, jobAttempt, jobCancelled, jobStopped, jobDraining, executorVars, historyVars>>

-----------------------------------------------------------------------------
Next ==
  \/ SetJobDrain
  \/ \E j \in Jobs : Submit(j) \/ CancelJob(j) \/ StopSandbox(j) \/ Exhaust(j) \/ JobLeaseExpires(j)
  \/ \E x \in Executors :
       \/ \E j \in Jobs : Sweep(x, j) \/ ClaimJob(x, j)
       \/ \E allowed \in BOOLEAN : Authorize(x, allowed)
       \/ Expire(x) \/ Leave(x) \/ Complete(x) \/ ExecutorDies(x)

Spec == Init /\ [][Next]_vars

-----------------------------------------------------------------------------
(* Properties. *)

Executing(j) == \E x \in Executors : exec[x] = "executing" /\ job[x] = j

\* "cancelled" is only said of a job when its last attempt, if that ever began to
\* execute, is known to have ended; otherwise the sweep must say that the
\* confirmation was lost (tools.py:392-405).  Of a job that may be executed again
\* only this is known of some attempt: query_stopped_at survives a claim (464).
CancelledIsConfirmed ==
  \A j \in Jobs : jobStatus[j] = "cancelled" /\ entered[j] = jobAttempt[j] =>
    left[j] = jobAttempt[j] \/ (j \in Retryable /\ left[j] > 0)

\* A tool with effects outside (web, sandbox, vision, mcp, skill) is executed by one
\* attempt only and never by two executors at once, through lapsed leases, sweeps and
\* lost executors (tools.py:385-388, 453-460).
NeverRepeated ==
  \A j \in Jobs \ Retryable :
    /\ entered[j] <= 1
    /\ \A x, y \in Executors :
         (\A z \in {x, y} : exec[z] \in {"claimed", "executing"} /\ job[z] = j) => x = y

\* No execution of a tool is repeated, or called cancelled without a confirmation.
ToolsSound == NeverRepeated /\ CancelledIsConfirmed

\* Once settled, a job keeps its status, whichever of its executor, a cancellation
\* and the sweep comes last; and a requested cancellation is never followed by a
\* success (tools.py:417-430, 592-615).
ResultStands ==
  [][\A j \in Jobs :
       /\ jobStatus[j] \in Settled => jobStatus'[j] = jobStatus[j]
       /\ jobCancelled[j] => jobStatus'[j] \in {jobStatus[j], "cancelling", "cancelled", "failed"}]_vars

=============================================================================
