--------------------------- MODULE ToolJobsProofs ---------------------------
(***************************************************************************)
(* Proofs about ToolJobs for every set of jobs and executors, every bound  *)
(* on the attempts and every division of the tools, whoever calls them.    *)
(*                                                                         *)
(* The argument: an executor with a claim holds a fence no other executor  *)
(* holds (Claims), a job that has been claimed never waits again, and once *)
(* a cancellation is requested the job is no longer claimed at all         *)
(* (Progress).                                                             *)
(***************************************************************************)
EXTENDS ToolJobs, TLAPS

-----------------------------------------------------------------------------
(* The inductive invariant. *)

Busy == {"claimed", "executing", "completing"}

\* Fences are issued by their job, to one executor each.
Claims ==
  /\ \A x \in Executors : exec[x] \in Busy => fenceOf[x] \in 1..jobAttempt[job[x]]
  /\ \A x, y \in Executors :
       x # y /\ exec[x] \in Busy /\ exec[y] \in Busy /\ job[x] = job[y] => fenceOf[x] # fenceOf[y]
  /\ \A j \in Jobs : entered[j] <= jobAttempt[j]

\* Where a job can be on its way.
Progress ==
  /\ \A j \in Jobs :
       /\ jobStatus[j] \in {"absent", "queued"} => jobAttempt[j] = 0
       /\ jobStatus[j] \in {"running", "cancelling"} => jobAttempt[j] > 0
       /\ jobCancelled[j] => jobStatus[j] \in Settled \cup {"cancelling"}
       /\ j \notin Retryable => jobAttempt[j] <= 1
  /\ \A x \in Executors :
       exec[x] = "sweeping" => seen[x] \in {"running", "cancelling"} /\ result[x] \in {"cancelled", "failed"}

-----------------------------------------------------------------------------
(* What "cancelled" says of an execution. *)

\* What is known to have left: the last attempt, or an earlier one of a job that may
\* be claimed again.
Confirmable(j) == left[j] = jobAttempt[j] \/ (j \in Retryable /\ left[j] > 0)

\* What is said to have stopped has left, and whoever reports an execution of the
\* current attempt has left it.
Confirmed ==
  /\ \A j \in Jobs : left[j] <= jobAttempt[j]
  /\ \A j \in Jobs :
       /\ jobStopped[j] => Confirmable(j) /\ left[j] > 0 /\ jobStatus[j] \notin {"absent", "queued"}
       /\ jobStatus[j] = "cancelled" =>
            \/ Confirmable(j)
            \/ /\ entered[j] # jobAttempt[j]
               /\ \A x \in Executors : exec[x] = "claimed" /\ job[x] = j => fenceOf[x] # jobAttempt[j]
  /\ \A x \in Executors : fenceOf[x] = jobAttempt[job[x]] =>
       /\ exec[x] = "claimed" => entered[job[x]] # fenceOf[x]
       /\ exec[x] = "completing" /\ entered[job[x]] = fenceOf[x] => left[job[x]] = fenceOf[x]
  /\ \A x \in Executors : exec[x] = "sweeping" /\ result[x] = "cancelled" => jobStopped[job[x]]

\* While a job is in execution, or about to be, its lease has not run out, if executions
\* end before their leases.
Leased ==
  Punctual => \A x \in Executors : exec[x] \in {"claimed", "executing"} =>
    /\ fenceOf[x] = jobAttempt[job[x]] /\ jobLive[job[x]]
    /\ jobStatus[job[x]] \in {"running", "cancelling"}

JobsInv == TypeOK /\ Claims /\ Progress /\ Confirmed /\ Leased

-----------------------------------------------------------------------------
(* Every step keeps it. *)

\* Every step keeps the types of the jobs.
LEMMA JobTypeStep ==
  ASSUME TypeOK, [Next]_vars
  PROVE  JobTypes'
<1> USE JobsAssumption DEF TypeOK, JobTypes, ExecutorTypes, JobStatuses, Settled, vars, jobVars, executorVars, historyVars
<1>1. ASSUME SetJobDrain PROVE JobTypes'
  BY <1>1 DEF SetJobDrain
<1>2. ASSUME NEW j \in Jobs, Submit(j) PROVE JobTypes'
  BY <1>2 DEF Submit
<1>3. ASSUME NEW j \in Jobs, CancelJob(j) PROVE JobTypes'
  BY <1>3 DEF CancelJob
<1>4. ASSUME NEW j \in Jobs, StopSandbox(j) PROVE JobTypes'
  BY <1>4 DEF StopSandbox
<1>5. ASSUME NEW j \in Jobs, Exhaust(j) PROVE JobTypes'
  BY <1>5 DEF Exhaust
<1>6. ASSUME NEW j \in Jobs, JobLeaseExpires(j) PROVE JobTypes'
  BY <1>6 DEF JobLeaseExpires
<1>7. ASSUME NEW x \in Executors, NEW j \in Jobs, Sweep(x, j) PROVE JobTypes'
  BY <1>7 DEF Sweep, Lost
<1>8. ASSUME NEW x \in Executors, NEW j \in Jobs, ClaimJob(x, j) PROVE JobTypes'
  BY <1>8 DEF ClaimJob, Retriable
<1>9. ASSUME NEW x \in Executors, NEW allowed \in BOOLEAN, Authorize(x, allowed) PROVE JobTypes'
  BY <1>9 DEF Authorize
<1>10. ASSUME NEW x \in Executors, Expire(x) PROVE JobTypes'
  BY <1>10 DEF Expire, EndTick
<1>11. ASSUME NEW x \in Executors, Leave(x) PROVE JobTypes'
  BY <1>11 DEF Leave
<1>12. ASSUME NEW x \in Executors, Complete(x) PROVE JobTypes'
  BY <1>12 DEF Complete, EndTick
<1>13. ASSUME NEW x \in Executors, ExecutorDies(x) PROVE JobTypes'
  BY <1>13 DEF ExecutorDies, EndTick
<1>14. CASE UNCHANGED vars
  BY <1>14
<1> QED
  BY <1>1, <1>2, <1>3, <1>4, <1>5, <1>6, <1>7, <1>8, <1>9, <1>10, <1>11, <1>12, <1>13, <1>14 DEF Next

\* Every step keeps the types of the executors.
LEMMA ExecutorTypeStep ==
  ASSUME TypeOK, [Next]_vars
  PROVE  ExecutorTypes'
<1> USE JobsAssumption DEF TypeOK, JobTypes, ExecutorTypes, JobStatuses, Settled, vars, jobVars, executorVars, historyVars
<1>1. ASSUME SetJobDrain PROVE ExecutorTypes'
  BY <1>1 DEF SetJobDrain
<1>2. ASSUME NEW j \in Jobs, Submit(j) PROVE ExecutorTypes'
  BY <1>2 DEF Submit
<1>3. ASSUME NEW j \in Jobs, CancelJob(j) PROVE ExecutorTypes'
  BY <1>3 DEF CancelJob
<1>4. ASSUME NEW j \in Jobs, StopSandbox(j) PROVE ExecutorTypes'
  BY <1>4 DEF StopSandbox
<1>5. ASSUME NEW j \in Jobs, Exhaust(j) PROVE ExecutorTypes'
  BY <1>5 DEF Exhaust
<1>6. ASSUME NEW j \in Jobs, JobLeaseExpires(j) PROVE ExecutorTypes'
  BY <1>6 DEF JobLeaseExpires
<1>7. ASSUME NEW x \in Executors, NEW j \in Jobs, Sweep(x, j) PROVE ExecutorTypes'
  BY <1>7 DEF Sweep, Lost
<1>8. ASSUME NEW x \in Executors, NEW j \in Jobs, ClaimJob(x, j) PROVE ExecutorTypes'
  BY <1>8 DEF ClaimJob, Retriable
<1>9. ASSUME NEW x \in Executors, NEW allowed \in BOOLEAN, Authorize(x, allowed) PROVE ExecutorTypes'
  BY <1>9 DEF Authorize
<1>10. ASSUME NEW x \in Executors, Expire(x) PROVE ExecutorTypes'
  BY <1>10 DEF Expire, EndTick
<1>11. ASSUME NEW x \in Executors, Leave(x) PROVE ExecutorTypes'
  BY <1>11 DEF Leave
<1>12. ASSUME NEW x \in Executors, Complete(x) PROVE ExecutorTypes'
  BY <1>12 DEF Complete, EndTick
<1>13. ASSUME NEW x \in Executors, ExecutorDies(x) PROVE ExecutorTypes'
  BY <1>13 DEF ExecutorDies, EndTick
<1>14. CASE UNCHANGED vars
  BY <1>14
<1> QED
  BY <1>1, <1>2, <1>3, <1>4, <1>5, <1>6, <1>7, <1>8, <1>9, <1>10, <1>11, <1>12, <1>13, <1>14 DEF Next

\* Two executors never hold the same fence of a job, because a claim draws a new one.
LEMMA ClaimsStep ==
  ASSUME TypeOK, Claims, [Next]_vars
  PROVE  Claims'
<1> USE JobsAssumption DEF TypeOK, JobTypes, ExecutorTypes, JobStatuses, Settled, Claims, Busy, vars, jobVars, executorVars, historyVars
<1>1. ASSUME SetJobDrain PROVE Claims'
  BY <1>1 DEF SetJobDrain
<1>2. ASSUME NEW j \in Jobs, Submit(j) PROVE Claims'
  BY <1>2 DEF Submit
<1>3. ASSUME NEW j \in Jobs, CancelJob(j) PROVE Claims'
  BY <1>3 DEF CancelJob
<1>4. ASSUME NEW j \in Jobs, StopSandbox(j) PROVE Claims'
  BY <1>4 DEF StopSandbox
<1>5. ASSUME NEW j \in Jobs, Exhaust(j) PROVE Claims'
  BY <1>5 DEF Exhaust
<1>6. ASSUME NEW j \in Jobs, JobLeaseExpires(j) PROVE Claims'
  BY <1>6 DEF JobLeaseExpires
<1>7. ASSUME NEW x \in Executors, NEW j \in Jobs, Sweep(x, j) PROVE Claims'
  BY <1>7 DEF Sweep, Lost
<1>8. ASSUME NEW x \in Executors, NEW j \in Jobs, ClaimJob(x, j) PROVE Claims'
  BY <1>8 DEF ClaimJob, Retriable
<1>9. ASSUME NEW x \in Executors, NEW allowed \in BOOLEAN, Authorize(x, allowed) PROVE Claims'
  BY <1>9 DEF Authorize
<1>10. ASSUME NEW x \in Executors, Expire(x) PROVE Claims'
  BY <1>10 DEF Expire, EndTick
<1>11. ASSUME NEW x \in Executors, Leave(x) PROVE Claims'
  BY <1>11 DEF Leave
<1>12. ASSUME NEW x \in Executors, Complete(x) PROVE Claims'
  BY <1>12 DEF Complete, EndTick
<1>13. ASSUME NEW x \in Executors, ExecutorDies(x) PROVE Claims'
  BY <1>13 DEF ExecutorDies, EndTick
<1>14. CASE UNCHANGED vars
  BY <1>14
<1> QED
  BY <1>1, <1>2, <1>3, <1>4, <1>5, <1>6, <1>7, <1>8, <1>9, <1>10, <1>11, <1>12, <1>13, <1>14 DEF Next

\* A job that may not be repeated is claimed from the queue only, and leaves it for good.
LEMMA ProgressStep ==
  ASSUME TypeOK, Progress, [Next]_vars
  PROVE  Progress'
<1> USE JobsAssumption DEF TypeOK, JobTypes, ExecutorTypes, JobStatuses, Settled, Progress, vars, jobVars, executorVars, historyVars
<1>1. ASSUME SetJobDrain PROVE Progress'
  BY <1>1 DEF SetJobDrain
<1>2. ASSUME NEW j \in Jobs, Submit(j) PROVE Progress'
  BY <1>2 DEF Submit
<1>3. ASSUME NEW j \in Jobs, CancelJob(j) PROVE Progress'
  BY <1>3 DEF CancelJob
<1>4. ASSUME NEW j \in Jobs, StopSandbox(j) PROVE Progress'
  BY <1>4 DEF StopSandbox
<1>5. ASSUME NEW j \in Jobs, Exhaust(j) PROVE Progress'
  BY <1>5 DEF Exhaust
<1>6. ASSUME NEW j \in Jobs, JobLeaseExpires(j) PROVE Progress'
  BY <1>6 DEF JobLeaseExpires
<1>7. ASSUME NEW x \in Executors, NEW j \in Jobs, Sweep(x, j) PROVE Progress'
  BY <1>7 DEF Sweep, Lost
<1>8. ASSUME NEW x \in Executors, NEW j \in Jobs, ClaimJob(x, j) PROVE Progress'
  BY <1>8 DEF ClaimJob, Retriable
<1>9. ASSUME NEW x \in Executors, NEW allowed \in BOOLEAN, Authorize(x, allowed) PROVE Progress'
  BY <1>9 DEF Authorize
<1>10. ASSUME NEW x \in Executors, Expire(x) PROVE Progress'
  BY <1>10 DEF Expire, EndTick
<1>11. ASSUME NEW x \in Executors, Leave(x) PROVE Progress'
  BY <1>11 DEF Leave
<1>12. ASSUME NEW x \in Executors, Complete(x) PROVE Progress'
  BY <1>12 DEF Complete, EndTick
<1>13. ASSUME NEW x \in Executors, ExecutorDies(x) PROVE Progress'
  BY <1>13 DEF ExecutorDies, EndTick
<1>14. CASE UNCHANGED vars
  BY <1>14
<1> QED
  BY <1>1, <1>2, <1>3, <1>4, <1>5, <1>6, <1>7, <1>8, <1>9, <1>10, <1>11, <1>12, <1>13, <1>14 DEF Next

\* A confirmation is written by who has left the execution, or of an execution that was stopped.
LEMMA ConfirmedStep ==
  ASSUME TypeOK, Claims, Progress, Confirmed, [Next]_vars
  PROVE  Confirmed'
<1> USE JobsAssumption DEF TypeOK, JobTypes, ExecutorTypes, JobStatuses, Settled, Claims, Busy, Progress, Confirmed, Confirmable, vars, jobVars, executorVars, historyVars
<1>1. ASSUME SetJobDrain PROVE Confirmed'
  BY <1>1 DEF SetJobDrain
<1>2. ASSUME NEW j \in Jobs, Submit(j) PROVE Confirmed'
  BY <1>2 DEF Submit
<1>3. ASSUME NEW j \in Jobs, CancelJob(j) PROVE Confirmed'
  BY <1>3 DEF CancelJob
<1>4. ASSUME NEW j \in Jobs, StopSandbox(j) PROVE Confirmed'
  BY <1>4 DEF StopSandbox
<1>5. ASSUME NEW j \in Jobs, Exhaust(j) PROVE Confirmed'
  BY <1>5 DEF Exhaust
<1>6. ASSUME NEW j \in Jobs, JobLeaseExpires(j) PROVE Confirmed'
  BY <1>6 DEF JobLeaseExpires
<1>7. ASSUME NEW x \in Executors, NEW j \in Jobs, Sweep(x, j) PROVE Confirmed'
  BY <1>7 DEF Sweep, Lost
<1>8. ASSUME NEW x \in Executors, NEW j \in Jobs, ClaimJob(x, j) PROVE Confirmed'
  BY <1>8 DEF ClaimJob, Retriable
<1>9. ASSUME NEW x \in Executors, NEW allowed \in BOOLEAN, Authorize(x, allowed) PROVE Confirmed'
  BY <1>9 DEF Authorize
<1>10. ASSUME NEW x \in Executors, Expire(x) PROVE Confirmed'
  BY <1>10 DEF Expire, EndTick
<1>11. ASSUME NEW x \in Executors, Leave(x) PROVE Confirmed'
  BY <1>11 DEF Leave
<1>12. ASSUME NEW x \in Executors, Complete(x) PROVE Confirmed'
  BY <1>12 DEF Complete, EndTick
<1>13. ASSUME NEW x \in Executors, ExecutorDies(x) PROVE Confirmed'
  BY <1>13 DEF ExecutorDies, EndTick
<1>14. CASE UNCHANGED vars
  BY <1>14
<1> QED
  BY <1>1, <1>2, <1>3, <1>4, <1>5, <1>6, <1>7, <1>8, <1>9, <1>10, <1>11, <1>12, <1>13, <1>14 DEF Next

\* A lease does not run out under an execution that is punctual.
LEMMA LeasedStep ==
  ASSUME TypeOK, Claims, Progress, Leased, [Next]_vars
  PROVE  Leased'
<1> USE JobsAssumption DEF TypeOK, JobTypes, ExecutorTypes, JobStatuses, Settled, Claims, Busy, Progress, Leased, vars, jobVars, executorVars, historyVars
<1>1. ASSUME SetJobDrain PROVE Leased'
  BY <1>1 DEF SetJobDrain
<1>2. ASSUME NEW j \in Jobs, Submit(j) PROVE Leased'
  BY <1>2 DEF Submit
<1>3. ASSUME NEW j \in Jobs, CancelJob(j) PROVE Leased'
  BY <1>3 DEF CancelJob
<1>4. ASSUME NEW j \in Jobs, StopSandbox(j) PROVE Leased'
  BY <1>4 DEF StopSandbox
<1>5. ASSUME NEW j \in Jobs, Exhaust(j) PROVE Leased'
  BY <1>5 DEF Exhaust
<1>6. ASSUME NEW j \in Jobs, JobLeaseExpires(j) PROVE Leased'
  BY <1>6 DEF JobLeaseExpires
<1>7. ASSUME NEW x \in Executors, NEW j \in Jobs, Sweep(x, j) PROVE Leased'
  BY <1>7 DEF Sweep, Lost
<1>8. ASSUME NEW x \in Executors, NEW j \in Jobs, ClaimJob(x, j) PROVE Leased'
  BY <1>8 DEF ClaimJob, Retriable
<1>9. ASSUME NEW x \in Executors, NEW allowed \in BOOLEAN, Authorize(x, allowed) PROVE Leased'
  BY <1>9 DEF Authorize
<1>10. ASSUME NEW x \in Executors, Expire(x) PROVE Leased'
  BY <1>10 DEF Expire, EndTick
<1>11. ASSUME NEW x \in Executors, Leave(x) PROVE Leased'
  BY <1>11 DEF Leave
<1>12. ASSUME NEW x \in Executors, Complete(x) PROVE Leased'
  BY <1>12 DEF Complete, EndTick
<1>13. ASSUME NEW x \in Executors, ExecutorDies(x) PROVE Leased'
  BY <1>13 DEF ExecutorDies, EndTick
<1>14. CASE UNCHANGED vars
  BY <1>14
<1> QED
  BY <1>1, <1>2, <1>3, <1>4, <1>5, <1>6, <1>7, <1>8, <1>9, <1>10, <1>11, <1>12, <1>13, <1>14 DEF Next

\* The invariant holds at the beginning ...
LEMMA JobsInvInit == Init => JobsInv
<1> SUFFICES ASSUME Init PROVE JobsInv
  OBVIOUS
<1> USE JobsAssumption DEF Init
<1>1. jobDraining \in BOOLEAN
  BY Zenon
<1>2. JobTypes
  BY <1>1 DEF JobTypes, JobStatuses, Settled
<1>3. ExecutorTypes
  BY DEF ExecutorTypes, JobStatuses, Settled
<1>4. Claims
  BY DEF Claims, Busy
<1>5. Progress
  BY DEF Progress
<1>6. Confirmed /\ Leased
  BY DEF Confirmed, Confirmable, Leased
<1> QED
  BY <1>2, <1>3, <1>4, <1>5, <1>6 DEF JobsInv, TypeOK

\* ... is kept by every step ...
LEMMA JobsInvStep == JobsInv /\ [Next]_vars => JobsInv'
BY JobTypeStep, ExecutorTypeStep, ClaimsStep, ProgressStep, ConfirmedStep, LeasedStep DEF JobsInv, TypeOK

\* ... and so always holds.
LEMMA JobsInvHolds == Spec => []JobsInv
BY JobsInvInit, JobsInvStep, PTL DEF Spec

-----------------------------------------------------------------------------
(* The theorems. *)

\* The rows of the jobs and the memory of the executors keep their types; no job is
\* attempted more often than the bound allows (tools.py:452-474).
THEOREM JobTypesHold == Spec => []TypeOK
<1>1. JobsInv => TypeOK
  BY DEF JobsInv
<1> QED
  BY <1>1, JobsInvHolds, PTL

\* A tool with effects outside is entered once, by one executor, through lapsed
\* leases, sweeps and lost executors (tools.py:385-388, 453-460).
THEOREM NoRepetition == Spec => []NeverRepeated
<1>1. JobsInv => NeverRepeated
  <2> SUFFICES ASSUME JobsInv, NEW j \in Jobs \ Retryable
               PROVE  /\ entered[j] <= 1
                      /\ \A x, y \in Executors :
                           (\A z \in {x, y} : exec[z] \in {"claimed", "executing"} /\ job[z] = j) => x = y
    BY DEF NeverRepeated
  <2>1. entered[j] \in Nat /\ jobAttempt[j] \in Nat /\ entered[j] <= jobAttempt[j] /\ jobAttempt[j] <= 1
    BY JobsAssumption DEF JobsInv, Claims, Progress, TypeOK, JobTypes
  <2>2. ASSUME NEW x \in Executors, exec[x] \in {"claimed", "executing"}, job[x] = j
        PROVE  fenceOf[x] = 1
    BY <2>1, <2>2 DEF JobsInv, Claims, Busy
  <2>3. ASSUME NEW x \in Executors, NEW y \in Executors,
               \A z \in {x, y} : exec[z] \in {"claimed", "executing"} /\ job[z] = j
        PROVE  x = y
    BY <2>2, <2>3 DEF JobsInv, Claims, Busy
  <2> QED
    BY <2>1, <2>3
<1> QED
  BY <1>1, JobsInvHolds, PTL

\* Nor is an execution called cancelled unless it, if it ever began, is known to have
\* ended, whatever leases lapse and executors are lost; of a job that may be executed
\* again, unless some attempt is known to have (tools.py:392-405, 441-465, 592-615).
THEOREM ToolsAreSound == Spec => []ToolsSound
<1>1. JobsInv => CancelledIsConfirmed
  BY DEF JobsInv, Confirmed, Confirmable, CancelledIsConfirmed
<1> QED
  BY <1>1, JobsInvHolds, NoRepetition, PTL DEF ToolsSound

\* Settled jobs and requested cancellations bind every step.
LEMMA ResultStandsStep ==
  ASSUME JobsInv, [Next]_vars, NEW q \in Jobs
  PROVE  /\ jobStatus[q] \in Settled => jobStatus'[q] = jobStatus[q]
         /\ jobCancelled[q] => jobStatus'[q] \in {jobStatus[q], "cancelling", "cancelled", "failed"}
<1> DEFINE Kept == /\ jobStatus[q] \in Settled => jobStatus'[q] = jobStatus[q]
                   /\ jobCancelled[q] => jobStatus'[q] \in {jobStatus[q], "cancelling", "cancelled", "failed"}
<1> USE JobsAssumption DEF JobsInv, TypeOK, JobTypes, ExecutorTypes, JobStatuses, Settled, Progress, vars, jobVars, executorVars, historyVars
<1>1. ASSUME SetJobDrain PROVE Kept
  BY <1>1 DEF SetJobDrain
<1>2. ASSUME NEW j \in Jobs, Submit(j) PROVE Kept
  BY <1>2 DEF Submit
<1>3. ASSUME NEW j \in Jobs, CancelJob(j) PROVE Kept
  BY <1>3 DEF CancelJob
<1>4. ASSUME NEW j \in Jobs, StopSandbox(j) PROVE Kept
  BY <1>4 DEF StopSandbox
<1>5. ASSUME NEW j \in Jobs, Exhaust(j) PROVE Kept
  BY <1>5 DEF Exhaust
<1>6. ASSUME NEW j \in Jobs, JobLeaseExpires(j) PROVE Kept
  BY <1>6 DEF JobLeaseExpires
<1>7. ASSUME NEW x \in Executors, NEW j \in Jobs, Sweep(x, j) PROVE Kept
  BY <1>7 DEF Sweep, Lost
<1>8. ASSUME NEW x \in Executors, NEW j \in Jobs, ClaimJob(x, j) PROVE Kept
  BY <1>8 DEF ClaimJob, Retriable
<1>9. ASSUME NEW x \in Executors, NEW allowed \in BOOLEAN, Authorize(x, allowed) PROVE Kept
  BY <1>9 DEF Authorize
<1>10. ASSUME NEW x \in Executors, Expire(x) PROVE Kept
  BY <1>10 DEF Expire, EndTick
<1>11. ASSUME NEW x \in Executors, Leave(x) PROVE Kept
  BY <1>11 DEF Leave
<1>12. ASSUME NEW x \in Executors, Complete(x) PROVE Kept
  BY <1>12 DEF Complete, EndTick
<1>13. ASSUME NEW x \in Executors, ExecutorDies(x) PROVE Kept
  BY <1>13 DEF ExecutorDies, EndTick
<1>14. CASE UNCHANGED vars
  BY <1>14
<1> QED
  BY <1>1, <1>2, <1>3, <1>4, <1>5, <1>6, <1>7, <1>8, <1>9, <1>10, <1>11, <1>12, <1>13, <1>14 DEF Next

\* A settled job keeps its status, whichever of its executor, a cancellation and the
\* sweep comes last, and a requested cancellation is never followed by a success
\* (tools.py:417-430, 592-615).
THEOREM ResultsStand == Spec => ResultStands
<1>1. JobsInv /\ [Next]_vars =>
        [\A j \in Jobs :
           /\ jobStatus[j] \in Settled => jobStatus'[j] = jobStatus[j]
           /\ jobCancelled[j] => jobStatus'[j] \in {jobStatus[j], "cancelling", "cancelled", "failed"}]_vars
  BY ResultStandsStep
<1> QED
  BY <1>1, JobsInvHolds, PTL DEF Spec, ResultStands

=============================================================================
