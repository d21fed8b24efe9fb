---------------------------- MODULE RunLifecycle ----------------------------
(***************************************************************************)
(* The life of an agent run: accepted once, claimed by work ticks under a  *)
(* lease, ended by a report, a failure or a cancellation that the worker   *)
(* has acknowledged (semibrain_agent/runs.py and control.py).              *)
(*                                                                         *)
(* Every claim draws a fresh fence and adds one to `attempt`, so the       *)
(* attempt number stands for the fence.                                    *)
(***************************************************************************)
EXTENDS Naturals

CONSTANTS
  Runs,
  Workers,     \* agent.work ticks that run at the same time
  Ticks,       \* agent.tick ticks that reconcile cancellations
  MaxAttempts, \* claims of a run; 3 in the code
  MaxSequence  \* bound: progress updates stop when a run's sequence reaches it

ASSUME BoundsAssumption == MaxAttempts \in Nat /\ MaxSequence \in Nat

Ended    == {"succeeded", "partial", "failed", "cancelled"}
Outcomes == {"succeeded", "partial", "waiting_input"}   \* what a report can bring
Statuses == Ended \cup {"absent", "queued", "running", "waiting_input", "cancelling"}

VARIABLES
  status,        \* runs.status; "absent" when there is no row
  attempt,       \* runs.attempt, and the fence of that attempt
  live,          \* runs.lease_until is in the future
  sequence,      \* runs.sequence
  acknowledged,  \* runs.stop_ack_at is set
  overdue,       \* more than 125s since runs.cancel_requested_at
  events,        \* published to stream:agent, as <<sequence, status or "progress">>
  draining,      \* queue_control.draining
  pc,            \* each work tick: idle, working, or in its exception handler
  task,          \* the run it works on, or worked on last
  token,         \* the fence it drew; 0 when it is idle
  verdict,       \* what a reconciling tick has made of its run
  subject        \* that run

rowVars    == <<status, attempt, live, sequence, acknowledged, overdue, events>>
workerVars == <<pc, task, token>>
tickVars   == <<verdict, subject>>
vars == <<rowVars, draining, workerVars, tickVars>>

RowTypes ==
  /\ status \in [Runs -> Statuses]
  /\ attempt \in [Runs -> 0..MaxAttempts]
  /\ live \in [Runs -> BOOLEAN]
  /\ sequence \in [Runs -> Nat]
  /\ acknowledged \in [Runs -> BOOLEAN]
  /\ overdue \in [Runs -> BOOLEAN]
  /\ events \in [Runs -> SUBSET (Nat \X (Statuses \cup {"progress"}))]
  /\ draining \in BOOLEAN

ProcessTypes ==
  /\ pc \in [Workers -> {"idle", "working", "raised", "failing"}]
  /\ task \in [Workers -> Runs]
  /\ token \in [Workers -> 0..MaxAttempts]
  /\ verdict \in [Ticks -> {"none", "cancelled", "failed"}]
  /\ subject \in [Ticks -> Runs]

TypeOK == RowTypes /\ ProcessTypes

Init ==
  /\ status = [r \in Runs |-> "absent"]
  /\ attempt = [r \in Runs |-> 0]
  /\ live = [r \in Runs |-> FALSE]
  /\ sequence = [r \in Runs |-> 0]
  /\ acknowledged = [r \in Runs |-> FALSE]
  /\ overdue = [r \in Runs |-> FALSE]
  /\ events = [r \in Runs |-> {}]
  /\ draining = FALSE
  /\ pc = [w \in Workers |-> "idle"]
  /\ task \in [Workers -> Runs]
  /\ token = [w \in Workers |-> 0]
  /\ verdict = [t \in Ticks |-> "none"]
  /\ subject \in [Ticks -> Runs]

-----------------------------------------------------------------------------
(* Rows. *)

\* Mutant of Announce: the event goes out under the number of the one before it.
AnnounceUnnumbered(r, s) ==
  /\ status' = [status EXCEPT ![r] = s]
  /\ sequence' = [sequence EXCEPT ![r] = @ + 1]
  /\ events' = [events EXCEPT ![r] = @ \cup {<<sequence[r], s>>}]

\* A new status and the event that announces it, under the next sequence number.
Announce(r, s) ==
  /\ status' = [status EXCEPT ![r] = s]
  /\ sequence' = [sequence EXCEPT ![r] = @ + 1]
  /\ events' = [events EXCEPT ![r] = @ \cup {<<sequence[r] + 1, s>>}]

\* accept(): a redelivered command finds its row and changes nothing.
Accept(r) ==
  /\ status[r] = "absent"
  /\ Announce(r, "queued")
  /\ UNCHANGED <<attempt, live, acknowledged, overdue, draining, workerVars, tickVars>>

\* expire_exhausted(), the first thing a work tick does.
Expire(r) ==
  /\ status[r] = "running" /\ attempt[r] >= MaxAttempts /\ ~live[r]
  /\ Announce(r, "failed")
  /\ UNCHANGED <<attempt, live, acknowledged, overdue, draining, workerVars, tickVars>>

\* set_drain(): the gate every claim passes.
SetDrain ==
  /\ draining' = ~draining
  /\ UNCHANGED <<rowVars, workerVars, tickVars>>

\* Nobody has extended the lease in time.  (Only a running run's lease is read.)
LeaseExpires(r) ==
  /\ status[r] = "running" /\ live[r]
  /\ live' = [live EXCEPT ![r] = FALSE]
  /\ UNCHANGED <<status, attempt, sequence, acknowledged, overdue, events, draining,
                 workerVars, tickVars>>

-----------------------------------------------------------------------------
(* A work tick: execute_one(). *)

\* Mutant of Claim: the bound on the attempts is forgotten.
ClaimForever(w, r) ==
  /\ pc[w] = "idle" /\ ~draining
  /\ status[r] = "queued" \/ (status[r] = "running" /\ ~live[r])
  /\ status' = [status EXCEPT ![r] = "running"]
  /\ attempt' = [attempt EXCEPT ![r] = @ + 1]
  /\ live' = [live EXCEPT ![r] = TRUE]
  /\ pc' = [pc EXCEPT ![w] = "working"]
  /\ task' = [task EXCEPT ![w] = r]
  /\ token' = [token EXCEPT ![w] = attempt[r] + 1]
  /\ UNCHANGED <<sequence, acknowledged, overdue, events, draining, tickVars>>

\* admission() and the claim in one transaction; a claim publishes nothing.
Claim(w, r) ==
  /\ pc[w] = "idle" /\ ~draining
  /\ status[r] = "queued" \/ (status[r] = "running" /\ ~live[r])
  /\ attempt[r] < MaxAttempts
  /\ status' = [status EXCEPT ![r] = "running"]
  /\ attempt' = [attempt EXCEPT ![r] = @ + 1]
  /\ live' = [live EXCEPT ![r] = TRUE]
  /\ pc' = [pc EXCEPT ![w] = "working"]
  /\ task' = [task EXCEPT ![w] = r]
  /\ token' = [token EXCEPT ![w] = attempt[r] + 1]
  /\ UNCHANGED <<sequence, acknowledged, overdue, events, draining, tickVars>>

\* Mutant of Current: the writer's fence is checked, the run's status is not.
CurrentByFence(w) == token[w] = attempt[task[w]]

\* The filter of every write a worker makes: its fence, running, lease not run out.
Current(w) ==
  LET r == task[w] IN status[r] = "running" /\ token[w] = attempt[r] /\ live[r]

\* update(): progress, tool announcements and answer deltas.
Update(w) ==
  LET r == task[w] IN
  /\ pc[w] = "working" /\ Current(w) /\ sequence[r] < MaxSequence
  /\ sequence' = [sequence EXCEPT ![r] = @ + 1]
  /\ events' = [events EXCEPT ![r] = @ \cup {<<sequence[r] + 1, "progress">>}]
  /\ UNCHANGED <<status, attempt, live, acknowledged, overdue, draining, workerVars, tickVars>>

\* The tick is over, and with it what it knew.
EndWork(w) ==
  /\ pc' = [pc EXCEPT ![w] = "idle"]
  /\ token' = [token EXCEPT ![w] = 0]
  /\ UNCHANGED task

\* The transaction that publishes the report.
Finish(w) ==
  /\ pc[w] = "working" /\ Current(w)
  /\ \E s \in Outcomes : Announce(task[w], s)
  /\ EndWork(w)
  /\ UNCHANGED <<attempt, live, acknowledged, overdue, draining, tickVars>>

\* Any exception: a refused write (STALE_ATTEMPT), a dead provider, a revoked user.
Raise(w) ==
  /\ pc[w] = "working"
  /\ pc' = [pc EXCEPT ![w] = "raised"]
  /\ UNCHANGED <<rowVars, draining, task, token, tickVars>>

\* Mutant of Acknowledge: any worker of the run acknowledges, not only its fence's owner.
AcknowledgeForOthers(w) ==
  LET r == task[w] IN
  /\ pc[w] = "raised"
  /\ acknowledged' = [acknowledged EXCEPT ![r] = @ \/ status[r] = "cancelling"]
  /\ pc' = [pc EXCEPT ![w] = "failing"]
  /\ UNCHANGED <<status, attempt, live, sequence, overdue, events, draining, task, token, tickVars>>

\* acknowledge_stopped(), the first statement of the exception handler.
Acknowledge(w) ==
  LET r == task[w] IN
  /\ pc[w] = "raised"
  /\ acknowledged' = [acknowledged EXCEPT
       ![r] = @ \/ (status[r] = "cancelling" /\ token[w] = attempt[r])]
  /\ pc' = [pc EXCEPT ![w] = "failing"]
  /\ UNCHANGED <<status, attempt, live, sequence, overdue, events, draining, task, token, tickVars>>

\* failed(), the second one.
Failed(w) ==
  /\ pc[w] = "failing"
  /\ \/ Current(w) /\ Announce(task[w], "failed")
     \/ ~Current(w) /\ UNCHANGED <<status, sequence, events>>
  /\ EndWork(w)
  /\ UNCHANGED <<attempt, live, acknowledged, overdue, draining, tickVars>>

\* The process is killed: nobody acknowledges anything.
WorkerDies(w) ==
  /\ pc[w] # "idle"
  /\ EndWork(w)
  /\ UNCHANGED <<rowVars, draining, tickVars>>

-----------------------------------------------------------------------------
(* Cancellation: control.py. *)

\* request_cancel(): a run nobody works on needs no acknowledgment.
RequestCancel(r) ==
  /\ status[r] \in {"queued", "running", "waiting_input"}
  /\ Announce(r, "cancelling")
  /\ acknowledged' = [acknowledged EXCEPT ![r] = @ \/ status[r] # "running"]
  /\ UNCHANGED <<attempt, live, overdue, draining, workerVars, tickVars>>

\* 125 seconds have passed since the request.
PatienceEnds(r) ==
  /\ status[r] = "cancelling" /\ ~overdue[r]
  /\ overdue' = [overdue EXCEPT ![r] = TRUE]
  /\ UNCHANGED <<status, attempt, live, sequence, acknowledged, events, draining,
                 workerVars, tickVars>>

\* Mutant of Examine: without an acknowledgment the run is never given up.
ExamineForever(t, r, toolsStopped) ==
  /\ verdict[t] = "none" /\ status[r] = "cancelling"
  /\ acknowledged[r] /\ toolsStopped
  /\ verdict' = [verdict EXCEPT ![t] = "cancelled"]
  /\ subject' = [subject EXCEPT ![t] = r]
  /\ UNCHANGED <<rowVars, draining, workerVars>>

\* reconcile_cancellations() looks at a run and asks after its tools.
Examine(t, r, toolsStopped) ==
  LET stopped == acknowledged[r] /\ toolsStopped IN
  /\ verdict[t] = "none" /\ status[r] = "cancelling"
  /\ stopped \/ overdue[r]
  /\ verdict' = [verdict EXCEPT ![t] = IF stopped THEN "cancelled" ELSE "failed"]
  /\ subject' = [subject EXCEPT ![t] = r]
  /\ UNCHANGED <<rowVars, draining, workerVars>>

\* ... and writes its verdict, unless another tick was faster.
Conclude(t) ==
  LET r == subject[t] IN
  /\ verdict[t] # "none"
  /\ \/ status[r] = "cancelling" /\ Announce(r, verdict[t])
     \/ status[r] # "cancelling" /\ UNCHANGED <<status, sequence, events>>
  /\ verdict' = [verdict EXCEPT ![t] = "none"]
  /\ UNCHANGED <<attempt, live, acknowledged, overdue, draining, workerVars, subject>>

TickDies(t) ==
  /\ verdict[t] # "none"
  /\ verdict' = [verdict EXCEPT ![t] = "none"]
  /\ UNCHANGED <<rowVars, draining, workerVars, subject>>

-----------------------------------------------------------------------------
Next ==
  \/ SetDrain
  \/ \E r \in Runs : Accept(r) \/ Expire(r) \/ LeaseExpires(r) \/ RequestCancel(r) \/ PatienceEnds(r)
  \/ \E w \in Workers :
       \/ \E r \in Runs : Claim(w, r)
       \/ Update(w) \/ Finish(w) \/ Raise(w) \/ Acknowledge(w) \/ Failed(w) \/ WorkerDies(w)
  \/ \E t \in Ticks :
       \/ \E r \in Runs, toolsStopped \in BOOLEAN : Examine(t, r, toolsStopped)
       \/ Conclude(t) \/ TickDies(t)

Spec == Init /\ [][Next]_vars

-----------------------------------------------------------------------------
(* Properties. *)

\* The event a consumer must believe: the last one that carries a status.
LastWord(r, s) ==
  \E e \in events[r] :
    /\ e[2] = s
    /\ \A f \in events[r] : f[2] # "progress" => f[1] <= e[1]

\* Whatever processes race on a run, its events carry different sequence numbers
\* and the last status they announce is the run's status; a running run was last
\* announced as queued (runs.py:203-229, 495-532, control.py:53-66).
EventsTellStatus ==
  \A r \in Runs :
    /\ \A e, f \in events[r] : e[1] = f[1] => e = f
    /\ status[r] # "absent" => LastWord(r, IF status[r] = "running" THEN "queued" ELSE status[r])

\* A run has at most one live writer, the worker that drew its fence, and "cancelled"
\* is only said of a run whose fence owner has left execution (control.py:72-75).
OwnerStopped ==
  \A r \in Runs : status[r] = "cancelled" =>
    \A w \in Workers : task[w] = r /\ token[w] = attempt[r] => pc[w] \in {"idle", "failing"}

\* An ended run never changes status again; a run being cancelled can only become
\* cancelled or failed, so a late report, a late failure or a new claim loses to the
\* cancellation; and a run never goes back to the queue (runs.py:497-503, control.py:150-151).
NoWayBack ==
  [][\A r \in Runs :
       /\ status[r] \in Ended => status'[r] = status[r]
       /\ status[r] = "cancelling" => status'[r] \in {"cancelling", "cancelled", "failed"}
       /\ status'[r] = "queued" => status[r] \in {"absent", "queued"}]_vars

=============================================================================
