------------------------- MODULE ConversationIntake -------------------------
(***************************************************************************)
(* Submissions to one conversation (semibrain_conversation/conversations.py).*)
(* A submission looks for a run of its own key, asks the agent about the   *)
(* runs that seem active, and is accepted in a transaction filtered by the *)
(* revision it expects.  The revision counts the accepted runs, so run k   *)
(* has input_revision k.  The answer to a submission may be lost: a client *)
(* may begin again with the same form at any time.                         *)
(***************************************************************************)
EXTENDS Naturals, Sequences, FiniteSets

CONSTANTS
  Submitters,  \* requests to the gateway that are handled at the same time
  Requests,    \* request_ids clients choose
  MaxRuns      \* bound: no more runs are accepted

ASSUME IntakeAssumption == MaxRuns \in Nat

\* A form is the request_id and what payload_hash covers of it.  `prior` is
\* continuation_of, 0 when there is none.
Forms == [request : Requests, expected : 0..MaxRuns, prior : 0..MaxRuns]
Blank == [request |-> "none", expected |-> 0, prior |-> 0]

\* The statuses of a run in the order they come, as the agent announces them.
Rank == [dispatching |-> 0, active |-> 1, waiting_input |-> 2, ended |-> 3]

VARIABLES
  runs,       \* gateway_runs by input_revision: the forms they were accepted with
  shown,      \* gateway_runs.status
  told,       \* what the agent has announced of each run; {} before it has accepted it
  step,       \* each submission: where it is in submit()
  form,       \* ... its form
  todo,       \* ... the active runs it has still to ask the agent about
  confirmed,  \* ... confirmed_terminal
  given       \* ... the run its answer names, 0 before

rowVars    == <<runs, shown, told>>
submitVars == <<step, form, todo, confirmed, given>>
intakeVars == <<rowVars, submitVars>>

Runs == DOMAIN runs

IntakeTypes ==
  /\ runs \in Seq(Forms) /\ Len(runs) <= MaxRuns
  /\ shown \in [Runs -> DOMAIN Rank]
  /\ told \in [Runs -> SUBSET (DOMAIN Rank \ {"dispatching"})]
  /\ step \in [Submitters -> {"idle", "prior", "survey", "ask", "answered"}]
  /\ form \in [Submitters -> Forms \cup {Blank}]
  /\ todo \in [Submitters -> SUBSET Runs]
  /\ confirmed \in [Submitters -> SUBSET Runs]
  /\ given \in [Submitters -> {0} \cup Runs]

IntakeInit ==
  /\ runs = <<>> /\ shown = <<>> /\ told = <<>>
  /\ step = [s \in Submitters |-> "idle"]
  /\ form = [s \in Submitters |-> Blank]
  /\ todo = [s \in Submitters |-> {}]
  /\ confirmed = [s \in Submitters |-> {}]
  /\ given = [s \in Submitters |-> 0]

\* What GET /internal/v1/runs/{id} says, and which runs the gateway takes for active.
AgentStatus(k) ==
  IF told[k] = {} THEN "dispatching" ELSE CHOOSE s \in told[k] : \A t \in told[k] : Rank[t] <= Rank[s]
Quiet(k)  == AgentStatus(k) \in {"waiting_input", "ended"}
Active    == {k \in Runs : shown[k] \in {"dispatching", "active"}}

Same(f) == {k \in Runs : runs[k].request = f.request}

\* Mutant of Matches: any payload is taken for a repetition.
MatchesKey(k, f) == runs[k].request = f.request

\* submission_matches(): the run was accepted with this very payload.
Matches(k, f) == runs[k] = f

\* submission_response().
Answer(s, f, k) ==
  /\ step' = [step EXCEPT ![s] = "answered"]
  /\ form' = [form EXCEPT ![s] = f]
  /\ given' = [given EXCEPT ![s] = k]
  /\ UNCHANGED <<todo, confirmed>>

\* The first lookup of submit(): a key that has its run is answered at once, or
\* refused as a conflict, which changes nothing.
Begin(s, f) ==
  /\ step[s] = "idle" /\ f.prior <= Len(runs)
  /\ \/ \E k \in Same(f) : Matches(k, f) /\ Answer(s, f, k) /\ UNCHANGED rowVars
     \/ /\ Same(f) = {}
        /\ step' = [step EXCEPT ![s] = IF f.prior = 0 THEN "survey" ELSE "prior"]
        /\ form' = [form EXCEPT ![s] = f]
        /\ UNCHANGED <<rowVars, todo, confirmed, given>>

\* The submission is over: answered, refused at some point, or its process is dead.
Leave(s) ==
  /\ step[s] # "idle"
  /\ step' = [step EXCEPT ![s] = "idle"]
  /\ form' = [form EXCEPT ![s] = Blank]
  /\ todo' = [todo EXCEPT ![s] = {}]
  /\ confirmed' = [confirmed EXCEPT ![s] = {}]
  /\ given' = [given EXCEPT ![s] = 0]
  /\ UNCHANGED rowVars

\* run_snapshot() of the run that is continued: it must be waiting for input now.
SeePrior(s) ==
  /\ step[s] = "prior" /\ AgentStatus(form[s].prior) = "waiting_input"
  /\ step' = [step EXCEPT ![s] = "survey"]
  /\ UNCHANGED <<rowVars, form, todo, confirmed, given>>

\* The query for active runs, outside any transaction ...
Survey(s) ==
  /\ step[s] = "survey"
  /\ todo' = [todo EXCEPT ![s] = Active]
  /\ step' = [step EXCEPT ![s] = "ask"]
  /\ UNCHANGED <<rowVars, form, confirmed, given>>

\* ... and a call to the agent for each.  One that is not over fails the submission
\* (Leave), and so does one the agent does not know yet.
Ask(s, k) ==
  /\ step[s] = "ask" /\ k \in todo[s] /\ Quiet(k)
  /\ todo' = [todo EXCEPT ![s] = @ \ {k}]
  /\ confirmed' = [confirmed EXCEPT ![s] = @ \cup {k}]
  /\ UNCHANGED <<rowVars, step, form, given>>

\* Mutant of Admissible: what was active a moment ago is all that is looked at.
AdmissibleThen(s) == TRUE

\* In the transaction: nothing is active but what the agent has confirmed.
Admissible(s) == Active \subseteq confirmed[s]

\* accept(): the row, its turn and message, and the run.requested event.
Accept(s) ==
  /\ step[s] = "ask" /\ todo[s] = {}
  /\ LET f == form[s] IN
       \/ \E k \in Same(f) : Matches(k, f) /\ Answer(s, f, k) /\ UNCHANGED rowVars
       \/ /\ Same(f) = {} /\ Admissible(s)
          /\ f.expected = Len(runs) /\ Len(runs) < MaxRuns
          /\ runs' = Append(runs, f)
          /\ shown' = Append(shown, "dispatching")
          /\ told' = Append(told, {})
          /\ Answer(s, f, Len(runs) + 1)

\* The agent goes on with a run: it accepts it when the event reaches it (which may
\* be late, or never), asks for input, ends it, or lets the wait run out.
Advance(k, s) ==
  /\ s \in DOMAIN Rank \ {"dispatching"}
  /\ \A t \in told[k] : Rank[t] < Rank[s]
  /\ told[k] = {} => s = "active"
  /\ told' = [told EXCEPT ![k] = @ \cup {s}]
  /\ UNCHANGED <<runs, shown, submitVars>>

\* project(): only a higher sequence changes the status.
Project(k, s) ==
  /\ s \in told[k] /\ Rank[s] > Rank[shown[k]]
  /\ shown' = [shown EXCEPT ![k] = s]
  /\ UNCHANGED <<runs, told, submitVars>>

IntakeNext ==
  \/ \E s \in Submitters : \/ \E f \in Forms : Begin(s, f)
                           \/ Leave(s) \/ SeePrior(s) \/ Survey(s) \/ Accept(s)
                           \/ \E k \in Runs : Ask(s, k)
  \/ \E k \in Runs, s \in DOMAIN Rank : Advance(k, s) \/ Project(k, s)

IntakeSpec == IntakeInit /\ [][IntakeNext]_intakeVars

-----------------------------------------------------------------------------
(* Properties. *)

\* At most one run of a conversation is dispatched or worked on, whatever the
\* submissions saw before they were accepted, and the one that is is the latest.
OneActiveRun == \A k \in Runs : ~Quiet(k) => k = Len(runs)

\* Every answer to a request, the first or a repetition, names the one run that was
\* accepted with that very payload.
RepeatedFindsItsRun ==
  /\ \A s \in Submitters : step[s] = "answered" => runs[given[s]] = form[s]
  /\ \A j, k \in Runs : runs[j].request = runs[k].request => j = k

=============================================================================
