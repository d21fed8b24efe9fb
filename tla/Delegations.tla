---------------------------- MODULE Delegations ----------------------------
(***************************************************************************)
(* What a run may do in the business service (semibrain_conversation/      *)
(* access.py).  The agent gets tokens for the operations of a run or of a  *)
(* specialist's task; the business service has the token introspected when *)
(* a request arrives and asks again before a queued job is executed.  Each *)
(* of these checks looks at the owner, the run and the task one after the  *)
(* other.  `sub` stands for tokens and jobs of the specialist's task.      *)
(***************************************************************************)
EXTENDS Naturals, FiniteSets

CONSTANTS
  Checks,      \* checks that are under way at the same time
  MaxTokens,   \* bound on tokens
  MaxSwitches  \* bound on how often the task starts or stops

ASSUME DelegationsAssumption == MaxTokens \in Nat /\ MaxSwitches \in Nat

\* RUN_OPS stands for all of its operations, and so on.
Ops == {"read", "web", "multi", "lineage"}
Tokens == 1..MaxTokens
Why == {"owner", "web", "task", "going"}

VARIABLES
  owner,     \* the owner is enabled, with the auth_version of the run
  gateway,   \* gateway_runs: allow_web, web_disabled_at, cancel_requested_at, multi_agent
  task,      \* what the agent says of the task: active, its allowed_ops; switches counted
  tokens,    \* delegation:*, whether they exist, whose they are, and allowed_ops
  check,     \* each check: step, kind, token or operation, what it has read of the run
  held,      \* history, per check: what has held at some time since it began
  allowed    \* each check: the operations it has allowed

delegationVars == <<owner, gateway, task, tokens, check, held, allowed>>

DelegationTypes ==
  /\ owner \in BOOLEAN
  /\ gateway \in [web : BOOLEAN, off : BOOLEAN, cancel : BOOLEAN, multi : BOOLEAN]
  /\ task \in [active : BOOLEAN, ops : SUBSET Ops, switches : 0..MaxSwitches]
  /\ tokens \in [Tokens -> [live : BOOLEAN, sub : BOOLEAN, ops : SUBSET Ops]]
  /\ check \in [Checks -> [step : {"idle", "owner", "run", "task", "done"},
                           kind : {"none", "issue", "introspect", "execute"},
                           sub : BOOLEAN, ops : SUBSET Ops, web : BOOLEAN]]
  /\ held \in [Checks -> SUBSET Why]
  /\ allowed \in [Checks -> SUBSET Ops]

AtRest == [step |-> "idle", kind |-> "none", sub |-> FALSE, ops |-> {}, web |-> FALSE]

DelegationsInit ==
  /\ owner = TRUE
  /\ gateway \in [web : BOOLEAN, off : {FALSE}, cancel : {FALSE}, multi : BOOLEAN]
  /\ task \in [active : {FALSE}, ops : {{"read", "multi", "lineage"}, {"read", "web", "lineage"}}, switches : {0}]
  /\ tokens = [t \in Tokens |-> [live |-> FALSE, sub |-> FALSE, ops |-> {}]]
  /\ check = [c \in Checks |-> AtRest]
  /\ held = [c \in Checks |-> {}] /\ allowed = [c \in Checks |-> {}]

WebAllowed == gateway.web /\ ~gateway.off /\ ~gateway.cancel

HoldsNow == {y \in Why : \/ y = "owner" /\ owner
                         \/ y = "web" /\ WebAllowed
                         \/ y = "task" /\ task.active
                         \/ y = "going" /\ ~gateway.cancel}

\* What an operation needs.
Needs(c, op) ==
  {"owner"} \cup (IF op = "web" THEN {"web"} ELSE {})
            \cup (IF check[c].sub /\ op # "lineage" THEN {"task"} ELSE {})
            \cup (IF check[c].kind = "execute" THEN {"going"} ELSE {})

-----------------------------------------------------------------------------
(* The owner, the run and the task change while checks are under way. *)

OwnerRevoked == owner /\ owner' = FALSE /\ UNCHANGED <<gateway, task, tokens, check, held, allowed>>

DisableWeb ==
  /\ ~gateway.off /\ gateway' = [gateway EXCEPT !.off = TRUE]
  /\ UNCHANGED <<owner, task, tokens, check, held, allowed>>

CancelRun ==
  /\ ~gateway.cancel /\ gateway' = [gateway EXCEPT !.cancel = TRUE]
  /\ UNCHANGED <<owner, task, tokens, check, held, allowed>>

\* The task is dispatched, ends, or its run's lease lapses; a later claim of the run
\* dispatches it again.
SwitchTask ==
  /\ gateway.multi /\ task.switches < MaxSwitches
  /\ task' = [task EXCEPT !.active = ~@, !.switches = @ + 1]
  /\ held' = [c \in Checks |-> IF check[c].step # "idle" /\ task'.active THEN held[c] \cup {"task"} ELSE held[c]]
  /\ UNCHANGED <<owner, gateway, tokens, check, allowed>>

\* The 60 seconds of a token.
ExpireToken(t) ==
  /\ tokens[t].live /\ tokens' = [tokens EXCEPT ![t] = [live |-> FALSE, sub |-> FALSE, ops |-> {}]]
  /\ UNCHANGED <<owner, gateway, task, check, held, allowed>>

-----------------------------------------------------------------------------
(* Checks. *)

BeginCheck(c, kind, sub, ops) ==
  /\ check[c].step = "idle"
  /\ check' = [check EXCEPT ![c] = [AtRest EXCEPT !.step = "owner", !.kind = kind, !.sub = sub, !.ops = ops]]
  /\ held' = [held EXCEPT ![c] = HoldsNow]
  /\ UNCHANGED <<owner, gateway, task, tokens, allowed>>

\* delegation(), for the run's own task or for the specialist's.
AskToken(c, sub) == (sub => gateway.multi) /\ BeginCheck(c, "issue", sub, {"read", "lineage", "web", "multi"})

\* introspect(), of a token that is there.
AskIntrospection(c, t) == tokens[t].live /\ BeginCheck(c, "introspect", tokens[t].sub, tokens[t].ops)

\* execution_authorization(), of a job that was let into the queue at some time.
AskExecution(c, sub, op) ==
  /\ (sub \/ op = "multi") => gateway.multi
  /\ BeginCheck(c, "execute", sub, {op})

\* The requester goes away, or the check fails.
EndCheck(c) ==
  /\ check[c].step # "idle"
  /\ check' = [check EXCEPT ![c] = AtRest]
  /\ held' = [held EXCEPT ![c] = {}] /\ allowed' = [allowed EXCEPT ![c] = {}]
  /\ UNCHANGED <<owner, gateway, task, tokens>>

\* users.find_one(), with the auth_version.
SeeOwner(c) ==
  /\ check[c].step = "owner" /\ owner
  /\ check' = [check EXCEPT ![c].step = "run"]
  /\ UNCHANGED <<owner, gateway, task, tokens, held, allowed>>

\* trusted_run(): an execution is refused once the run is to be cancelled, and a web
\* operation once it may not go to the web.
SeeRun(c) ==
  /\ check[c].step = "run"
  /\ check[c].kind = "execute" => ~gateway.cancel /\ ("web" \in check[c].ops => WebAllowed)
  /\ check' = [check EXCEPT ![c].step = "task", ![c].web = WebAllowed]
  /\ UNCHANGED <<owner, gateway, task, tokens, held, allowed>>

\* Mutant of OfTask: the task's part in the token is not looked at again.
OfTaskOnce(c) ==
  IF ~check[c].sub \/ check[c].kind = "introspect" THEN Ops ELSE IF task.active THEN task.ops ELSE {"lineage"}

\* What the agent's answer leaves of a specialist's operations.
OfTask(c) == IF ~check[c].sub THEN Ops ELSE IF task.active THEN task.ops ELSE {"lineage"}

\* What is left of the operations asked for: make_grant() and introspect() narrow, and
\* a narrowed claim may still have some; an execution has its one operation or none.
Narrowed(c) ==
  {op \in check[c].ops \cap OfTask(c) : (op = "web" => check[c].web) /\ (op = "multi" => gateway.multi)}

SeeTask(c) ==
  /\ check[c].step = "task"
  /\ IF check[c].kind = "issue"
       THEN \E t \in Tokens :
              /\ ~tokens[t].live
              /\ tokens' = [tokens EXCEPT ![t] = [live |-> TRUE, sub |-> check[c].sub, ops |-> Narrowed(c)]]
              /\ check' = [check EXCEPT ![c] = AtRest] /\ held' = [held EXCEPT ![c] = {}]
              /\ UNCHANGED allowed
       ELSE /\ check[c].kind = "execute" /\ check[c].sub => task.active
            /\ allowed' = [allowed EXCEPT ![c] = Narrowed(c)]
            /\ check' = [check EXCEPT ![c].step = "done"]
            /\ UNCHANGED <<tokens, held>>
  /\ UNCHANGED <<owner, gateway, task>>

DelegationsNext ==
  \/ OwnerRevoked \/ DisableWeb \/ CancelRun \/ SwitchTask
  \/ \E t \in Tokens : ExpireToken(t)
  \/ \E c \in Checks :
       \/ SeeOwner(c) \/ SeeRun(c) \/ SeeTask(c) \/ EndCheck(c)
       \/ \E t \in Tokens : AskIntrospection(c, t)
       \/ \E sub \in BOOLEAN : AskToken(c, sub) \/ \E op \in Ops : AskExecution(c, sub, op)

DelegationsSpec == DelegationsInit /\ [][DelegationsNext]_delegationVars

-----------------------------------------------------------------------------
(* Properties. *)

\* However old a token or a queued job is, and in whatever order a check reads, what it
\* allows was allowed at a time since it began: the owner was authorized, a web
\* operation was not yet switched off nor the run to be cancelled, the task was active.
NoStaleAuthority ==
  \A c \in Checks : \A op \in allowed[c] : Needs(c, op) \subseteq held[c]

=============================================================================
