--------------------------- MODULE GatewayProofs ---------------------------
(***************************************************************************)
(* Proofs about the gateway's workflows: delegated authority, titles,      *)
(* submissions, sessions and files made from an answer, for any number of  *)
(* actors, and that the sum of them which TLC explores (MCGateway) keeps   *)
(* what each part promises.                                                *)
(***************************************************************************)
EXTENDS MCGateway, SequenceTheorems, TLAPS

-----------------------------------------------------------------------------
(* Delegations *)

\* What holds now has been seen to hold by every check that is under way.
Witnessed == \A c \in Checks : check[c].step # "idle" => HoldsNow \subseteq held[c]

\* What a check has read of the owner and of the run held when it read it.
Read ==
  \A c \in Checks :
    /\ check[c].step \in {"run", "task", "done"} => "owner" \in held[c]
    /\ check[c].step \in {"task", "done"} =>
         /\ check[c].web => "web" \in held[c]
         /\ check[c].kind = "execute" => "going" \in held[c]

\* Only a check that is done has allowed something.
NotYet == \A c \in Checks : check[c].step # "done" => allowed[c] = {}

DelegationInv == DelegationTypes /\ Witnessed /\ Read /\ NotYet /\ NoStaleAuthority

Stages == {"idle", "owner", "run", "task", "done"}
CheckRows == [step : Stages, kind : {"none", "issue", "introspect", "execute"},
              sub : BOOLEAN, ops : SUBSET Ops, web : BOOLEAN]
TokenRows == [live : BOOLEAN, sub : BOOLEAN, ops : SUBSET Ops]

\* The types, with the rows named.
LEMMA DelegationRows ==
  DelegationTypes <=>
    /\ owner \in BOOLEAN
    /\ gateway \in [web : BOOLEAN, off : BOOLEAN, cancel : BOOLEAN, multi : BOOLEAN]
    /\ task \in [active : BOOLEAN, ops : SUBSET Ops, switches : 0..MaxSwitches]
    /\ tokens \in [Tokens -> TokenRows]
    /\ check \in [Checks -> CheckRows]
    /\ held \in [Checks -> SUBSET Why]
    /\ allowed \in [Checks -> SUBSET Ops]
BY DEF DelegationTypes, TokenRows, CheckRows, Stages

\* A check at rest is a check.
LEMMA RestIsCheck == AtRest \in CheckRows /\ AtRest.step = "idle"
BY DEF AtRest, CheckRows, Stages

\* The invariant holds at the beginning.
LEMMA DelegationStart == DelegationsInit => DelegationInv
<1> SUFFICES ASSUME DelegationsInit PROVE DelegationInv
  OBVIOUS
<1> USE DelegationsAssumption
<1>1. /\ owner = TRUE /\ tokens = [t \in Tokens |-> [live |-> FALSE, sub |-> FALSE, ops |-> {}]]
      /\ check = [c \in Checks |-> AtRest] /\ held = [c \in Checks |-> {}] /\ allowed = [c \in Checks |-> {}]
  BY DEF DelegationsInit
<1>2. gateway \in [web : BOOLEAN, off : BOOLEAN, cancel : BOOLEAN, multi : BOOLEAN]
  BY DEF DelegationsInit
<1>3. task \in [active : BOOLEAN, ops : SUBSET Ops, switches : 0..MaxSwitches]
  <2>1. PICK ops \in {{"read", "multi", "lineage"}, {"read", "web", "lineage"}} :
          task = [active |-> FALSE, ops |-> ops, switches |-> 0]
    <3>1. task \in [active : {FALSE}, ops : {{"read", "multi", "lineage"}, {"read", "web", "lineage"}}, switches : {0}]
      BY DEF DelegationsInit
    <3> QED
      BY <3>1
  <2>2. ops \in SUBSET Ops /\ 0 \in 0..MaxSwitches
    BY DEF Ops
  <2> QED
    BY <2>1, <2>2
<1>4. [live |-> FALSE, sub |-> FALSE, ops |-> {}] \in TokenRows
  BY DEF TokenRows
<1>5. DelegationTypes
  BY <1>1, <1>2, <1>3, <1>4, DelegationRows, RestIsCheck DEF Why
<1>6. \A c \in Checks : check[c].step = "idle" /\ allowed[c] = {}
  BY <1>1, RestIsCheck
<1> QED
  BY <1>5, <1>6 DEF DelegationInv, Witnessed, Read, NotYet, NoStaleAuthority

\* What HoldsNow says, before and after a step.
Members ==
  /\ HoldsNow \subseteq Why
  /\ "owner" \in HoldsNow <=> owner
  /\ "web" \in HoldsNow <=> WebAllowed
  /\ "task" \in HoldsNow <=> task.active
  /\ "going" \in HoldsNow <=> ~gateway.cancel

\* What holds now is some of the conditions, each where the state says so.
LEMMA HoldsMembers == Members /\ Members'
<1>1. Members
  BY DEF Members, HoldsNow, Why
<1>2. Members'
  BY DEF Members, HoldsNow, Why
<1> QED
  BY <1>1, <1>2

\* The owner is revoked, the web switched off, the run cancelled: less holds now.
LEMMA RevocationKeeps ==
  ASSUME DelegationInv, OwnerRevoked \/ DisableWeb \/ CancelRun
  PROVE  DelegationInv'
<1>1. /\ UNCHANGED <<task, tokens, check, held, allowed>>
      /\ owner' \in BOOLEAN /\ gateway' \in [web : BOOLEAN, off : BOOLEAN, cancel : BOOLEAN, multi : BOOLEAN]
  BY DEF DelegationInv, DelegationTypes, OwnerRevoked, DisableWeb, CancelRun
<1>2. DelegationTypes'
  BY <1>1 DEF DelegationInv, DelegationTypes
<1>3. /\ (owner' => owner)
      /\ (WebAllowed' => WebAllowed)
      /\ (gateway.cancel => gateway'.cancel)
  BY DEF DelegationInv, DelegationTypes, OwnerRevoked, DisableWeb, CancelRun, WebAllowed
<1>4. HoldsNow' \subseteq HoldsNow
  <2> SUFFICES ASSUME NEW y \in HoldsNow' PROVE y \in HoldsNow
    OBVIOUS
  <2>1. y \in Why
    BY HoldsMembers DEF Members
  <2>2. y = "owner" => y \in HoldsNow
    BY <1>3, HoldsMembers, Zenon DEF Members
  <2>3. y = "web" => y \in HoldsNow
    BY <1>3, HoldsMembers, Zenon DEF Members
  <2>4. y = "task" => y \in HoldsNow
    BY <1>1, HoldsMembers, Zenon DEF Members
  <2>5. y = "going" => y \in HoldsNow
    BY <1>3, HoldsMembers, Zenon DEF Members
  <2> QED
    BY <2>1, <2>2, <2>3, <2>4, <2>5, Zenon DEF Why
<1>5. Witnessed'
  BY <1>1, <1>4 DEF DelegationInv, Witnessed
<1>6. Read' /\ NotYet'
  BY <1>1 DEF DelegationInv, Read, NotYet
<1>7. NoStaleAuthority'
  BY <1>1 DEF DelegationInv, NoStaleAuthority, Needs
<1> QED
  BY <1>2, <1>5, <1>6, <1>7 DEF DelegationInv

\* The task starts or stops: a check under way sees that it is active.
LEMMA SwitchKeeps ==
  ASSUME DelegationInv, SwitchTask
  PROVE  DelegationInv'
<1> USE DelegationsAssumption
<1>1. UNCHANGED <<owner, gateway, tokens, check, allowed>>
  BY DEF SwitchTask
<1>2. task' \in [active : BOOLEAN, ops : SUBSET Ops, switches : 0..MaxSwitches]
  <2>1. task \in [active : BOOLEAN, ops : SUBSET Ops, switches : 0..MaxSwitches]
    BY DEF DelegationInv, DelegationTypes
  <2>2. task.switches \in 0..MaxSwitches /\ task.switches < MaxSwitches
    BY <2>1 DEF SwitchTask
  <2>4. task.switches + 1 \in 0..MaxSwitches
    BY <2>2
  <2>5. (~task.active) \in BOOLEAN
    BY Zenon
  <2>3. task' = [active |-> ~task.active, ops |-> task.ops, switches |-> task.switches + 1]
    BY <2>1 DEF SwitchTask
  <2> QED
    BY <2>1, <2>3, <2>4, <2>5
<1>3. held' = [c \in Checks |-> IF check[c].step # "idle" /\ task'.active THEN held[c] \cup {"task"} ELSE held[c]]
  BY DEF SwitchTask
<1>4. \A c \in Checks : held'[c] \in SUBSET Why /\ held[c] \subseteq held'[c]
  BY <1>3 DEF DelegationInv, DelegationTypes, Why
<1>5. DelegationTypes'
  <2>1. held' \in [Checks -> SUBSET Why]
    BY <1>3, <1>4
  <2> QED
    BY <1>1, <1>2, <2>1 DEF DelegationInv, DelegationTypes
<1>6. HoldsNow' \subseteq HoldsNow \cup (IF task'.active THEN {"task"} ELSE {})
  BY <1>1, HoldsMembers DEF Members, Why, WebAllowed
<1>7. Witnessed'
  BY <1>1, <1>3, <1>4, <1>6 DEF DelegationInv, Witnessed
<1>8. Read' /\ NotYet'
  BY <1>1, <1>4 DEF DelegationInv, Read, NotYet
<1>9. NoStaleAuthority'
  BY <1>1, <1>4 DEF DelegationInv, NoStaleAuthority, Needs
<1> QED
  BY <1>5, <1>7, <1>8, <1>9 DEF DelegationInv

\* A token runs out.
LEMMA TokenKeeps ==
  ASSUME DelegationInv, NEW t \in Tokens, ExpireToken(t)
  PROVE  DelegationInv'
<1>1. UNCHANGED <<owner, gateway, task, check, held, allowed>>
  BY DEF ExpireToken
<1>2. [live |-> FALSE, sub |-> FALSE, ops |-> {}] \in TokenRows
  BY DEF TokenRows
<1>3. tokens' \in [Tokens -> TokenRows]
  <2>1. tokens \in [Tokens -> TokenRows]
    BY DelegationRows DEF DelegationInv
  <2> QED
    BY <2>1, <1>2 DEF ExpireToken
<1>4. DelegationTypes'
  BY <1>1, <1>3 DEF DelegationInv, DelegationTypes, TokenRows
<1>5. HoldsNow' = HoldsNow
  BY <1>1 DEF HoldsNow, WebAllowed
<1>6. Witnessed' /\ Read' /\ NotYet' /\ NoStaleAuthority'
  BY <1>1, <1>5 DEF DelegationInv, Witnessed, Read, NotYet, NoStaleAuthority, Needs
<1> QED
  BY <1>4, <1>6 DEF DelegationInv

\* Operations asked for are operations, however a check begins.
LEMMA AskedOps ==
  ASSUME DelegationInv, NEW c \in Checks,
         \/ \E t \in Tokens : AskIntrospection(c, t)
         \/ \E sub \in BOOLEAN : AskToken(c, sub) \/ \E op \in Ops : AskExecution(c, sub, op)
  PROVE  \E kind \in {"issue", "introspect", "execute"}, sub \in BOOLEAN, ops \in SUBSET Ops :
           BeginCheck(c, kind, sub, ops)
<1>1. CASE \E t \in Tokens : AskIntrospection(c, t)
  <2>1. PICK t \in Tokens : BeginCheck(c, "introspect", tokens[t].sub, tokens[t].ops)
    BY <1>1 DEF AskIntrospection
  <2>2. tokens[t] \in TokenRows
    BY DelegationRows DEF DelegationInv
  <2>3. tokens[t].sub \in BOOLEAN /\ tokens[t].ops \in SUBSET Ops
    BY <2>2 DEF TokenRows
  <2> QED
    BY <2>1, <2>3
<1>2. ASSUME NEW sub \in BOOLEAN, AskToken(c, sub)
      PROVE  \E kind \in {"issue", "introspect", "execute"}, s \in BOOLEAN, ops \in SUBSET Ops :
               BeginCheck(c, kind, s, ops)
  <2>1. BeginCheck(c, "issue", sub, {"read", "lineage", "web", "multi"})
    BY <1>2 DEF AskToken
  <2>2. {"read", "lineage", "web", "multi"} \in SUBSET Ops
    BY DEF Ops
  <2> QED
    BY <2>1, <2>2
<1>3. ASSUME NEW sub \in BOOLEAN, NEW op \in Ops, AskExecution(c, sub, op)
      PROVE  \E kind \in {"issue", "introspect", "execute"}, s \in BOOLEAN, ops \in SUBSET Ops :
               BeginCheck(c, kind, s, ops)
  <2>1. BeginCheck(c, "execute", sub, {op})
    BY <1>3 DEF AskExecution
  <2> QED
    BY <2>1
<1> QED
  BY <1>1, <1>2, <1>3

\* A check that changes only itself, to a row that is one, keeps the types.
LEMMA CheckKeepsTypes ==
  ASSUME DelegationTypes, NEW c \in Checks, NEW row \in CheckRows,
         check' = [check EXCEPT ![c] = row], UNCHANGED <<owner, gateway, task>>,
         tokens' \in [Tokens -> TokenRows], held' \in [Checks -> SUBSET Why],
         allowed' \in [Checks -> SUBSET Ops]
  PROVE  DelegationTypes' /\ check'[c] = row /\ \A d \in Checks \ {c} : check'[d] = check[d]
<1>1. check \in [Checks -> CheckRows]
  BY DelegationRows
<1>2. check' \in [Checks -> CheckRows] /\ check'[c] = row /\ \A d \in Checks \ {c} : check'[d] = check[d]
  BY <1>1
<1>3. DelegationTypes'
  BY <1>2 DEF DelegationTypes, CheckRows, TokenRows, Stages
<1> QED
  BY <1>2, <1>3

\* A check begins: it has seen what holds.
LEMMA BeginKeeps ==
  ASSUME DelegationInv, NEW c \in Checks,
         NEW kind \in {"issue", "introspect", "execute"}, NEW sub \in BOOLEAN, NEW ops \in SUBSET Ops,
         BeginCheck(c, kind, sub, ops)
  PROVE  DelegationInv'
<1>1. PICK row : row = [AtRest EXCEPT !.step = "owner", !.kind = kind, !.sub = sub, !.ops = ops]
  OBVIOUS
<1>2. row \in CheckRows /\ row.step = "owner"
  BY <1>1 DEF AtRest, CheckRows, Stages
<1>3. /\ check[c].step = "idle" /\ check' = [check EXCEPT ![c] = row]
      /\ held' = [held EXCEPT ![c] = HoldsNow] /\ UNCHANGED <<owner, gateway, task, tokens, allowed>>
  BY <1>1 DEF BeginCheck
<1>4. tokens' \in [Tokens -> TokenRows] /\ allowed' \in [Checks -> SUBSET Ops] /\ held \in [Checks -> SUBSET Why]
  BY <1>3, DelegationRows DEF DelegationInv
<1>5. /\ held' \in [Checks -> SUBSET Why] /\ held'[c] = HoldsNow
      /\ \A d \in Checks \ {c} : held'[d] = held[d]
  BY <1>3, <1>4, HoldsMembers DEF Members
<1>6. DelegationTypes' /\ check'[c] = row /\ \A d \in Checks \ {c} : check'[d] = check[d]
  BY <1>2, <1>3, <1>4, <1>5, CheckKeepsTypes DEF DelegationInv
<1>7. HoldsNow' = HoldsNow
  BY <1>3 DEF HoldsNow, WebAllowed
<1>8. Witnessed'
  BY <1>5, <1>6, <1>7 DEF DelegationInv, Witnessed
<1>9. Read'
  BY <1>2, <1>5, <1>6 DEF DelegationInv, Read
<1>10. NotYet' /\ allowed'[c] = {}
  BY <1>3, <1>6 DEF DelegationInv, NotYet
<1>11. NoStaleAuthority'
  BY <1>3, <1>5, <1>6, <1>10 DEF DelegationInv, NoStaleAuthority, Needs
<1> QED
  BY <1>6, <1>8, <1>9, <1>10, <1>11 DEF DelegationInv

\* A check ends.
LEMMA EndKeeps ==
  ASSUME DelegationInv, NEW c \in Checks, EndCheck(c)
  PROVE  DelegationInv'
<1>1. /\ check' = [check EXCEPT ![c] = AtRest] /\ held' = [held EXCEPT ![c] = {}]
      /\ allowed' = [allowed EXCEPT ![c] = {}] /\ UNCHANGED <<owner, gateway, task, tokens>>
  BY DEF EndCheck
<1>2. tokens' \in [Tokens -> TokenRows] /\ allowed \in [Checks -> SUBSET Ops] /\ held \in [Checks -> SUBSET Why]
  BY <1>1, DelegationRows DEF DelegationInv
<1>3. /\ held' \in [Checks -> SUBSET Why] /\ allowed' \in [Checks -> SUBSET Ops] /\ allowed'[c] = {}
      /\ \A d \in Checks \ {c} : held'[d] = held[d] /\ allowed'[d] = allowed[d]
  BY <1>1, <1>2
<1>4. DelegationTypes' /\ check'[c] = AtRest /\ \A d \in Checks \ {c} : check'[d] = check[d]
  BY <1>1, <1>2, <1>3, RestIsCheck, CheckKeepsTypes DEF DelegationInv
<1>5. HoldsNow' = HoldsNow
  BY <1>1 DEF HoldsNow, WebAllowed
<1>6. Witnessed' /\ NotYet'
  BY <1>3, <1>4, <1>5, RestIsCheck DEF DelegationInv, Witnessed, NotYet
<1>7. Read'
  BY <1>3, <1>4, RestIsCheck DEF DelegationInv, Read
<1>8. NoStaleAuthority'
  BY <1>3, <1>4 DEF DelegationInv, NoStaleAuthority, Needs
<1> QED
  BY <1>4, <1>6, <1>7, <1>8 DEF DelegationInv

\* A check sees the owner, or the run, as they are.
LEMMA SeeKeeps ==
  ASSUME DelegationInv, NEW c \in Checks, SeeOwner(c) \/ SeeRun(c)
  PROVE  DelegationInv'
<1>1. UNCHANGED <<owner, gateway, task, tokens, held, allowed>>
  BY DEF SeeOwner, SeeRun
<1>2. /\ tokens' \in [Tokens -> TokenRows] /\ allowed' \in [Checks -> SUBSET Ops]
      /\ held' \in [Checks -> SUBSET Why] /\ check[c] \in CheckRows
  BY <1>1, DelegationRows DEF DelegationInv
<1>3. PICK row \in CheckRows :
        /\ check' = [check EXCEPT ![c] = row] /\ row.kind = check[c].kind /\ row.sub = check[c].sub
        /\ \/ row.step = "run" /\ owner
           \/ /\ row.step = "task" /\ check[c].step = "run" /\ (row.web => WebAllowed)
              /\ (row.kind = "execute" => ~gateway.cancel)
  <2>1. CASE SeeOwner(c)
    <3>1. PICK row : row = [check[c] EXCEPT !.step = "run"]
      OBVIOUS
    <3>2. row \in CheckRows /\ row.step = "run" /\ row.kind = check[c].kind /\ row.sub = check[c].sub
      BY <1>2, <3>1 DEF CheckRows, Stages
    <3>3. check' = [check EXCEPT ![c] = row] /\ owner
      BY <2>1, <3>1 DEF SeeOwner
    <3> QED
      BY <3>2, <3>3, Zenon
  <2>2. CASE SeeRun(c)
    <3>1. PICK row : row = [check[c] EXCEPT !.step = "task", !.web = WebAllowed]
      OBVIOUS
    <3>2. WebAllowed \in BOOLEAN
      BY DEF WebAllowed
    <3>3. row = [step |-> "task", kind |-> check[c].kind, sub |-> check[c].sub, ops |-> check[c].ops, web |-> WebAllowed]
      BY <1>2, <3>1 DEF CheckRows
    <3>4. row \in CheckRows /\ row.step = "task" /\ row.kind = check[c].kind /\ row.sub = check[c].sub
      BY <1>2, <3>2, <3>3 DEF CheckRows, Stages
    <3>5. row.web => WebAllowed
      BY <3>3
    <3>6. /\ check' = [check EXCEPT ![c] = row] /\ check[c].step = "run"
          /\ (check[c].kind = "execute" => ~gateway.cancel)
      BY <2>2, <3>1 DEF SeeRun
    <3> QED
      BY <3>4, <3>5, <3>6, Zenon
  <2> QED
    BY <2>1, <2>2
<1>4. DelegationTypes' /\ check'[c] = row /\ \A d \in Checks \ {c} : check'[d] = check[d]
  BY <1>1, <1>2, <1>3, CheckKeepsTypes DEF DelegationInv
<1>5. check[c].step \in {"owner", "run"} /\ allowed[c] = {}
  BY DEF SeeOwner, SeeRun, DelegationInv, NotYet
<1>6. HoldsNow' = HoldsNow /\ HoldsNow \subseteq held[c]
  BY <1>1, <1>5 DEF HoldsNow, WebAllowed, DelegationInv, Witnessed
<1>7. Witnessed' /\ NotYet'
  BY <1>1, <1>4, <1>5, <1>6 DEF DelegationInv, Witnessed, NotYet
<1>8. Read'
  <2>1. /\ row.step \in {"run", "task", "done"} => "owner" \in held[c]
        /\ row.step \in {"task", "done"} =>
             /\ row.web => "web" \in held[c]
             /\ row.kind = "execute" => "going" \in held[c]
    <3>1. row.step = "run" /\ owner => "owner" \in held[c]
      BY <1>6, HoldsMembers, Zenon DEF Members
    <3>2. check[c].step = "run" => "owner" \in held[c]
      BY DEF DelegationInv, Read
    <3>3. WebAllowed => "web" \in held[c]
      BY <1>6, HoldsMembers, Zenon DEF Members
    <3>4. ~gateway.cancel => "going" \in held[c]
      BY <1>6, HoldsMembers, Zenon DEF Members
    <3> QED
      BY <1>3, <3>1, <3>2, <3>3, <3>4
  <2>2. ASSUME NEW d \in Checks
        PROVE  /\ check'[d].step \in {"run", "task", "done"} => "owner" \in held'[d]
               /\ check'[d].step \in {"task", "done"} =>
                    /\ check'[d].web => "web" \in held'[d]
                    /\ check'[d].kind = "execute" => "going" \in held'[d]
    <3>1. CASE d = c
      <4>1. check'[d] = row /\ held'[d] = held[c]
        BY <1>1, <1>4, <3>1
      <4> QED
        BY <2>1, <4>1
    <3>2. CASE d # c
      <4>1. check'[d] = check[d] /\ held'[d] = held[d]
        BY <1>1, <1>4, <3>2
      <4> QED
        BY <4>1 DEF DelegationInv, Read
    <3> QED
      BY <3>1, <3>2
  <2> QED
    BY <2>2 DEF Read
<1>9. NoStaleAuthority'
  BY <1>1, <1>4, <1>5 DEF DelegationInv, NoStaleAuthority, Needs
<1> QED
  BY <1>4, <1>7, <1>8, <1>9 DEF DelegationInv

\* A check sees the task: it makes a token, or allows what it has seen the grounds for.
LEMMA SeeTaskKeeps ==
  ASSUME DelegationInv, NEW c \in Checks, SeeTask(c)
  PROVE  DelegationInv'
<1>1. UNCHANGED <<owner, gateway, task>> /\ check[c].step = "task"
  BY DEF SeeTask
<1>2. /\ tokens \in [Tokens -> TokenRows] /\ allowed \in [Checks -> SUBSET Ops]
      /\ held \in [Checks -> SUBSET Why] /\ check[c] \in CheckRows
  BY DelegationRows DEF DelegationInv
<1>3. /\ HoldsNow' = HoldsNow /\ HoldsNow \subseteq held[c] /\ allowed[c] = {}
      /\ "owner" \in held[c]
      /\ (check[c].web => "web" \in held[c])
      /\ (check[c].kind = "execute" => "going" \in held[c])
  BY <1>1 DEF HoldsNow, WebAllowed, DelegationInv, Witnessed, Read, NotYet
<1>4. Narrowed(c) \in SUBSET Ops
  BY <1>2 DEF Narrowed, CheckRows
<1>5. CASE check[c].kind = "issue"
  <2>1. PICK t \in Tokens :
          /\ tokens' = [tokens EXCEPT ![t] = [live |-> TRUE, sub |-> check[c].sub, ops |-> Narrowed(c)]]
          /\ check' = [check EXCEPT ![c] = AtRest] /\ held' = [held EXCEPT ![c] = {}] /\ allowed' = allowed
    BY <1>5 DEF SeeTask
  <2>2. [live |-> TRUE, sub |-> check[c].sub, ops |-> Narrowed(c)] \in TokenRows
    BY <1>2, <1>4 DEF TokenRows, CheckRows
  <2>3. tokens' \in [Tokens -> TokenRows]
    BY <1>2, <2>1, <2>2
  <2>4. held' \in [Checks -> SUBSET Why] /\ \A d \in Checks \ {c} : held'[d] = held[d]
    BY <1>2, <2>1
  <2>5. DelegationTypes' /\ check'[c] = AtRest /\ \A d \in Checks \ {c} : check'[d] = check[d]
    BY <1>1, <1>2, <2>1, <2>3, <2>4, RestIsCheck, CheckKeepsTypes DEF DelegationInv
  <2>6. Witnessed' /\ NotYet'
    BY <1>3, <2>1, <2>4, <2>5, RestIsCheck DEF DelegationInv, Witnessed, NotYet
  <2>7. Read'
    BY <2>4, <2>5, RestIsCheck DEF DelegationInv, Read
  <2>8. NoStaleAuthority'
    BY <1>3, <2>1, <2>4, <2>5 DEF DelegationInv, NoStaleAuthority, Needs
  <2> QED
    BY <2>5, <2>6, <2>7, <2>8 DEF DelegationInv
<1>6. CASE check[c].kind # "issue"
  <2>1. PICK row : row = [check[c] EXCEPT !.step = "done"]
    OBVIOUS
  <2>2. row \in CheckRows /\ row.step = "done" /\ row.kind = check[c].kind /\ row.sub = check[c].sub /\ row.web = check[c].web
    BY <1>2, <2>1 DEF CheckRows, Stages
  <2>3. /\ allowed' = [allowed EXCEPT ![c] = Narrowed(c)] /\ check' = [check EXCEPT ![c] = row]
        /\ UNCHANGED <<tokens, held>>
    BY <1>6, <2>1 DEF SeeTask
  <2>4. /\ allowed' \in [Checks -> SUBSET Ops] /\ allowed'[c] = Narrowed(c)
        /\ \A d \in Checks \ {c} : allowed'[d] = allowed[d]
    BY <1>2, <1>4, <2>3
  <2>5. DelegationTypes' /\ check'[c] = row /\ \A d \in Checks \ {c} : check'[d] = check[d]
    BY <1>1, <1>2, <2>2, <2>3, <2>4, CheckKeepsTypes DEF DelegationInv
  <2>6. Witnessed' /\ NotYet'
    BY <1>3, <2>2, <2>3, <2>4, <2>5 DEF DelegationInv, Witnessed, NotYet
  <2>7. Read'
    BY <1>3, <2>2, <2>3, <2>5 DEF DelegationInv, Read
  <2>8. \A op \in Narrowed(c) : Needs(c, op) \subseteq held[c]
    <3> SUFFICES ASSUME NEW op \in Narrowed(c) PROVE Needs(c, op) \subseteq held[c]
      OBVIOUS
    <3>1. op \in OfTask(c) /\ (op = "web" => check[c].web)
      BY DEF Narrowed
    <3>2. op = "web" => "web" \in held[c]
      BY <1>3, <3>1
    <3>3. check[c].sub /\ op # "lineage" => "task" \in held[c]
      <4>1. check[c].sub /\ op # "lineage" => task.active
        BY <3>1 DEF OfTask
      <4>2. task.active => "task" \in held[c]
        BY <1>3, HoldsMembers, Zenon DEF Members
      <4> QED
        BY <4>1, <4>2
    <3> QED
      BY <1>3, <3>2, <3>3 DEF Needs
  <2>9. NoStaleAuthority'
    BY <2>2, <2>3, <2>4, <2>5, <2>8 DEF DelegationInv, NoStaleAuthority, Needs
  <2> QED
    BY <2>5, <2>6, <2>7, <2>9 DEF DelegationInv
<1> QED
  BY <1>5, <1>6

\* The invariant always holds.
LEMMA DelegationsInvHolds == DelegationsSpec => []DelegationInv
<1>1. DelegationInv /\ [DelegationsNext]_delegationVars => DelegationInv'
  <2> SUFFICES ASSUME DelegationInv, [DelegationsNext]_delegationVars PROVE DelegationInv'
    OBVIOUS
  <2>1. CASE OwnerRevoked \/ DisableWeb \/ CancelRun
    BY <2>1, RevocationKeeps
  <2>2. CASE SwitchTask
    BY <2>2, SwitchKeeps
  <2>3. CASE \E t \in Tokens : ExpireToken(t)
    BY <2>3, TokenKeeps
  <2>4. ASSUME NEW c \in Checks, SeeOwner(c) \/ SeeRun(c) PROVE DelegationInv'
    BY <2>4, SeeKeeps
  <2>5. ASSUME NEW c \in Checks, SeeTask(c) PROVE DelegationInv'
    BY <2>5, SeeTaskKeeps
  <2>6. ASSUME NEW c \in Checks, EndCheck(c) PROVE DelegationInv'
    BY <2>6, EndKeeps
  <2>7. ASSUME NEW c \in Checks,
               \/ \E t \in Tokens : AskIntrospection(c, t)
               \/ \E sub \in BOOLEAN : AskToken(c, sub) \/ \E op \in Ops : AskExecution(c, sub, op)
        PROVE  DelegationInv'
    BY <2>7, AskedOps, BeginKeeps
  <2>8. CASE UNCHANGED delegationVars
    <3>1. UNCHANGED <<owner, gateway, task, tokens, check, held, allowed>>
      BY <2>8 DEF delegationVars
    <3>2. HoldsNow' = HoldsNow
      BY <3>1 DEF HoldsNow, WebAllowed
    <3>3. DelegationTypes' /\ Witnessed' /\ Read' /\ NotYet'
      BY <3>1, <3>2 DEF DelegationInv, DelegationTypes, Witnessed, Read, NotYet
    <3>4. NoStaleAuthority'
      BY <3>1 DEF DelegationInv, NoStaleAuthority, Needs
    <3> QED
      BY <3>3, <3>4 DEF DelegationInv
  <2> QED
    BY <2>1, <2>2, <2>3, <2>4, <2>5, <2>6, <2>7, <2>8 DEF DelegationsNext
<1> QED
  BY <1>1, DelegationStart, PTL DEF DelegationsSpec

\* However old a token or a queued job is, each condition of what a check allows held
\* at some time since the check began (access.py): NoStaleAuthority holds for any
\* number of checks and tokens.
THEOREM AuthorityIsFresh == DelegationsSpec => []NoStaleAuthority
<1>1. DelegationInv => NoStaleAuthority
  BY DEF DelegationInv
<1> QED
  BY <1>1, DelegationsInvHolds, PTL

-----------------------------------------------------------------------------
(* ConversationTitles *)

JobRows == [mode : {"auto", "suggestion"}, base : Nat, overdue : BOOLEAN,
            status : {"queued", "running", "ready", "failed", "superseded"}]
TitleRows == [revision : Nat, source : {"placeholder", "fallback", "auto", "manual"},
              status : {"idle", "pending", "ready", "failed"}, job : 0..MaxJobs]

\* A drafter at work holds a job of its own that is not queued any more.
DraftsApart ==
  \A d \in Drafters :
    /\ stage[d] = "idle" <=> draft[d] = 0
    /\ draft[d] # 0 => draft[d] \in Jobs /\ jobs[draft[d]].status # "queued"
    /\ draft[d] # 0 => \A e \in Drafters : draft[e] = draft[d] => e = d

\* A model is asked by the one drafter of a job, and the job is not queued again.
CallsCounted ==
  \A j \in 1..MaxJobs :
    /\ asked[j] <= 1
    /\ asked[j] # 0 =>
         /\ j \in Jobs
         /\ jobs[j].status # "queued"
         /\ \A d \in Drafters : draft[d] = j => stage[d] \notin {"claimed", "call"}

\* A title that waits is still the one its job was queued for, and the job goes on.
PendingWaits ==
  title.status = "pending" =>
    /\ title.job \in Jobs /\ Untouched(title.job) /\ jobs[title.job].mode = "auto"
    /\ jobs[title.job].status \in {"queued", "running"}

NothingBefore == ~begun => jobs = <<>>

TitlesInv == TitlesTypes /\ DraftsApart /\ CallsCounted /\ PendingWaits /\ NothingBefore

\* The types, with the rows named.
LEMMA TitleRowTypes ==
  TitlesTypes <=>
    /\ title \in TitleRows
    /\ jobs \in Seq(JobRows)
    /\ Len(jobs) <= MaxJobs
    /\ done \subseteq Commands /\ trusted \in BOOLEAN /\ begun \in BOOLEAN
    /\ stage \in [Drafters -> {"idle", "claimed", "call", "ready", "failed", "superseded"}]
    /\ draft \in [Drafters -> 0..MaxJobs]
    /\ asked \in [1..MaxJobs -> Nat]
BY DEF TitlesTypes, TitleRows, JobRows

\* Jobs are numbered, up to the bound.
LEMMA JobNumbers ==
  ASSUME TitlesTypes
  PROVE  Jobs = 1..Len(jobs) /\ Jobs \subseteq 1..MaxJobs /\ \A j \in Jobs : jobs[j] \in JobRows
<1>1. jobs \in Seq(JobRows) /\ Len(jobs) <= MaxJobs /\ Len(jobs) \in Nat
  BY TitleRowTypes, LenProperties
<1>2. Jobs = 1..Len(jobs) /\ \A j \in 1..Len(jobs) : jobs[j] \in JobRows
  BY <1>1, LenProperties, ElementOfSeq DEF Jobs
<1> QED
  BY <1>1, <1>2, TitlesAssumption

\* A job's row changes: it stays the sequence it was but for that row.
LEMMA JobRowChanges ==
  ASSUME TitlesTypes, NEW j \in Jobs, NEW row \in JobRows, jobs' = [jobs EXCEPT ![j] = row]
  PROVE  /\ jobs' \in Seq(JobRows) /\ Len(jobs') = Len(jobs) /\ Jobs' = Jobs
         /\ jobs'[j] = row /\ \A i \in Jobs \ {j} : jobs'[i] = jobs[i]
<1>1. jobs \in Seq(JobRows) /\ j \in 1..Len(jobs) /\ Jobs = 1..Len(jobs)
  BY TitleRowTypes, JobNumbers
<1>2. jobs' \in Seq(JobRows) /\ Len(jobs') = Len(jobs) /\ \A i \in 1..Len(jobs) : jobs'[i] = IF i = j THEN row ELSE jobs[i]
  BY <1>1, ExceptSeq
<1>3. Jobs' = 1..Len(jobs')
  BY <1>2, LenProperties DEF Jobs
<1> QED
  BY <1>1, <1>2, <1>3

\* A job is added: it is the last.
LEMMA JobAdded ==
  ASSUME TitlesTypes, NEW row \in JobRows, jobs' = Append(jobs, row), Len(jobs) < MaxJobs
  PROVE  /\ jobs' \in Seq(JobRows) /\ Len(jobs') <= MaxJobs /\ Jobs \subseteq Jobs'
         /\ \A i \in Jobs : jobs'[i] = jobs[i]
<1>1. jobs \in Seq(JobRows) /\ Jobs = 1..Len(jobs) /\ Len(jobs) \in Nat
  BY TitleRowTypes, JobNumbers, LenProperties
<1>2. jobs' \in Seq(JobRows) /\ Len(jobs') = Len(jobs) + 1 /\ \A i \in 1..Len(jobs) : jobs'[i] = jobs[i]
  BY <1>1, AppendProperties
<1>3. Jobs' = 1..Len(jobs')
  BY <1>2, LenProperties DEF Jobs
<1> QED
  BY <1>1, <1>2, <1>3, TitlesAssumption

\* Steps that leave the drafters alone and queue no job again.
LEMMA DraftersLeftAlone ==
  ASSUME TitlesInv, UNCHANGED <<stage, draft, asked>>, Jobs \subseteq Jobs',
         \A j \in Jobs : jobs'[j].status = "queued" => jobs[j].status = "queued"
  PROVE  DraftsApart' /\ CallsCounted'
<1>1. DraftsApart'
  BY DEF TitlesInv, DraftsApart
<1>2. CallsCounted'
  BY DEF TitlesInv, CallsCounted
<1> QED
  BY <1>1, <1>2

\* A drafter rests, while no job is queued again.
LEMMA DrafterRests ==
  ASSUME TitlesInv, NEW d \in Drafters, stage' = [stage EXCEPT ![d] = "idle"], draft' = [draft EXCEPT ![d] = 0],
         UNCHANGED asked, Jobs' = Jobs,
         \A j \in Jobs : jobs'[j].status = "queued" => jobs[j].status = "queued"
  PROVE  /\ DraftsApart' /\ CallsCounted'
         /\ stage' \in [Drafters -> {"idle", "claimed", "call", "ready", "failed", "superseded"}]
         /\ draft' \in [Drafters -> 0..MaxJobs]
<1>1. /\ stage \in [Drafters -> {"idle", "claimed", "call", "ready", "failed", "superseded"}]
      /\ draft \in [Drafters -> 0..MaxJobs]
  BY DEF TitlesInv, TitlesTypes
<1>2. /\ stage'[d] = "idle" /\ draft'[d] = 0
      /\ \A e \in Drafters \ {d} : stage'[e] = stage[e] /\ draft'[e] = draft[e]
  BY <1>1
<1>3. DraftsApart'
  BY <1>2 DEF TitlesInv, DraftsApart
<1>4. CallsCounted'
  <2>1. 0 \notin 1..MaxJobs
    BY TitlesAssumption
  <2> QED
    BY <1>2, <2>1 DEF TitlesInv, CallsCounted
<1>5. 0 \in 0..MaxJobs
  BY TitlesAssumption
<1> QED
  BY <1>1, <1>3, <1>4, <1>5

\* The invariant holds at the beginning.
LEMMA TitlesStart == TitlesInit => TitlesInv
<1> SUFFICES ASSUME TitlesInit PROVE TitlesInv
  OBVIOUS
<1> USE TitlesAssumption
<1>1. /\ begun = FALSE /\ jobs = <<>> /\ done = {} /\ trusted = TRUE
      /\ stage = [d \in Drafters |-> "idle"] /\ draft = [d \in Drafters |-> 0]
      /\ asked = [j \in 1..MaxJobs |-> 0]
  BY DEF TitlesInit
<1>2. title \in TitleRows /\ title.status = "idle"
  <2>1. PICK source \in {"placeholder", "manual"} : title = [revision |-> 0, source |-> source, status |-> "idle", job |-> 0]
    BY DEF TitlesInit
  <2> QED
    BY <2>1 DEF TitleRows
<1>3. TitlesTypes
  <2>1. jobs \in Seq(JobRows) /\ Len(jobs) <= MaxJobs
    BY <1>1, EmptySeq
  <2>2. stage \in [Drafters -> {"idle", "claimed", "call", "ready", "failed", "superseded"}]
    BY <1>1
  <2>3. draft \in [Drafters -> 0..MaxJobs] /\ asked \in [1..MaxJobs -> Nat]
    BY <1>1
  <2> QED
    BY <1>1, <1>2, <2>1, <2>2, <2>3, TitleRowTypes
<1>4. DraftsApart /\ CallsCounted
  BY <1>1 DEF DraftsApart, CallsCounted
<1> QED
  BY <1>1, <1>2, <1>3, <1>4 DEF TitlesInv, PendingWaits, NothingBefore

\* The first message names the conversation, and queues a job for its title.
LEMMA QueueFirstKeeps ==
  ASSUME TitlesInv, QueueFirst
  PROVE  TitlesInv'
<1> USE TitlesAssumption
<1>1. /\ begun' = TRUE /\ MaxJobs > 0 /\ jobs = <<>> /\ UNCHANGED <<done, trusted, stage, draft, asked>>
  BY DEF QueueFirst, TitlesInv, NothingBefore
<1>2. title \in TitleRows
  BY TitleRowTypes DEF TitlesInv
<1>3. CASE title.source # "placeholder"
  <2>1. UNCHANGED <<title, jobs>>
    BY <1>3 DEF QueueFirst
  <2>2. TitlesTypes'
    BY <1>1, <2>1 DEF TitlesInv, TitlesTypes
  <2>3. DraftsApart' /\ CallsCounted'
    BY <1>1, <2>1, DraftersLeftAlone DEF Jobs
  <2>4. PendingWaits'
    BY <2>1 DEF TitlesInv, PendingWaits, Untouched, Jobs
  <2> QED
    BY <1>1, <2>2, <2>3, <2>4 DEF TitlesInv, NothingBefore
<1>4. CASE title.source = "placeholder"
  <2>1. /\ title' = [revision |-> title.revision + 1, source |-> "fallback", status |-> "pending", job |-> 1]
        /\ jobs' = <<Job("auto", title.revision + 1)>>
    BY <1>4 DEF QueueFirst
  <2>2. PICK row \in JobRows :
          jobs' = <<row>> /\ row.mode = "auto" /\ row.base = title.revision + 1 /\ row.status = "queued"
    <3>1. title.revision + 1 \in Nat
      BY <1>2 DEF TitleRows
    <3>2. PICK row : row = Job("auto", title.revision + 1)
      OBVIOUS
    <3>3. row \in JobRows /\ row.mode = "auto" /\ row.base = title.revision + 1 /\ row.status = "queued"
      BY <3>1, <3>2 DEF Job, JobRows
    <3> QED
      BY <2>1, <3>2, <3>3
  <2>3. jobs' \in Seq(JobRows) /\ Len(jobs') = 1 /\ jobs'[1] = row /\ Jobs' = {1}
    <3>1. <<row>> = Append(<<>>, row) /\ Len(<<>>) = 0 /\ <<>> \in Seq(JobRows)
      BY EmptySeq
    <3>2. jobs' \in Seq(JobRows) /\ Len(jobs') = 1 /\ jobs'[1] = row
      BY <2>2, <3>1, AppendProperties
    <3>3. Jobs' = 1..Len(jobs')
      BY <3>2, LenProperties DEF Jobs
    <3> QED
      BY <3>2, <3>3
  <2>4. title' \in TitleRows
    BY <1>1, <1>2, <2>1 DEF TitleRows
  <2>5. TitlesTypes'
    BY <1>1, <2>3, <2>4 DEF TitlesInv, TitlesTypes, JobRows, TitleRows
  <2>6. Jobs = {}
    BY <1>1 DEF Jobs
  <2>7. DraftsApart' /\ CallsCounted'
    BY <1>1, <2>6, DraftersLeftAlone
  <2>8. PendingWaits'
    BY <2>1, <2>2, <2>3 DEF PendingWaits, Untouched
  <2> QED
    BY <1>1, <2>5, <2>7, <2>8 DEF TitlesInv, NothingBefore
<1> QED
  BY <1>3, <1>4

\* A user renames the conversation: its title waits for nothing.
LEMMA RenameKeeps ==
  ASSUME TitlesInv, NEW c \in Commands, Rename(c)
  PROVE  TitlesInv'
<1>1. /\ title' = [title EXCEPT !.revision = @ + 1, !.source = "manual", !.status = "idle"]
      /\ done' = done \cup {c} /\ UNCHANGED <<begun, jobs, trusted, stage, draft, asked>>
  BY DEF Rename
<1>2. title \in TitleRows
  BY TitleRowTypes DEF TitlesInv
<1>3. title' = [revision |-> title.revision + 1, source |-> "manual", status |-> "idle", job |-> title.job]
  BY <1>1, <1>2 DEF TitleRows
<1>4. title' \in TitleRows /\ title'.status = "idle"
  BY <1>2, <1>3 DEF TitleRows
<1>5. TitlesTypes'
  BY <1>1, <1>4 DEF TitlesInv, TitlesTypes, TitleRows
<1>6. DraftsApart' /\ CallsCounted'
  BY <1>1, DraftersLeftAlone DEF Jobs
<1> QED
  BY <1>1, <1>4, <1>5, <1>6 DEF TitlesInv, PendingWaits, NothingBefore

\* A user asks for a proposal.
LEMMA SuggestKeeps ==
  ASSUME TitlesInv, NEW c \in Commands, Suggest(c)
  PROVE  TitlesInv'
<1>1. /\ begun /\ Len(jobs) < MaxJobs /\ done' = done \cup {c} /\ UNCHANGED <<begun, title, trusted, stage, draft, asked>>
      /\ jobs' = Append(jobs, Job("suggestion", title.revision))
  BY DEF Suggest
<1>2. Job("suggestion", title.revision) \in JobRows
  BY TitleRowTypes DEF TitlesInv, TitleRows, Job, JobRows
<1>3. /\ jobs' \in Seq(JobRows) /\ Len(jobs') <= MaxJobs /\ Jobs \subseteq Jobs'
      /\ \A i \in Jobs : jobs'[i] = jobs[i]
  BY <1>1, <1>2, JobAdded DEF TitlesInv
<1>4. TitlesTypes'
  BY <1>1, <1>3 DEF TitlesInv, TitlesTypes, JobRows
<1>5. DraftsApart' /\ CallsCounted'
  BY <1>1, <1>3, DraftersLeftAlone
<1>6. PendingWaits'
  BY <1>1, <1>3 DEF TitlesInv, PendingWaits, Untouched
<1> QED
  BY <1>1, <1>4, <1>5, <1>6 DEF TitlesInv, NothingBefore

\* An authorization that ends, and an attempt that runs out of time.
LEMMA TitleTimeKeeps ==
  ASSUME TitlesInv, RevokeOwner \/ \E j \in Jobs : Overdue(j)
  PROVE  TitlesInv'
<1>1. CASE RevokeOwner
  <2>1. trusted' = FALSE /\ UNCHANGED <<begun, title, jobs, done, stage, draft, asked>>
    BY <1>1 DEF RevokeOwner
  <2>2. TitlesTypes'
    BY <2>1 DEF TitlesInv, TitlesTypes
  <2>3. DraftsApart' /\ CallsCounted'
    BY <2>1, DraftersLeftAlone DEF Jobs
  <2> QED
    BY <2>1, <2>2, <2>3 DEF TitlesInv, PendingWaits, Untouched, Jobs, NothingBefore
<1>2. ASSUME NEW j \in Jobs, Overdue(j) PROVE TitlesInv'
  <2>1. UNCHANGED <<begun, title, done, trusted, stage, draft, asked>>
    BY <1>2 DEF Overdue
  <2>2. jobs[j] \in JobRows
    BY JobNumbers DEF TitlesInv
  <2>3. PICK row : row = [jobs[j] EXCEPT !.overdue = TRUE]
    OBVIOUS
  <2>4. row \in JobRows /\ row.mode = jobs[j].mode /\ row.base = jobs[j].base /\ row.status = jobs[j].status
    BY <2>2, <2>3 DEF JobRows
  <2>5. jobs' = [jobs EXCEPT ![j] = row]
    BY <1>2, <2>3 DEF Overdue
  <2>6. /\ jobs' \in Seq(JobRows) /\ Len(jobs') = Len(jobs) /\ Jobs' = Jobs
        /\ jobs'[j] = row /\ \A i \in Jobs \ {j} : jobs'[i] = jobs[i]
    BY <2>4, <2>5, JobRowChanges DEF TitlesInv
  <2>7. \A i \in Jobs : jobs'[i].mode = jobs[i].mode /\ jobs'[i].base = jobs[i].base /\ jobs'[i].status = jobs[i].status
    BY <2>4, <2>6
  <2>8. TitlesTypes'
    BY <2>1, <2>6 DEF TitlesInv, TitlesTypes, JobRows
  <2>9. DraftsApart' /\ CallsCounted'
    BY <2>1, <2>6, <2>7, DraftersLeftAlone
  <2>10. PendingWaits'
    BY <2>1, <2>6, <2>7 DEF TitlesInv, PendingWaits, Untouched
  <2>11. NothingBefore'
    <3>1. jobs # <<>>
      BY EmptySeq, JobNumbers DEF TitlesInv, Jobs
    <3> QED
      BY <2>1, <3>1 DEF TitlesInv, NothingBefore
  <2> QED
    BY <2>8, <2>9, <2>10, <2>11 DEF TitlesInv
<1> QED
  BY <1>1, <1>2

\* A running job ends: what it means for the rows and for the title.
LEMMA SettleTells ==
  ASSUME TitlesInv, NEW j \in Jobs, NEW s \in {"ready", "failed", "superseded"},
         jobs[j].status = "running", Settle(j, s), UNCHANGED begun
  PROVE  /\ title' \in TitleRows /\ jobs' \in Seq(JobRows) /\ Len(jobs') = Len(jobs) /\ Jobs' = Jobs
         /\ \A i \in Jobs : jobs'[i].status = "queued" => jobs[i].status = "queued"
         /\ PendingWaits' /\ NothingBefore'
<1>1. jobs[j] \in JobRows /\ title \in TitleRows
  BY JobNumbers, TitleRowTypes DEF TitlesInv
<1>2. PICK row : row = [jobs[j] EXCEPT !.status = s]
  OBVIOUS
<1>3. row \in JobRows /\ row.mode = jobs[j].mode /\ row.base = jobs[j].base /\ row.status = s
  BY <1>1, <1>2 DEF JobRows
<1>4. jobs' = [jobs EXCEPT ![j] = row]
  BY <1>2 DEF Settle
<1>5. /\ jobs' \in Seq(JobRows) /\ Len(jobs') = Len(jobs) /\ Jobs' = Jobs
      /\ jobs'[j] = row /\ \A i \in Jobs \ {j} : jobs'[i] = jobs[i]
  BY <1>3, <1>4, JobRowChanges DEF TitlesInv
<1>6. \A i \in Jobs : jobs'[i].status = "queued" => jobs[i].status = "queued"
  BY <1>3, <1>5
<1>7. NothingBefore'
  <2>1. jobs # <<>>
    BY EmptySeq, JobNumbers DEF TitlesInv, Jobs
  <2> QED
    BY <2>1 DEF TitlesInv, NothingBefore
<1>8. title' \in TitleRows /\ PendingWaits'
  <2>1. CASE jobs[j].mode # "auto" \/ ~Untouched(j)
    <3>1. title' = title
      BY <2>1 DEF Settle
    <3>2. title.status = "pending" => title.job # j
      BY <2>1 DEF TitlesInv, PendingWaits
    <3> QED
      BY <1>1, <1>5, <3>1, <3>2 DEF TitlesInv, PendingWaits, Untouched
  <2>2. CASE jobs[j].mode = "auto" /\ Untouched(j) /\ s = "ready"
    <3>1. title' = [title EXCEPT !.revision = @ + 1, !.source = "auto", !.status = "ready"]
      BY <2>2 DEF Settle
    <3>2. title' = [revision |-> title.revision + 1, source |-> "auto", status |-> "ready", job |-> title.job]
      BY <1>1, <3>1 DEF TitleRows
    <3>3. title' \in TitleRows /\ title'.status = "ready"
      BY <1>1, <3>2 DEF TitleRows
    <3> QED
      BY <3>3 DEF PendingWaits
  <2>3. CASE jobs[j].mode = "auto" /\ Untouched(j) /\ s # "ready"
    <3>1. title' = [title EXCEPT !.revision = @ + 1, !.status = "failed"]
      BY <2>3 DEF Settle
    <3>2. title' = [revision |-> title.revision + 1, source |-> title.source, status |-> "failed", job |-> title.job]
      BY <1>1, <3>1 DEF TitleRows
    <3>3. title' \in TitleRows /\ title'.status = "failed"
      BY <1>1, <3>2 DEF TitleRows
    <3> QED
      BY <3>3 DEF PendingWaits
  <2> QED
    BY <2>1, <2>2, <2>3
<1> QED
  BY <1>5, <1>6, <1>7, <1>8

\* A tick ends a job that is overdue.
LEMMA ReapKeeps ==
  ASSUME TitlesInv, NEW d \in Drafters, NEW j \in Jobs, ReapJob(d, j)
  PROVE  TitlesInv'
<1>1. /\ jobs[j].status = "running" /\ Settle(j, "failed")
      /\ UNCHANGED <<begun, done, trusted, stage, draft, asked>>
  BY DEF ReapJob
<1>2. /\ title' \in TitleRows /\ jobs' \in Seq(JobRows) /\ Len(jobs') = Len(jobs) /\ Jobs' = Jobs
      /\ \A i \in Jobs : jobs'[i].status = "queued" => jobs[i].status = "queued"
      /\ PendingWaits' /\ NothingBefore'
  BY <1>1, SettleTells
<1>3. TitlesTypes'
  BY <1>1, <1>2 DEF TitlesInv, TitlesTypes, JobRows, TitleRows
<1>4. DraftsApart' /\ CallsCounted'
  BY <1>1, <1>2, DraftersLeftAlone
<1> QED
  BY <1>2, <1>3, <1>4 DEF TitlesInv

\* A drafter ends its job, or dies.
LEMMA DrafterEndKeeps ==
  ASSUME TitlesInv, NEW d \in Drafters, FinishJob(d) \/ DrafterDies(d)
  PROVE  TitlesInv'
<1>1. /\ stage' = [stage EXCEPT ![d] = "idle"] /\ draft' = [draft EXCEPT ![d] = 0]
      /\ UNCHANGED <<begun, done, trusted, asked>>
  BY DEF FinishJob, DrafterDies
<1>2. /\ title' \in TitleRows /\ jobs' \in Seq(JobRows) /\ Len(jobs') = Len(jobs) /\ Jobs' = Jobs
      /\ \A i \in Jobs : jobs'[i].status = "queued" => jobs[i].status = "queued"
      /\ PendingWaits' /\ NothingBefore'
  <2>1. CASE UNCHANGED <<jobs, title>>
    BY <1>1, <2>1, TitleRowTypes DEF TitlesInv, PendingWaits, Untouched, NothingBefore, Jobs
  <2>2. CASE FinishJob(d) /\ jobs[draft[d]].status = "running"
    <3>1. stage[d] \in {"ready", "failed", "superseded"} /\ Settle(draft[d], stage[d])
      BY <2>2 DEF FinishJob
    <3>2. draft[d] \in Jobs
      BY <3>1 DEF TitlesInv, DraftsApart
    <3> QED
      BY <1>1, <2>2, <3>1, <3>2, SettleTells
  <2> QED
    BY <2>1, <2>2 DEF FinishJob, DrafterDies
<1>3. /\ DraftsApart' /\ CallsCounted'
      /\ stage' \in [Drafters -> {"idle", "claimed", "call", "ready", "failed", "superseded"}]
      /\ draft' \in [Drafters -> 0..MaxJobs]
  BY <1>1, <1>2, DrafterRests
<1>4. TitlesTypes'
  BY <1>1, <1>2, <1>3 DEF TitlesInv, TitlesTypes, JobRows, TitleRows
<1> QED
  BY <1>2, <1>3, <1>4 DEF TitlesInv

\* A drafter takes up a queued job: nobody else has it.
LEMMA ClaimTitleKeeps ==
  ASSUME TitlesInv, NEW d \in Drafters, NEW j \in Jobs, ClaimJob(d, j)
  PROVE  TitlesInv'
<1>1. /\ stage[d] = "idle" /\ jobs[j].status = "queued"
      /\ stage' = [stage EXCEPT ![d] = "claimed"] /\ draft' = [draft EXCEPT ![d] = j]
      /\ UNCHANGED <<begun, title, done, trusted, asked>>
  BY DEF ClaimJob, Claimable
<1>2. jobs[j] \in JobRows /\ j \in 1..MaxJobs
  BY JobNumbers DEF TitlesInv
<1>3. PICK row : row = [jobs[j] EXCEPT !.status = "running"]
  OBVIOUS
<1>4. row \in JobRows /\ row.mode = jobs[j].mode /\ row.base = jobs[j].base /\ row.status = "running"
  BY <1>2, <1>3 DEF JobRows
<1>5. jobs' = [jobs EXCEPT ![j] = row]
  BY <1>3 DEF ClaimJob
<1>6. /\ jobs' \in Seq(JobRows) /\ Len(jobs') = Len(jobs) /\ Jobs' = Jobs
      /\ jobs'[j] = row /\ \A i \in Jobs \ {j} : jobs'[i] = jobs[i]
  BY <1>4, <1>5, JobRowChanges DEF TitlesInv
<1>7. /\ stage \in [Drafters -> {"idle", "claimed", "call", "ready", "failed", "superseded"}]
      /\ draft \in [Drafters -> 0..MaxJobs]
  BY DEF TitlesInv, TitlesTypes
<1>8. /\ stage'[d] = "claimed" /\ draft'[d] = j
      /\ \A e \in Drafters \ {d} : stage'[e] = stage[e] /\ draft'[e] = draft[e]
      /\ stage' \in [Drafters -> {"idle", "claimed", "call", "ready", "failed", "superseded"}]
      /\ draft' \in [Drafters -> 0..MaxJobs]
  BY <1>1, <1>2, <1>7
<1>9. TitlesTypes'
  BY <1>1, <1>6, <1>8 DEF TitlesInv, TitlesTypes, JobRows
<1>10. \A e \in Drafters : draft[e] # j
  <2>1. j # 0
    BY <1>2, TitlesAssumption
  <2> QED
    BY <1>1, <2>1 DEF TitlesInv, DraftsApart
<1>11. DraftsApart'
  <2>1. j # 0
    BY <1>2, TitlesAssumption
  <2> QED
    BY <1>4, <1>6, <1>8, <1>10, <2>1 DEF TitlesInv, DraftsApart
<1>12. CallsCounted'
  <2>1. asked[j] = 0
    BY <1>1, <1>2 DEF TitlesInv, CallsCounted
  <2>2. ASSUME NEW i \in 1..MaxJobs, asked'[i] # 0
        PROVE  i \in Jobs' /\ jobs'[i].status # "queued" /\ \A e \in Drafters : draft'[e] = i => stage'[e] \notin {"claimed", "call"}
    <3>1. i # j /\ asked[i] # 0
      BY <1>1, <2>1, <2>2
    <3>2. i \in Jobs /\ jobs[i].status # "queued" /\ \A e \in Drafters : draft[e] = i => stage[e] \notin {"claimed", "call"}
      BY <3>1 DEF TitlesInv, CallsCounted
    <3> QED
      BY <1>6, <1>8, <3>1, <3>2
  <2> QED
    BY <1>1, <2>2 DEF TitlesInv, CallsCounted
<1>13. PendingWaits'
  BY <1>1, <1>4, <1>6 DEF TitlesInv, PendingWaits, Untouched
<1>14. NothingBefore'
  <2>1. jobs # <<>>
    BY EmptySeq, JobNumbers DEF TitlesInv, Jobs
  <2> QED
    BY <1>1, <2>1 DEF TitlesInv, NothingBefore
<1> QED
  BY <1>9, <1>11, <1>12, <1>13, <1>14 DEF TitlesInv

\* A drafter checks its job, or asks the model; this it has not done before.
LEMMA DraftingKeeps ==
  ASSUME TitlesInv, NEW d \in Drafters, CheckJob(d) \/ AskModel(d)
  PROVE  TitlesInv'
<1>1. stage[d] \in {"claimed", "call"} /\ UNCHANGED <<begun, title, jobs, done, trusted, draft>>
  BY DEF CheckJob, AskModel
<1>2. /\ stage \in [Drafters -> {"idle", "claimed", "call", "ready", "failed", "superseded"}]
      /\ draft \in [Drafters -> 0..MaxJobs] /\ asked \in [1..MaxJobs -> Nat]
  BY DEF TitlesInv, TitlesTypes
<1>3. draft[d] # 0 /\ draft[d] \in Jobs /\ draft[d] \in 1..MaxJobs /\ jobs[draft[d]].status # "queued"
  BY <1>1, JobNumbers DEF TitlesInv, DraftsApart
<1>4. asked[draft[d]] = 0
  BY <1>1, <1>3 DEF TitlesInv, CallsCounted
<1>5. PICK s \in {"call", "ready", "failed", "superseded"} : stage' = [stage EXCEPT ![d] = s]
  BY DEF CheckJob, AskModel
<1>6. /\ stage' \in [Drafters -> {"idle", "claimed", "call", "ready", "failed", "superseded"}]
      /\ stage'[d] = s /\ \A e \in Drafters \ {d} : stage'[e] = stage[e]
  BY <1>2, <1>5
<1>7. /\ asked' \in [1..MaxJobs -> Nat] /\ \A j \in 1..MaxJobs : j # draft[d] => asked'[j] = asked[j]
      /\ asked'[draft[d]] = 0 \/ (asked'[draft[d]] = 1 /\ s # "call")
  <2>1. CASE CheckJob(d)
    BY <1>2, <1>4, <2>1 DEF CheckJob
  <2>2. CASE AskModel(d)
    <3>1. asked' = [asked EXCEPT ![draft[d]] = @ + 1] /\ stage'[d] \in {"failed", "ready"}
      BY <1>2, <2>2 DEF AskModel
    <3>2. asked'[draft[d]] = 1 /\ asked' \in [1..MaxJobs -> Nat] /\ \A j \in 1..MaxJobs : j # draft[d] => asked'[j] = asked[j]
      BY <1>2, <1>3, <1>4, <3>1
    <3> QED
      BY <1>6, <3>1, <3>2
  <2> QED
    BY <2>1, <2>2
<1>8. TitlesTypes'
  BY <1>1, <1>6, <1>7 DEF TitlesInv, TitlesTypes
<1>9. DraftsApart'
  BY <1>1, <1>3, <1>5, <1>6 DEF TitlesInv, DraftsApart, Jobs
<1>10. CallsCounted'
  <2>1. ASSUME NEW j \in 1..MaxJobs
        PROVE  /\ asked'[j] <= 1
               /\ asked'[j] # 0 =>
                    /\ j \in Jobs' /\ jobs'[j].status # "queued"
                    /\ \A e \in Drafters : draft'[e] = j => stage'[e] \notin {"claimed", "call"}
    <3>1. CASE j = draft[d]
      <4>1. \A e \in Drafters : draft'[e] = j => e = d
        BY <1>1, <1>3, <3>1 DEF TitlesInv, DraftsApart
      <4> QED
        BY <1>1, <1>3, <1>5, <1>6, <1>7, <3>1, <4>1 DEF Jobs
    <3>2. CASE j # draft[d]
      <4>1. asked'[j] = asked[j] /\ asked[j] <= 1
        BY <1>7, <3>2 DEF TitlesInv, CallsCounted
      <4>2. asked[j] # 0 => /\ j \in Jobs /\ jobs[j].status # "queued"
                            /\ \A e \in Drafters : draft[e] = j => stage[e] \notin {"claimed", "call"}
        BY DEF TitlesInv, CallsCounted
      <4> QED
        BY <1>1, <1>6, <3>2, <4>1, <4>2 DEF Jobs
    <3> QED
      BY <3>1, <3>2
  <2> QED
    BY <2>1 DEF CallsCounted
<1>11. PendingWaits' /\ NothingBefore'
  BY <1>1 DEF TitlesInv, PendingWaits, Untouched, Jobs, NothingBefore
<1> QED
  BY <1>8, <1>9, <1>10, <1>11 DEF TitlesInv

\* The invariant is kept, however drafters, users and time interleave.
LEMMA TitlesInductive == TitlesInv /\ [TitlesNext]_titlesVars => TitlesInv'
<1> SUFFICES ASSUME TitlesInv, [TitlesNext]_titlesVars PROVE TitlesInv'
  OBVIOUS
<1>1. CASE QueueFirst
  BY <1>1, QueueFirstKeeps
<1>2. CASE RevokeOwner \/ \E j \in Jobs : Overdue(j)
  BY <1>2, TitleTimeKeeps
<1>3. ASSUME NEW c \in Commands, Rename(c) \/ Suggest(c) PROVE TitlesInv'
  BY <1>3, RenameKeeps, SuggestKeeps
<1>4. ASSUME NEW d \in Drafters, CheckJob(d) \/ AskModel(d) PROVE TitlesInv'
  BY <1>4, DraftingKeeps
<1>5. ASSUME NEW d \in Drafters, FinishJob(d) \/ DrafterDies(d) PROVE TitlesInv'
  BY <1>5, DrafterEndKeeps
<1>6. ASSUME NEW d \in Drafters, NEW j \in Jobs, ClaimJob(d, j) \/ ReapJob(d, j) PROVE TitlesInv'
  BY <1>6, ClaimTitleKeeps, ReapKeeps
<1>7. CASE UNCHANGED titlesVars
  <2>1. UNCHANGED <<begun, title, jobs, done, trusted, stage, draft, asked>>
    BY <1>7 DEF titlesVars
  <2>2. TitlesTypes'
    BY <2>1 DEF TitlesInv, TitlesTypes
  <2>3. DraftsApart' /\ CallsCounted'
    BY <2>1, DraftersLeftAlone DEF Jobs
  <2> QED
    BY <2>1, <2>2, <2>3 DEF TitlesInv, PendingWaits, Untouched, Jobs, NothingBefore
<1> QED
  BY <1>1, <1>2, <1>3, <1>4, <1>5, <1>6, <1>7 DEF TitlesNext

\* A model is asked at most once for a job, and a title never waits for a job that has
\* ended (titles.py), for any number of drafters and jobs.
THEOREM TitlesSettle == TitlesSpec => []TitleJobsSettle
<1>1. TitlesInv => TitleJobsSettle
  <2> SUFFICES ASSUME TitlesInv PROVE TitleJobsSettle
    OBVIOUS
  <2>1. \A j \in Jobs : asked[j] <= 1
    BY JobNumbers DEF TitlesInv, CallsCounted
  <2> QED
    BY <2>1 DEF TitlesInv, PendingWaits, TitleJobsSettle
<1> QED
  BY <1>1, TitlesStart, TitlesInductive, PTL DEF TitlesSpec

\* A title the user has chosen is replaced by nothing but another of the user's: every
\* other step leaves the source `manual` alone (titles.py).
THEOREM ChosenStands == TitlesSpec => ChosenTitleStands
<1>1. TitlesInv /\ [TitlesNext]_titlesVars
        => [title.source = "manual" /\ title' # title => title'.source = "manual" /\ done' # done]_titlesVars
  <2> SUFFICES ASSUME TitlesInv, TitlesNext, title.source = "manual", title' # title
              PROVE  title'.source = "manual" /\ done' # done
    OBVIOUS
  <2>1. title \in TitleRows
    BY TitleRowTypes DEF TitlesInv
  <2>2. ASSUME NEW j, NEW s, Settle(j, s) PROVE title' = title
    BY <2>2 DEF Settle, Untouched
  <2>3. PICK c \in Commands : Rename(c)
    BY <2>2 DEF TitlesNext, QueueFirst, RevokeOwner, Suggest, CheckJob, AskModel, FinishJob, DrafterDies,
                ClaimJob, ReapJob, Overdue
  <2>4. title' = [title EXCEPT !.revision = @ + 1, !.source = "manual", !.status = "idle"]
        /\ done' = done \cup {c} /\ c \notin done
    BY <2>3 DEF Rename
  <2>5. title' = [revision |-> title.revision + 1, source |-> "manual", status |-> "idle", job |-> title.job]
    BY <2>1, <2>4 DEF TitleRows
  <2> QED
    BY <2>4, <2>5
<1> QED
  BY <1>1, TitlesStart, TitlesInductive, PTL DEF TitlesSpec, ChosenTitleStands

-----------------------------------------------------------------------------
(* ConversationIntake *)

Announced == DOMAIN Rank \ {"dispatching"}

\* The last of some statuses is one of the quiet ones if any of them is.
LEMMA LastStatus ==
  ASSUME NEW T, T \subseteq Announced, T # {}
  PROVE  (CHOOSE s \in T : \A t \in T : Rank[t] <= Rank[s]) \in {"waiting_input", "ended"}
           <=> ("waiting_input" \in T \/ "ended" \in T)
<1>1. /\ Announced = {"active", "waiting_input", "ended"}
      /\ Rank["active"] = 1 /\ Rank["waiting_input"] = 2 /\ Rank["ended"] = 3
  BY DEF Announced, Rank
<1> DEFINE Last(s) == \A t \in T : Rank[t] <= Rank[s]
<1>2. \E s \in T : Last(s)
  <2>1. CASE "ended" \in T
    BY <1>1, <2>1
  <2>2. CASE "ended" \notin T /\ "waiting_input" \in T
    BY <1>1, <2>2
  <2>3. CASE T = {"active"}
    BY <1>1, <2>3
  <2> QED
    BY <1>1, <2>1, <2>2, <2>3
<1>3. PICK w : w = CHOOSE s \in T : Last(s)
  OBVIOUS
<1>4. w \in T /\ Last(w)
  <2> HIDE DEF Last
  <2> QED
    BY <1>2, <1>3
<1>5. w \in {"waiting_input", "ended"} <=> ("waiting_input" \in T \/ "ended" \in T)
  BY <1>1, <1>4
<1> QED
  BY <1>3, <1>5

\* What the agent has announced of a run says whether it is quiet, before and after a step.
LEMMA QuietTells ==
  ASSUME NEW k
  PROVE  /\ told[k] \subseteq Announced => (Quiet(k) <=> ("waiting_input" \in told[k] \/ "ended" \in told[k]))
         /\ told'[k] \subseteq Announced => (Quiet(k)' <=> ("waiting_input" \in told'[k] \/ "ended" \in told'[k]))
<1>1. told[k] \subseteq Announced => (Quiet(k) <=> ("waiting_input" \in told[k] \/ "ended" \in told[k]))
  BY LastStatus DEF Quiet, AgentStatus
<1>2. told'[k] \subseteq Announced => (Quiet(k)' <=> ("waiting_input" \in told'[k] \/ "ended" \in told'[k]))
  BY LastStatus DEF Quiet, AgentStatus
<1> QED
  BY <1>1, <1>2

\* A run that was accepted has a form, and its status was announced or is the first.
ShownWasTold == \A k \in Runs : shown[k] = "dispatching" \/ shown[k] \in told[k]

\* What a submission has had confirmed is quiet.
ConfirmedQuiet == \A s \in Submitters : \A k \in confirmed[s] : Quiet(k)

FormsFilled == \A s \in Submitters : step[s] # "idle" => form[s] \in Forms

\* An answer names the run with its form, and a key has one run.
AnswersNameRuns ==
  /\ \A s \in Submitters : step[s] = "answered" => given[s] \in Runs /\ runs[given[s]] = form[s]
  /\ \A j, k \in Runs : runs[j].request = runs[k].request => j = k

IntakeInv ==
  IntakeTypes /\ ShownWasTold /\ ConfirmedQuiet /\ FormsFilled /\ OneActiveRun /\ AnswersNameRuns

\* The types, with the statuses named.
LEMMA IntakeRows ==
  IntakeTypes <=>
    /\ runs \in Seq(Forms) /\ Len(runs) <= MaxRuns
    /\ shown \in [Runs -> DOMAIN Rank]
    /\ told \in [Runs -> SUBSET Announced]
    /\ step \in [Submitters -> {"idle", "prior", "survey", "ask", "answered"}]
    /\ form \in [Submitters -> Forms \cup {Blank}]
    /\ todo \in [Submitters -> SUBSET Runs]
    /\ confirmed \in [Submitters -> SUBSET Runs]
    /\ given \in [Submitters -> {0} \cup Runs]
BY DEF IntakeTypes, Announced

\* The invariant holds at the beginning.
LEMMA IntakeStart == IntakeInit => IntakeInv
<1> SUFFICES ASSUME IntakeInit PROVE IntakeInv
  OBVIOUS
<1>1. runs = <<>> /\ shown = <<>> /\ told = <<>> /\ Runs = {}
  BY DEF IntakeInit, Runs
<1>2. /\ step = [s \in Submitters |-> "idle"] /\ form = [s \in Submitters |-> Blank]
      /\ todo = [s \in Submitters |-> {}] /\ confirmed = [s \in Submitters |-> {}]
      /\ given = [s \in Submitters |-> 0]
  BY DEF IntakeInit
<1>3. IntakeTypes
  <2>1. runs \in Seq(Forms) /\ Len(runs) <= MaxRuns
    BY <1>1, EmptySeq, IntakeAssumption
  <2>2. shown \in [Runs -> DOMAIN Rank] /\ told \in [Runs -> SUBSET Announced]
    BY <1>1
  <2>3. step \in [Submitters -> {"idle", "prior", "survey", "ask", "answered"}]
    BY <1>2
  <2>4. /\ form \in [Submitters -> Forms \cup {Blank}] /\ todo \in [Submitters -> SUBSET Runs]
        /\ confirmed \in [Submitters -> SUBSET Runs] /\ given \in [Submitters -> {0} \cup Runs]
    BY <1>2
  <2> QED
    BY <2>1, <2>2, <2>3, <2>4, IntakeRows
<1> QED
  BY <1>1, <1>2, <1>3 DEF IntakeInv, ShownWasTold, ConfirmedQuiet, FormsFilled, OneActiveRun, AnswersNameRuns

\* Steps of a submission that leave the rows alone, and answer nothing.
LEMMA SubmissionKeeps ==
  ASSUME IntakeInv, UNCHANGED <<runs, shown, told>>,
         step' \in [Submitters -> {"idle", "prior", "survey", "ask", "answered"}],
         form' \in [Submitters -> Forms \cup {Blank}], todo' \in [Submitters -> SUBSET Runs],
         confirmed' \in [Submitters -> SUBSET Runs], given' \in [Submitters -> {0} \cup Runs],
         \A s \in Submitters : step'[s] # "idle" => form'[s] \in Forms,
         \A s \in Submitters : \A k \in confirmed'[s] : Quiet(k),
         \A s \in Submitters : step'[s] = "answered" => given'[s] \in Runs /\ runs[given'[s]] = form'[s]
  PROVE  IntakeInv'
<1>1. Runs' = Runs /\ \A k \in Runs : Quiet(k)' = Quiet(k)
  BY DEF Runs, Quiet, AgentStatus
<1>2. IntakeTypes'
  BY <1>1 DEF IntakeInv, IntakeTypes
<1>3. ShownWasTold' /\ FormsFilled'
  BY <1>1 DEF IntakeInv, ShownWasTold, FormsFilled
<1>4. ConfirmedQuiet'
  BY <1>1 DEF ConfirmedQuiet
<1>5. OneActiveRun'
  BY <1>1 DEF IntakeInv, OneActiveRun
<1>6. AnswersNameRuns'
  BY <1>1 DEF IntakeInv, AnswersNameRuns
<1> QED
  BY <1>2, <1>3, <1>4, <1>5, <1>6 DEF IntakeInv

\* What is known of the submissions.
Submissions ==
  /\ step \in [Submitters -> {"idle", "prior", "survey", "ask", "answered"}]
  /\ form \in [Submitters -> Forms \cup {Blank}]
  /\ todo \in [Submitters -> SUBSET Runs]
  /\ confirmed \in [Submitters -> SUBSET Runs]
  /\ given \in [Submitters -> {0} \cup Runs]
  /\ \A s \in Submitters : step[s] # "idle" => form[s] \in Forms
  /\ \A s \in Submitters : \A k \in confirmed[s] : Quiet(k)
  /\ \A s \in Submitters : step[s] = "answered" => given[s] \in Runs /\ runs[given[s]] = form[s]

\* The invariant says of each submission by itself what Submissions says.
LEMMA SubmissionsKnown == IntakeInv => Submissions
BY IntakeRows DEF IntakeInv, Submissions, ConfirmedQuiet, FormsFilled, AnswersNameRuns

\* An answer that names a run with the very form.
LEMMA AnswerKeeps ==
  ASSUME IntakeInv, NEW s \in Submitters, NEW f \in Forms, NEW k \in Runs, runs[k] = f,
         Answer(s, f, k), UNCHANGED rowVars
  PROVE  IntakeInv'
<1>1. /\ step' = [step EXCEPT ![s] = "answered"] /\ form' = [form EXCEPT ![s] = f]
      /\ given' = [given EXCEPT ![s] = k] /\ UNCHANGED <<todo, confirmed, runs, shown, told>>
  BY DEF Answer, rowVars
<1>2. Submissions
  BY SubmissionsKnown
<1>3. /\ step' \in [Submitters -> {"idle", "prior", "survey", "ask", "answered"}]
      /\ form' \in [Submitters -> Forms \cup {Blank}] /\ given' \in [Submitters -> {0} \cup Runs]
      /\ step'[s] = "answered" /\ form'[s] = f /\ given'[s] = k
      /\ \A t \in Submitters \ {s} : step'[t] = step[t] /\ form'[t] = form[t] /\ given'[t] = given[t]
  BY <1>1, <1>2 DEF Submissions
<1>4. \A t \in Submitters : step'[t] # "idle" => form'[t] \in Forms
  BY <1>2, <1>3 DEF Submissions
<1>5. \A t \in Submitters : step'[t] = "answered" => given'[t] \in Runs /\ runs[given'[t]] = form'[t]
  BY <1>2, <1>3 DEF Submissions
<1>6. /\ todo' \in [Submitters -> SUBSET Runs] /\ confirmed' \in [Submitters -> SUBSET Runs]
      /\ \A t \in Submitters : \A i \in confirmed'[t] : Quiet(i)
  BY <1>1, <1>2 DEF Submissions
<1> QED
  BY <1>1, <1>3, <1>4, <1>5, <1>6, SubmissionKeeps

\* A submission begins.
LEMMA BeginIntakeKeeps ==
  ASSUME IntakeInv, NEW s \in Submitters, NEW f \in Forms, Begin(s, f)
  PROVE  IntakeInv'
<1>1. CASE \E k \in Same(f) : Matches(k, f) /\ Answer(s, f, k) /\ UNCHANGED rowVars
  BY <1>1, AnswerKeeps DEF Same, Matches
<1>2. ASSUME NEW p \in {"survey", "prior"}, step' = [step EXCEPT ![s] = p], form' = [form EXCEPT ![s] = f],
             UNCHANGED <<rowVars, todo, confirmed, given>>
      PROVE  IntakeInv'
  <2>1. Submissions /\ UNCHANGED <<runs, shown, told, todo, confirmed, given>>
    BY <1>2, SubmissionsKnown DEF rowVars
  <2>2. /\ step' \in [Submitters -> {"idle", "prior", "survey", "ask", "answered"}]
        /\ form' \in [Submitters -> Forms \cup {Blank}]
        /\ step'[s] = p /\ form'[s] = f
        /\ \A t \in Submitters \ {s} : step'[t] = step[t] /\ form'[t] = form[t]
    BY <1>2, <2>1 DEF Submissions
  <2>3. /\ \A t \in Submitters : step'[t] # "idle" => form'[t] \in Forms
        /\ \A t \in Submitters : step'[t] = "answered" => given'[t] \in Runs /\ runs[given'[t]] = form'[t]
    BY <2>1, <2>2 DEF Submissions
  <2>4. /\ todo' \in [Submitters -> SUBSET Runs] /\ confirmed' \in [Submitters -> SUBSET Runs]
        /\ given' \in [Submitters -> {0} \cup Runs]
        /\ \A t \in Submitters : \A i \in confirmed'[t] : Quiet(i)
    BY <2>1 DEF Submissions
  <2> QED
    BY <2>1, <2>2, <2>3, <2>4, SubmissionKeeps
<1> QED
  BY <1>1, <1>2 DEF Begin

\* A submission is over.
LEMMA LeaveIntakeKeeps ==
  ASSUME IntakeInv, NEW s \in Submitters, Leave(s)
  PROVE  IntakeInv'
<1>1. /\ step' = [step EXCEPT ![s] = "idle"] /\ form' = [form EXCEPT ![s] = Blank]
      /\ todo' = [todo EXCEPT ![s] = {}] /\ confirmed' = [confirmed EXCEPT ![s] = {}]
      /\ given' = [given EXCEPT ![s] = 0] /\ UNCHANGED <<runs, shown, told>>
  BY DEF Leave, rowVars
<1>2. Submissions
  BY SubmissionsKnown
<1>3. /\ step' \in [Submitters -> {"idle", "prior", "survey", "ask", "answered"}]
      /\ form' \in [Submitters -> Forms \cup {Blank}] /\ given' \in [Submitters -> {0} \cup Runs]
      /\ step'[s] = "idle"
      /\ \A t \in Submitters \ {s} : step'[t] = step[t] /\ form'[t] = form[t] /\ given'[t] = given[t]
  BY <1>1, <1>2 DEF Submissions
<1>4. /\ todo' \in [Submitters -> SUBSET Runs] /\ confirmed' \in [Submitters -> SUBSET Runs]
      /\ confirmed'[s] = {} /\ \A t \in Submitters \ {s} : confirmed'[t] = confirmed[t]
  BY <1>1, <1>2 DEF Submissions
<1>5. /\ \A t \in Submitters : step'[t] # "idle" => form'[t] \in Forms
      /\ \A t \in Submitters : step'[t] = "answered" => given'[t] \in Runs /\ runs[given'[t]] = form'[t]
  BY <1>2, <1>3 DEF Submissions
<1>6. \A t \in Submitters : \A i \in confirmed'[t] : Quiet(i)
  BY <1>2, <1>4 DEF Submissions
<1> QED
  BY <1>1, <1>3, <1>4, <1>5, <1>6, SubmissionKeeps

\* A submission looks at the run it continues, or at the active runs, or has one
\* confirmed by the agent.
LEMMA LookKeeps ==
  ASSUME IntakeInv, NEW s \in Submitters, SeePrior(s) \/ Survey(s) \/ \E k \in Runs : Ask(s, k)
  PROVE  IntakeInv'
<1>1. Submissions
  BY SubmissionsKnown
<1>2. step[s] # "idle" /\ step[s] # "answered" /\ UNCHANGED <<runs, shown, told, form, given>>
  BY DEF SeePrior, Survey, Ask, rowVars
<1>3. /\ step' \in [Submitters -> {"idle", "prior", "survey", "ask", "answered"}]
      /\ step'[s] # "answered" /\ \A t \in Submitters \ {s} : step'[t] = step[t]
  <2>1. PICK p \in {"survey", "ask"} : step' = [step EXCEPT ![s] = p]
    <3>1. CASE SeePrior(s)
      BY <3>1 DEF SeePrior
    <3>2. CASE Survey(s)
      BY <3>2 DEF Survey
    <3>3. CASE \E k \in Runs : Ask(s, k)
      <4>1. step' = step /\ step[s] = "ask"
        BY <3>3 DEF Ask
      <4>2. step' = [step EXCEPT ![s] = "ask"]
        BY <1>1, <4>1 DEF Submissions
      <4> QED
        BY <4>2
    <3> QED
      BY <3>1, <3>2, <3>3
  <2> QED
    BY <1>1, <2>1 DEF Submissions
<1>4. todo' \in [Submitters -> SUBSET Runs]
  BY <1>1 DEF SeePrior, Survey, Ask, Active, Submissions
<1>5. confirmed' \in [Submitters -> SUBSET Runs] /\ \A t \in Submitters : \A i \in confirmed'[t] : Quiet(i)
  <2>1. CASE UNCHANGED confirmed
    BY <1>1, <2>1 DEF Submissions
  <2>2. ASSUME NEW k \in Runs, Ask(s, k)
        PROVE  confirmed' \in [Submitters -> SUBSET Runs] /\ \A t \in Submitters : \A i \in confirmed'[t] : Quiet(i)
    <3>1. confirmed' = [confirmed EXCEPT ![s] = @ \cup {k}] /\ Quiet(k)
      BY <2>2 DEF Ask
    <3> QED
      BY <1>1, <3>1 DEF Submissions
  <2> QED
    BY <2>1, <2>2 DEF SeePrior, Survey
<1>6. /\ \A t \in Submitters : step'[t] # "idle" => form'[t] \in Forms
      /\ \A t \in Submitters : step'[t] = "answered" => given'[t] \in Runs /\ runs[given'[t]] = form'[t]
      /\ form' \in [Submitters -> Forms \cup {Blank}] /\ given' \in [Submitters -> {0} \cup Runs]
  BY <1>1, <1>2, <1>3 DEF Submissions
<1> QED
  BY <1>2, <1>3, <1>4, <1>5, <1>6, SubmissionKeeps

\* A function on the numbers up to n is a sequence of length n.
LEMMA NumberedIsSeq ==
  ASSUME NEW S, NEW n \in Nat, NEW f \in [1..n -> S]
  PROVE  f \in Seq(S) /\ Len(f) = n
<1>1. f \in Seq(S)
  BY SeqDef
<1>2. Len(f) \in Nat /\ 1..Len(f) = 1..n
  BY <1>1, LenProperties
<1>3. ~(Len(f) < n)
  <2>1. Len(f) < n => n \in 1..n /\ n \notin 1..Len(f)
    BY <1>2
  <2> QED
    BY <1>2, <2>1
<1>4. ~(n < Len(f))
  <2>1. n < Len(f) => Len(f) \in 1..Len(f) /\ Len(f) \notin 1..n
    BY <1>2
  <2> QED
    BY <1>2, <2>1
<1> QED
  BY <1>1, <1>2, <1>3, <1>4

\* A submission is accepted: nothing that was not quiet is passed over.
LEMMA AcceptKeeps ==
  ASSUME IntakeInv, NEW s \in Submitters, Accept(s)
  PROVE  IntakeInv'
<1>1. Submissions /\ step[s] = "ask" /\ form[s] \in Forms
  BY SubmissionsKnown DEF Accept, Submissions
<1>2. CASE \E k \in Same(form[s]) : Matches(k, form[s]) /\ Answer(s, form[s], k) /\ UNCHANGED rowVars
  BY <1>1, <1>2, AnswerKeeps DEF Same, Matches
<1>3. ASSUME Same(form[s]) = {}, Admissible(s), Len(runs) < MaxRuns,
             runs' = Append(runs, form[s]), shown' = Append(shown, "dispatching"), told' = Append(told, {}),
             Answer(s, form[s], Len(runs) + 1)
      PROVE  IntakeInv'
  <2>1. PICK n \in Nat : n = Len(runs) /\ Runs = 1..n /\ runs \in Seq(Forms) /\ n + 1 <= MaxRuns
    BY <1>3, IntakeRows, LenProperties, IntakeAssumption DEF IntakeInv, Runs
  <2>2. shown \in Seq(DOMAIN Rank) /\ Len(shown) = n /\ told \in Seq(SUBSET Announced) /\ Len(told) = n
    <3>1. shown \in [1..n -> DOMAIN Rank] /\ told \in [1..n -> SUBSET Announced]
      BY <2>1, IntakeRows DEF IntakeInv
    <3> QED
      BY <3>1, NumberedIsSeq
  <2>3. /\ runs' \in Seq(Forms) /\ Len(runs') = n + 1 /\ runs'[n + 1] = form[s]
        /\ \A k \in 1..n : runs'[k] = runs[k]
    BY <1>1, <1>3, <2>1, AppendProperties
  <2>4. /\ shown' \in Seq(DOMAIN Rank) /\ Len(shown') = n + 1 /\ shown'[n + 1] = "dispatching"
        /\ \A k \in 1..n : shown'[k] = shown[k]
    BY <1>3, <2>2, AppendProperties DEF Rank
  <2>5. /\ told' \in Seq(SUBSET Announced) /\ Len(told') = n + 1 /\ told'[n + 1] = {}
        /\ \A k \in 1..n : told'[k] = told[k]
    BY <1>3, <2>2, AppendProperties
  <2>6. /\ Runs' = 1..(n + 1) /\ Runs \subseteq Runs'
        /\ shown' \in [Runs' -> DOMAIN Rank] /\ told' \in [Runs' -> SUBSET Announced]
    BY <2>1, <2>3, <2>4, <2>5, LenProperties DEF Runs
  <2>7. /\ step' = [step EXCEPT ![s] = "answered"] /\ form' = [form EXCEPT ![s] = form[s]]
        /\ given' = [given EXCEPT ![s] = n + 1] /\ UNCHANGED <<todo, confirmed>>
    BY <1>3, <2>1 DEF Answer
  <2>8. /\ step' \in [Submitters -> {"idle", "prior", "survey", "ask", "answered"}]
        /\ form' = form /\ given' \in [Submitters -> {0} \cup Runs']
        /\ step'[s] = "answered" /\ given'[s] = n + 1
        /\ \A t \in Submitters \ {s} : step'[t] = step[t] /\ given'[t] = given[t]
    BY <1>1, <2>1, <2>6, <2>7 DEF Submissions
  <2>9. IntakeTypes'
    <3>1. todo' \in [Submitters -> SUBSET Runs'] /\ confirmed' \in [Submitters -> SUBSET Runs']
      BY <1>1, <2>6, <2>7 DEF Submissions
    <3>2. form' \in [Submitters -> Forms \cup {Blank}]
      BY <1>1, <2>8 DEF Submissions
    <3> QED
      BY <2>1, <2>3, <2>6, <2>8, <3>1, <3>2 DEF IntakeTypes, Announced
  <2>10. \A k \in 1..n : Quiet(k)' <=> Quiet(k)
    BY <2>1, <2>5 DEF Quiet, AgentStatus
  <2>11. ShownWasTold'
    <3>1. \A k \in 1..n : shown[k] = "dispatching" \/ shown[k] \in told[k]
      BY <2>1 DEF IntakeInv, ShownWasTold
    <3>2. \A k \in 1..(n + 1) : k \in 1..n \/ k = n + 1
      BY <2>1
    <3> QED
      BY <2>4, <2>5, <2>6, <3>1, <3>2 DEF ShownWasTold
  <2>12. ConfirmedQuiet'
    BY <1>1, <2>1, <2>7, <2>10 DEF Submissions, ConfirmedQuiet
  <2>13. FormsFilled'
    BY <1>1, <2>8 DEF Submissions, FormsFilled
  <2>14. OneActiveRun'
    <3>1. ASSUME NEW k \in 1..n PROVE Quiet(k)
      <4>1. told[k] \subseteq Announced /\ (shown[k] = "dispatching" \/ shown[k] \in told[k])
        BY <2>1, IntakeRows DEF IntakeInv, ShownWasTold
      <4>2. CASE shown[k] \in {"dispatching", "active"}
        <5>1. k \in confirmed[s]
          BY <1>3, <2>1, <4>2 DEF Admissible, Active
        <5> QED
          BY <1>1, <5>1 DEF Submissions
      <4>3. CASE shown[k] \notin {"dispatching", "active"}
        <5>1. shown[k] \in {"waiting_input", "ended"} /\ shown[k] \in told[k]
          BY <4>1, <4>3 DEF Announced, Rank
        <5> QED
          BY <4>1, <5>1, QuietTells
      <4> QED
        BY <4>2, <4>3
    <3>2. \A k \in 1..(n + 1) : k \in 1..n \/ k = n + 1
      BY <2>1
    <3> QED
      BY <2>3, <2>6, <2>10, <3>1, <3>2 DEF OneActiveRun
  <2>15. AnswersNameRuns'
    <3>1. \A k \in 1..n : runs[k].request # form[s].request
      BY <1>3, <2>1 DEF Same
    <3>2. \A j, k \in 1..n : runs[j].request = runs[k].request => j = k
      BY <2>1 DEF IntakeInv, AnswersNameRuns
    <3>3. \A k \in 1..(n + 1) : k \in 1..n \/ k = n + 1
      BY <2>1
    <3>4. \A j, k \in Runs' : runs'[j].request = runs'[k].request => j = k
      BY <2>3, <2>6, <3>1, <3>2, <3>3
    <3>5. \A t \in Submitters : step'[t] = "answered" => given'[t] \in Runs' /\ runs'[given'[t]] = form'[t]
      <4>1. n + 1 \in Runs'
        BY <2>1, <2>6
      <4> QED
        BY <1>1, <2>1, <2>3, <2>6, <2>8, <4>1 DEF Submissions
    <3> QED
      BY <3>4, <3>5 DEF AnswersNameRuns
  <2> QED
    BY <2>9, <2>11, <2>12, <2>13, <2>14, <2>15 DEF IntakeInv
<1> QED
  BY <1>2, <1>3 DEF Accept

\* The agent announces a status, or the gateway shows one that was announced.
LEMMA RunGoesOn ==
  ASSUME IntakeInv, NEW k \in Runs, NEW s \in DOMAIN Rank, Advance(k, s) \/ Project(k, s)
  PROVE  IntakeInv'
<1>1. /\ UNCHANGED <<runs, step, form, todo, confirmed, given>>
      /\ Runs' = Runs
  BY DEF Advance, Project, submitVars, Runs
<1>2. shown \in [Runs -> DOMAIN Rank] /\ told \in [Runs -> SUBSET Announced]
  BY IntakeRows DEF IntakeInv
<1>3. /\ shown' \in [Runs -> DOMAIN Rank] /\ told' \in [Runs -> SUBSET Announced]
      /\ \A i \in Runs : /\ told[i] \subseteq told'[i]
                         /\ shown'[i] = shown[i] \/ shown'[i] \in told[i]
  <2>1. CASE Advance(k, s)
    BY <1>2, <2>1 DEF Advance, Announced
  <2>2. CASE Project(k, s)
    BY <1>2, <2>2 DEF Project
  <2> QED
    BY <2>1, <2>2
<1>4. \A i \in Runs : Quiet(i) => Quiet(i)'
  BY <1>2, <1>3, QuietTells
<1>5. IntakeTypes'
  BY <1>1, <1>3 DEF IntakeInv, IntakeTypes, Announced
<1>6. ShownWasTold'
  BY <1>1, <1>3 DEF IntakeInv, ShownWasTold
<1>7. ConfirmedQuiet'
  <2>1. \A t \in Submitters : confirmed[t] \subseteq Runs
    BY IntakeRows DEF IntakeInv
  <2> QED
    BY <1>1, <1>4, <2>1 DEF IntakeInv, ConfirmedQuiet
<1>8. OneActiveRun'
  BY <1>1, <1>4 DEF IntakeInv, OneActiveRun
<1>9. FormsFilled' /\ AnswersNameRuns'
  BY <1>1 DEF IntakeInv, FormsFilled, AnswersNameRuns
<1> QED
  BY <1>5, <1>6, <1>7, <1>8, <1>9 DEF IntakeInv

\* Every step keeps the invariant.
LEMMA IntakeInductive == IntakeInv /\ [IntakeNext]_intakeVars => IntakeInv'
<1> SUFFICES ASSUME IntakeInv, [IntakeNext]_intakeVars PROVE IntakeInv'
  OBVIOUS
<1>1. ASSUME NEW s \in Submitters, NEW f \in Forms, Begin(s, f) PROVE IntakeInv'
  BY <1>1, BeginIntakeKeeps
<1>2. ASSUME NEW s \in Submitters, Leave(s) PROVE IntakeInv'
  BY <1>2, LeaveIntakeKeeps
<1>3. ASSUME NEW s \in Submitters, SeePrior(s) \/ Survey(s) \/ \E k \in Runs : Ask(s, k) PROVE IntakeInv'
  BY <1>3, LookKeeps
<1>4. ASSUME NEW s \in Submitters, Accept(s) PROVE IntakeInv'
  BY <1>4, AcceptKeeps
<1>5. ASSUME NEW k \in Runs, NEW s \in DOMAIN Rank, Advance(k, s) \/ Project(k, s) PROVE IntakeInv'
  BY <1>5, RunGoesOn
<1>6. CASE UNCHANGED intakeVars
  <2>1. UNCHANGED <<runs, shown, told, step, form, todo, confirmed, given>>
    BY <1>6 DEF intakeVars, rowVars, submitVars
  <2> QED
    BY <2>1, SubmissionsKnown, SubmissionKeeps DEF Submissions
<1> QED
  BY <1>1, <1>2, <1>3, <1>4, <1>5, <1>6 DEF IntakeNext

\* At most one run of a conversation is dispatched or worked on, and it is the latest,
\* for any number of submissions that race (conversations.py).
THEOREM OneRunGoesOn == IntakeSpec => []OneActiveRun
<1>1. IntakeInv => OneActiveRun
  BY DEF IntakeInv
<1> QED
  BY <1>1, IntakeStart, IntakeInductive, PTL DEF IntakeSpec

\* Every answer to a request names the one run accepted with that payload.
THEOREM RepetitionsFindTheirRun == IntakeSpec => []RepeatedFindsItsRun
<1>1. IntakeInv => RepeatedFindsItsRun
  BY DEF IntakeInv, AnswersNameRuns, RepeatedFindsItsRun
<1> QED
  BY <1>1, IntakeStart, IntakeInductive, PTL DEF IntakeSpec

-----------------------------------------------------------------------------
(* Sessions: versions of the account only grow, so what was read of it     *)
(* under a version is still true while that version is current; and a      *)
(* captcha or a code is presented by one request, which spends it once.    *)

AccountRecords == [word : Words, enabled : BOOLEAN, version : 1..MaxChanges, audits : 0..MaxChanges]
SessionRecords == [state : {"none", "open", "gone"}, version : 0..MaxChanges, word : Words \cup {"none"}]
GrantRecords == [slot : 0..MaxSessions, version : 0..MaxChanges]
RequestRecords == [step : {"idle", "login", "store", "change", "session", "user", "issue"},
                   ticket : 0..MaxTickets, slot : 0..MaxSessions, version : 0..MaxChanges,
                   old : Words \cup {"none"}, new : Words \cup {"none"}]

SessionShape ==
  /\ account \in AccountRecords
  /\ sessions \in [Slots -> SessionRecords]
  /\ tickets \in [Tickets -> {"unused", "live", "gone"}]
  /\ grants \in [Codes -> GrantRecords]
  /\ work \in [Clients -> RequestRecords]
  /\ spent \in [Tickets -> Nat]

\* The types, with the records named.
LEMMA SessionShapes == SessionTypes <=> SessionShape
BY DEF SessionTypes, SessionShape, AccountRecords, SessionRecords, GrantRecords, RequestRecords

\* The ticket a request has taken and not yet spent.
Presenting == {"login", "session", "user", "issue"}
Presented(r) == <<IF r.step = "login" THEN "captcha" ELSE "code", r.ticket>>

Unspent ==
  \A c \in Clients : work[c].step \in Presenting =>
    /\ Presented(work[c]) \in Tickets
    /\ tickets[Presented(work[c])] = "gone" /\ spent[Presented(work[c])] = 0

OnePresents ==
  \A c, d \in Clients : c # d /\ work[c].step \in Presenting /\ work[d].step \in Presenting =>
    Presented(work[c]) # Presented(work[d])

SpentOnce == \A t \in Tickets : spent[t] <= 1 /\ (tickets[t] # "gone" => spent[t] = 0)

\* A code that was given stands for a session.
Granted == \A k \in Codes : tickets[<<"code", k>>] # "unused" => grants[k].slot \in Slots

\* What sessions and requests have of the account was so under their version.
SessionTrue(e) == e.version <= account.version /\ (e.version = account.version => e.word = account.word)
RequestTrue(r) ==
  /\ r.version <= account.version
  /\ r.step = "store" /\ r.version = account.version => r.new = account.word
  /\ r.step = "change" => r.new \in Words /\ (r.version = account.version => r.old = account.word)

Audited == account.audits < account.version
Genuine == Audited /\ (\A s \in Slots : SessionTrue(sessions[s])) /\ (\A c \in Clients : RequestTrue(work[c]))

SessionsInv == SessionShape /\ Unspent /\ OnePresents /\ SpentOnce /\ Granted /\ Genuine

\* A request that has ended is at rest.
LEMMA RestingRequest == Resting \in RequestRecords /\ Resting.step = "idle" /\ Resting.version = 0
BY SessionsAssumption DEF Resting, RequestRecords

\* The invariant holds at the beginning.
LEMMA SessionsInvInit == SessionsInit => SessionsInv
<1> SUFFICES ASSUME SessionsInit PROVE SessionsInv
  OBVIOUS
<1>1. 0 \in 0..MaxChanges /\ 1 \in 1..MaxChanges /\ 0 \in 0..MaxSessions
  BY SessionsAssumption
<1>2. account \in AccountRecords /\ account.version = 1 /\ account.audits = 0
  BY <1>1 DEF SessionsInit, AccountRecords
<1>3. /\ \A s \in Slots : sessions[s] \in SessionRecords /\ sessions[s].version = 0
      /\ sessions \in [Slots -> SessionRecords]
  BY <1>1 DEF SessionsInit, SessionRecords
<1>4. grants \in [Codes -> GrantRecords]
  BY <1>1 DEF SessionsInit, GrantRecords
<1>5. SessionShape
  BY <1>2, <1>3, <1>4, RestingRequest DEF SessionsInit, SessionShape
<1>6. Unspent /\ OnePresents /\ Granted
  <2>1. \A k \in Codes : <<"code", k>> \in Tickets
    BY DEF Tickets
  <2> QED BY <2>1, RestingRequest DEF SessionsInit, Unspent, OnePresents, Granted, Presenting
<1>7. SpentOnce
  BY DEF SessionsInit, SpentOnce
<1>8. Genuine
  BY <1>2, <1>3, RestingRequest DEF SessionsInit, Genuine, Audited, SessionTrue, RequestTrue
<1> QED BY <1>5, <1>6, <1>7, <1>8 DEF SessionsInv

\* A request moves on with what it knows; the ticket it presents, if any, it presented before.
LEMMA RequestMoves ==
  ASSUME SessionsInv, NEW c \in Clients, NEW r \in RequestRecords, work' = [work EXCEPT ![c] = r],
         r.step \in Presenting => work[c].step \in Presenting /\ Presented(r) = Presented(work[c]),
         UNCHANGED <<account, tickets, grants, spent>>, sessions' \in [Slots -> SessionRecords],
         \A s \in Slots : SessionTrue(sessions'[s]), RequestTrue(r)
  PROVE  SessionsInv'
<1>1. /\ work' \in [Clients -> RequestRecords] /\ work'[c] = r /\ \A d \in Clients \ {c} : work'[d] = work[d]
  BY DEF SessionsInv, SessionShape
<1>2. SessionShape' /\ SpentOnce' /\ Granted'
  BY <1>1 DEF SessionsInv, SessionShape, SpentOnce, Granted
<1>3. \A d \in Clients : work'[d].step \in Presenting =>
        work[d].step \in Presenting /\ Presented(work'[d]) = Presented(work[d])
  BY <1>1
<1>4. Unspent' /\ OnePresents'
  <2>1. Unspent'
    BY <1>3 DEF SessionsInv, Unspent, Presented
  <2>2. OnePresents'
    BY <1>3 DEF SessionsInv, OnePresents, Presented
  <2> QED BY <2>1, <2>2
<1>5. Genuine'
  <2>1. \A d \in Clients : RequestTrue(work'[d])
    BY <1>1 DEF SessionsInv, Genuine
  <2> QED BY <2>1 DEF SessionsInv, Genuine, Audited, SessionTrue, RequestTrue
<1> QED BY <1>2, <1>4, <1>5 DEF SessionsInv

\* A request takes a ticket that nobody has taken.
LEMMA TicketTaken ==
  ASSUME SessionsInv, NEW c \in Clients, NEW r \in RequestRecords, work' = [work EXCEPT ![c] = r],
         r.step \in Presenting, NEW t \in Tickets, Presented(r) = t, Take(t), RequestTrue(r),
         UNCHANGED <<account, sessions, grants, spent>>
  PROVE  SessionsInv'
<1>1. /\ work' \in [Clients -> RequestRecords] /\ work'[c] = r /\ \A d \in Clients \ {c} : work'[d] = work[d]
  BY DEF SessionsInv, SessionShape
<1>2. /\ tickets' \in [Tickets -> {"unused", "live", "gone"}] /\ tickets'[t] = "gone" /\ tickets[t] = "live"
      /\ \A u \in Tickets \ {t} : tickets'[u] = tickets[u]
  BY DEF SessionsInv, SessionShape, Take
<1>3. SessionShape'
  BY <1>1, <1>2 DEF SessionsInv, SessionShape
<1>4. SpentOnce'
  BY <1>2 DEF SessionsInv, SpentOnce
<1>5. Granted'
  <2>1. \A k \in Codes : <<"code", k>> \in Tickets
    BY DEF Tickets
  <2> QED BY <1>2, <2>1 DEF SessionsInv, Granted
<1>6. spent[t] = 0
  BY <1>2 DEF SessionsInv, SpentOnce
<1>7. \A d \in Clients \ {c} : work[d].step \in Presenting => Presented(work[d]) # t /\ Presented(work[d]) \in Tickets
  BY <1>2 DEF SessionsInv, Unspent
<1>8. Unspent'
  <2> SUFFICES ASSUME NEW d \in Clients, work'[d].step \in Presenting
               PROVE  /\ Presented(work'[d]) \in Tickets
                      /\ tickets'[Presented(work'[d])] = "gone" /\ spent'[Presented(work'[d])] = 0
    BY DEF Unspent, Presented
  <2>1. CASE d = c
    BY <1>1, <1>2, <1>6, <2>1
  <2>2. CASE d # c
    BY <1>1, <1>2, <1>7, <2>2 DEF SessionsInv, Unspent
  <2> QED BY <2>1, <2>2
<1>9. OnePresents'
  <2> SUFFICES ASSUME NEW d \in Clients, NEW f \in Clients, d # f,
                      work'[d].step \in Presenting, work'[f].step \in Presenting
               PROVE  Presented(work'[d]) # Presented(work'[f])
    BY DEF OnePresents, Presented
  <2>1. CASE d # c /\ f # c
    BY <1>1, <2>1 DEF SessionsInv, OnePresents
  <2>2. CASE d = c \/ f = c
    BY <1>1, <1>7, <2>2
  <2> QED BY <2>1, <2>2
<1>10. Genuine'
  <2>1. \A d \in Clients : RequestTrue(work'[d])
    BY <1>1 DEF SessionsInv, Genuine
  <2> QED BY <2>1 DEF SessionsInv, Genuine, Audited, SessionTrue, RequestTrue
<1> QED BY <1>3, <1>4, <1>5, <1>8, <1>9, <1>10 DEF SessionsInv

\* A request spends the ticket it presents.
LEMMA TicketSpent ==
  ASSUME SessionsInv, NEW c \in Clients, NEW r \in RequestRecords, work' = [work EXCEPT ![c] = r],
         r.step \notin Presenting, work[c].step \in Presenting, NEW t \in Tickets, Presented(work[c]) = t,
         spent' = [spent EXCEPT ![t] = @ + 1], RequestTrue(r),
         UNCHANGED <<account, sessions, grants, tickets>>
  PROVE  SessionsInv'
<1>1. /\ work' \in [Clients -> RequestRecords] /\ work'[c] = r /\ \A d \in Clients \ {c} : work'[d] = work[d]
  BY DEF SessionsInv, SessionShape
<1>2. spent[t] = 0 /\ tickets[t] = "gone"
  BY DEF SessionsInv, Unspent
<1>3. /\ spent' \in [Tickets -> Nat] /\ spent'[t] = 1
      /\ \A u \in Tickets \ {t} : spent'[u] = spent[u]
  BY <1>2 DEF SessionsInv, SessionShape
<1>4. SessionShape' /\ Granted'
  BY <1>1, <1>3 DEF SessionsInv, SessionShape, Granted
<1>5. SpentOnce'
  BY <1>2, <1>3 DEF SessionsInv, SpentOnce
<1>6. \A d \in Clients : work'[d].step \in Presenting =>
        d # c /\ work'[d] = work[d] /\ Presented(work[d]) \in Tickets /\ Presented(work[d]) # t
  BY <1>1 DEF SessionsInv, Unspent, OnePresents
<1>7. Unspent'
  <2> SUFFICES ASSUME NEW d \in Clients, work'[d].step \in Presenting
               PROVE  /\ Presented(work'[d]) \in Tickets
                      /\ tickets[Presented(work'[d])] = "gone" /\ spent'[Presented(work'[d])] = 0
    BY DEF Unspent, Presented
  <2> QED BY <1>3, <1>6 DEF SessionsInv, Unspent
<1>8. OnePresents'
  <2> SUFFICES ASSUME NEW d \in Clients, NEW f \in Clients, d # f,
                      work'[d].step \in Presenting, work'[f].step \in Presenting
               PROVE  Presented(work'[d]) # Presented(work'[f])
    BY DEF OnePresents, Presented
  <2> QED BY <1>6 DEF SessionsInv, OnePresents
<1>9. Genuine'
  <2>1. \A d \in Clients : RequestTrue(work'[d])
    BY <1>1 DEF SessionsInv, Genuine
  <2> QED BY <2>1 DEF SessionsInv, Genuine, Audited, SessionTrue, RequestTrue
<1> QED BY <1>4, <1>5, <1>7, <1>8, <1>9 DEF SessionsInv

\* The account changes: nothing that was read of it is current any more.
LEMMA AccountMoves ==
  ASSUME SessionsInv, account' \in AccountRecords, account'.version = account.version + 1,
         account'.audits <= account.audits + 1, UNCHANGED <<sessions, tickets, grants, spent>>,
         work' \in [Clients -> RequestRecords], \A c \in Clients : work'[c] = work[c] \/ work'[c] = Resting
  PROVE  SessionsInv'
<1>1. SessionShape' /\ SpentOnce' /\ Granted'
  BY DEF SessionsInv, SessionShape, SpentOnce, Granted
<1>2. \A c \in Clients : work'[c].step \in Presenting => work'[c] = work[c]
  BY RestingRequest DEF Presenting
<1>3. Unspent' /\ OnePresents'
  <2>1. Unspent'
    BY <1>2 DEF SessionsInv, Unspent, Presented
  <2>2. OnePresents'
    BY <1>2 DEF SessionsInv, OnePresents, Presented
  <2> QED BY <2>1, <2>2
<1>4. /\ account.version \in Nat /\ account.audits \in Nat /\ account'.audits \in Nat
      /\ \A s \in Slots : sessions[s].version \in Nat
      /\ \A c \in Clients : work[c].version \in Nat
  BY SessionsAssumption DEF SessionsInv, SessionShape, AccountRecords, SessionRecords, RequestRecords
<1>5. Audited'
  BY <1>4 DEF SessionsInv, Genuine, Audited
<1>6. \A s \in Slots : sessions[s].version < account'.version
  BY <1>4 DEF SessionsInv, Genuine, SessionTrue
<1>7. ASSUME NEW c \in Clients
      PROVE  work'[c].version < account'.version /\ (work'[c].step = "change" => work'[c].new \in Words)
  <2>1. CASE work'[c] = work[c]
    BY <1>4, <2>1 DEF SessionsInv, Genuine, RequestTrue
  <2>2. CASE work'[c] = Resting
    BY <1>4, <2>2, RestingRequest
  <2> QED BY <2>1, <2>2
<1>8. account'.version \in Nat /\ \A c \in Clients : work'[c].version \in Nat
  BY <1>4, SessionsAssumption DEF RequestRecords
<1>9. Genuine'
  BY <1>4, <1>5, <1>6, <1>7, <1>8 DEF Genuine, SessionTrue, RequestTrue
<1> QED BY <1>1, <1>3, <1>9 DEF SessionsInv

\* Who is at rest claims nothing of the account.
LEMMA RestTrue == ASSUME SessionsInv PROVE RequestTrue(Resting)
BY RestingRequest, SessionsAssumption DEF SessionsInv, SessionShape, AccountRecords, RequestTrue

\* A login keeps the invariant: what it has compared is true under the version it has read ...
LEMMA LoginKeeps ==
  ASSUME SessionsInv, NEW c \in Clients,
         Quit(c) \/ (\E i \in Codes, w \in Words : BeginLogin(c, i, w)) \/ Compare(c) \/ \E s \in Slots : OpenSession(c, s)
  PROVE  SessionsInv'
<1>1. /\ work[c] \in RequestRecords /\ work \in [Clients -> RequestRecords] /\ account \in AccountRecords
      /\ sessions \in [Slots -> SessionRecords] /\ RequestTrue(work[c]) /\ \A s \in Slots : SessionTrue(sessions[s])
  BY DEF SessionsInv, SessionShape, Genuine
<1>2. CASE Quit(c)
  BY <1>1, <1>2, RestTrue, RestingRequest, RequestMoves DEF Quit, Rest, Presenting
<1>3. ASSUME NEW i \in Codes, NEW w \in Words, BeginLogin(c, i, w) PROVE SessionsInv'
  <2>1. PICK r : r = [Resting EXCEPT !.step = "login", !.ticket = i, !.new = w]
    OBVIOUS
  <2>a. i \in 0..MaxTickets /\ w \in Words \cup {"none"}
    BY SessionsAssumption DEF Codes
  <2>2. r \in RequestRecords /\ r.step = "login" /\ r.ticket = i /\ r.version = 0
    BY <2>1, <2>a, RestingRequest DEF RequestRecords
  <2>3. RequestTrue(r)
    BY <2>2, SessionsAssumption, <1>1 DEF RequestTrue, AccountRecords
  <2>4. Presented(r) = <<"captcha", i>> /\ <<"captcha", i>> \in Tickets
    BY <2>2 DEF Presented, Tickets
  <2> QED BY <1>3, <2>1, <2>2, <2>3, <2>4, TicketTaken DEF BeginLogin, Presenting
<1>4. CASE Compare(c)
  <2>1. Presented(work[c]) = <<"captcha", work[c].ticket>> /\ work[c].step \in Presenting /\ <<"captcha", work[c].ticket>> \in Tickets
    BY <1>4 DEF SessionsInv, Unspent, Presenting, Presented, Compare, At
  <2>2. PICK r : r = IF account.enabled /\ account.word = work[c].new
                       THEN [work[c] EXCEPT !.step = "store", !.version = account.version] ELSE Resting
    OBVIOUS
  <2>3. work' = [work EXCEPT ![c] = r]
    BY <1>1, <1>4, <2>2 DEF Compare, Rest
  <2>4. r \in RequestRecords /\ r.step \notin Presenting /\ RequestTrue(r)
    <3>1. CASE account.enabled /\ account.word = work[c].new
      <4>a. account.version \in 0..MaxChanges /\ account.version \in Nat
        BY <1>1, SessionsAssumption DEF AccountRecords
      <4>1. r \in RequestRecords /\ r.step = "store" /\ r.version = account.version /\ r.new = work[c].new
        BY <1>1, <2>2, <3>1, <4>a DEF RequestRecords
      <4> QED BY <3>1, <4>a, <4>1 DEF RequestTrue, Presenting
    <3>2. CASE ~(account.enabled /\ account.word = work[c].new)
      BY <2>2, <3>2, RestTrue, RestingRequest DEF Presenting
    <3> QED BY <3>1, <3>2
  <2> QED BY <1>4, <2>1, <2>3, <2>4, TicketSpent DEF Compare
<1>5. ASSUME NEW s \in Slots, OpenSession(c, s) PROVE SessionsInv'
  <2>1. PICK e : e = [state |-> "open", version |-> work[c].version, word |-> work[c].new]
    OBVIOUS
  <2>2. e \in SessionRecords /\ SessionTrue(e)
    BY <1>1, <1>5, <2>1 DEF SessionRecords, RequestRecords, SessionTrue, RequestTrue, OpenSession, At
  <2>3. sessions' = [sessions EXCEPT ![s] = e]
    BY <1>5, <2>1 DEF OpenSession
  <2>4. sessions' \in [Slots -> SessionRecords] /\ \A k \in Slots : SessionTrue(sessions'[k])
    BY <1>1, <2>2, <2>3
  <2> QED BY <1>5, <2>4, RestTrue, RestingRequest, RequestMoves DEF OpenSession, Rest, Presenting
<1> QED BY <1>2, <1>3, <1>4, <1>5

\* ... so does a change of password, which commits under the version it has read ...
LEMMA ChangeKeeps ==
  ASSUME SessionsInv, NEW c \in Clients,
         (\E s \in Slots, w \in Words : BeginChange(c, s, w)) \/ CommitChange(c)
  PROVE  SessionsInv'
<1>1. /\ work[c] \in RequestRecords /\ work \in [Clients -> RequestRecords] /\ account \in AccountRecords
      /\ sessions \in [Slots -> SessionRecords] /\ RequestTrue(work[c]) /\ \A s \in Slots : SessionTrue(sessions[s])
  BY DEF SessionsInv, SessionShape, Genuine
<1>2. ASSUME NEW s \in Slots, NEW w \in Words, BeginChange(c, s, w) PROVE SessionsInv'
  <2>1. PICK r : r = [Resting EXCEPT !.step = "change", !.version = account.version, !.old = account.word, !.new = w]
    OBVIOUS
  <2>a. /\ account.version \in 0..MaxChanges /\ account.version \in Nat /\ account.word \in Words \cup {"none"}
        /\ w \in Words \cup {"none"}
    BY <1>1, SessionsAssumption DEF AccountRecords
  <2>2. r \in RequestRecords /\ r.step = "change" /\ r.version = account.version /\ r.old = account.word /\ r.new = w
    BY <2>1, <2>a, RestingRequest DEF RequestRecords
  <2>3. RequestTrue(r)
    BY <2>2, <2>a DEF RequestTrue
  <2> QED BY <1>1, <1>2, <2>1, <2>2, <2>3, RequestMoves DEF BeginChange, Presenting
<1>3. CASE CommitChange(c)
  <2>1. work[c].new \in Words
    BY <1>1, <1>3 DEF RequestTrue, CommitChange, At
  <2>2. PICK version : version = account.version + 1
    OBVIOUS
  <2>3. version \in 1..MaxChanges
    BY <1>1, <1>3, <2>2, SessionsAssumption DEF AccountRecords, CommitChange
  <2>4. account' = [account EXCEPT !.word = work[c].new, !.version = version]
    BY <1>1, <1>3, <2>2 DEF CommitChange, AccountRecords
  <2>5. account' \in AccountRecords /\ account'.version = account.version + 1 /\ account'.audits = account.audits
    BY <1>1, <2>1, <2>2, <2>3, <2>4 DEF AccountRecords
  <2>6. account'.audits <= account.audits + 1
    BY <1>1, <2>5 DEF AccountRecords
  <2>7. work' \in [Clients -> RequestRecords] /\ \A d \in Clients : work'[d] = work[d] \/ work'[d] = Resting
    BY <1>1, <1>3, RestingRequest DEF CommitChange, Rest
  <2> QED BY <1>3, <2>5, <2>6, <2>7, AccountMoves DEF CommitChange
<1> QED BY <1>2, <1>3

\* ... and a sign-on, whose code is gone once it is exchanged ...
LEMMA SignOnKeeps ==
  ASSUME SessionsInv, NEW c \in Clients, (\E k \in Codes : Exchange(c, k)) \/ SeeSession(c) \/ SeeUser(c) \/ Issue(c)
  PROVE  SessionsInv'
<1>1. /\ work[c] \in RequestRecords /\ work \in [Clients -> RequestRecords] /\ account \in AccountRecords
      /\ sessions \in [Slots -> SessionRecords] /\ RequestTrue(work[c]) /\ \A s \in Slots : SessionTrue(sessions[s])
  BY DEF SessionsInv, SessionShape, Genuine
<1>2. ASSUME NEW k \in Codes, Exchange(c, k) PROVE SessionsInv'
  <2>1. PICK r : r = [Resting EXCEPT !.step = "session", !.ticket = k]
    OBVIOUS
  <2>a. k \in 0..MaxTickets
    BY SessionsAssumption DEF Codes
  <2>2. r \in RequestRecords /\ r.step = "session" /\ r.ticket = k /\ r.version = 0
    BY <2>1, <2>a, RestingRequest DEF RequestRecords
  <2>3. RequestTrue(r)
    BY <2>2, SessionsAssumption, <1>1 DEF RequestTrue, AccountRecords
  <2>4. Presented(r) = <<"code", k>> /\ <<"code", k>> \in Tickets
    BY <2>2 DEF Presented, Tickets
  <2> QED BY <1>2, <2>1, <2>2, <2>3, <2>4, TicketTaken DEF Exchange, Presenting
<1>3. CASE SeeSession(c)
  <2>1. /\ Presented(work[c]) = <<"code", work[c].ticket>> /\ Presented(work[c]) \in Tickets
        /\ tickets[Presented(work[c])] = "gone"
    BY <1>3 DEF SessionsInv, Unspent, Presenting, Presented, SeeSession, At
  <2>2. work[c].ticket \in Codes
    BY <2>1 DEF Tickets
  <2>3. PICK s : s = grants[work[c].ticket].slot
    OBVIOUS
  <2>4. s \in Slots
    BY <2>1, <2>2, <2>3 DEF SessionsInv, Granted
  <2>5. PICK r : r = [work[c] EXCEPT !.step = "user", !.version = sessions[s].version]
    OBVIOUS
  <2>6. /\ r \in RequestRecords /\ r.step = "user" /\ r.ticket = work[c].ticket /\ r.version = sessions[s].version
    BY <1>1, <2>4, <2>5 DEF RequestRecords, SessionRecords
  <2>7. work' = [work EXCEPT ![c] = r]
    BY <1>1, <1>3, <2>3, <2>5 DEF SeeSession
  <2>8. RequestTrue(r)
    BY <1>1, <2>4, <2>6 DEF RequestTrue, SessionTrue
  <2>9. Presented(r) = Presented(work[c]) /\ work[c].step \in Presenting
    BY <1>3, <2>6 DEF Presented, Presenting, SeeSession, At
  <2> QED BY <1>1, <1>3, <2>6, <2>7, <2>8, <2>9, RequestMoves DEF SeeSession
<1>4. CASE SeeUser(c)
  <2>1. PICK r : r = [work[c] EXCEPT !.step = "issue"]
    OBVIOUS
  <2>2. /\ r \in RequestRecords /\ r.step = "issue" /\ r.ticket = work[c].ticket /\ r.version = work[c].version
    BY <1>1, <2>1 DEF RequestRecords
  <2>3. work' = [work EXCEPT ![c] = r]
    BY <1>1, <1>4, <2>1 DEF SeeUser
  <2>4. RequestTrue(r) /\ Presented(r) = Presented(work[c]) /\ work[c].step \in Presenting
    BY <1>1, <1>4, <2>2 DEF RequestTrue, Presented, Presenting, SeeUser, At
  <2> QED BY <1>1, <1>4, <2>2, <2>3, <2>4, RequestMoves DEF SeeUser
<1>5. CASE Issue(c)
  <2>1. Presented(work[c]) = <<"code", work[c].ticket>> /\ work[c].step \in Presenting /\ Presented(work[c]) \in Tickets
    BY <1>5 DEF SessionsInv, Unspent, Presenting, Presented, Issue, At
  <2> QED BY <1>5, <2>1, RestTrue, RestingRequest, TicketSpent DEF Issue, Rest, Presenting
<1> QED BY <1>2, <1>3, <1>4, <1>5

\* A ticket comes, or runs out.
LEMMA TicketsKeep ==
  ASSUME SessionsInv, NEW t \in Tickets, NEW state \in {"live", "gone"},
         tickets' = [tickets EXCEPT ![t] = state], tickets[t] # "gone",
         grants' \in [Codes -> GrantRecords],
         \A k \in Codes : tickets'[<<"code", k>>] # "unused" => grants'[k].slot \in Slots,
         UNCHANGED <<account, sessions, work, spent>>
  PROVE  SessionsInv'
<1>1. /\ tickets' \in [Tickets -> {"unused", "live", "gone"}]
      /\ \A u \in Tickets : tickets[u] = "gone" => tickets'[u] = "gone"
      /\ \A u \in Tickets : tickets'[u] # "gone" => tickets[u] # "gone"
  BY DEF SessionsInv, SessionShape
<1>2. SessionShape' /\ Granted'
  BY <1>1 DEF SessionsInv, SessionShape, Granted
<1>3. Unspent'
  BY <1>1 DEF SessionsInv, Unspent, Presented
<1>4. OnePresents' /\ SpentOnce'
  BY <1>1 DEF SessionsInv, OnePresents, SpentOnce, Presented
<1>5. Genuine'
  BY DEF SessionsInv, Genuine, Audited, SessionTrue, RequestTrue
<1> QED BY <1>2, <1>3, <1>4, <1>5 DEF SessionsInv

\* ... and what happens around them.
LEMMA SurroundingsKeep ==
  ASSUME SessionsInv,
         \/ \E i \in Codes : Captcha(i)
         \/ \E t \in Tickets : ExpireTicket(t)
         \/ \E s \in Slots : CloseSession(s) \/ \E k \in Codes : Authorize(s, k)
         \/ \E w \in Words, on \in BOOLEAN : ChangeUser(w, on)
  PROVE  SessionsInv'
<1>1. /\ account \in AccountRecords /\ sessions \in [Slots -> SessionRecords] /\ grants \in [Codes -> GrantRecords]
      /\ tickets \in [Tickets -> {"unused", "live", "gone"}]
      /\ work \in [Clients -> RequestRecords] /\ \A s \in Slots : SessionTrue(sessions[s])
  BY DEF SessionsInv, SessionShape, Genuine
<1>2. ASSUME NEW i \in Codes, Captcha(i) PROVE SessionsInv'
  <2>1. <<"captcha", i>> \in Tickets /\ \A k \in Codes : <<"code", k>> # <<"captcha", i>> /\ <<"code", k>> \in Tickets
    BY DEF Tickets
  <2>2. \A k \in Codes : tickets'[<<"code", k>>] # "unused" => grants[k].slot \in Slots
    BY <1>1, <1>2, <2>1 DEF Captcha, SessionsInv, Granted
  <2> QED BY <1>1, <1>2, <2>1, <2>2, TicketsKeep DEF Captcha
<1>3. ASSUME NEW t \in Tickets, ExpireTicket(t) PROVE SessionsInv'
  <2>1. \A k \in Codes : <<"code", k>> \in Tickets
    BY DEF Tickets
  <2>2. \A k \in Codes : tickets'[<<"code", k>>] # "unused" => grants[k].slot \in Slots
    BY <1>1, <1>3, <2>1 DEF ExpireTicket, SessionsInv, Granted
  <2> QED BY <1>1, <1>3, <2>2, TicketsKeep DEF ExpireTicket
<1>4. ASSUME NEW s \in Slots, CloseSession(s) PROVE SessionsInv'
  <2>1. PICK e : e = [sessions[s] EXCEPT !.state = "gone"]
    OBVIOUS
  <2>2. e \in SessionRecords /\ e.version = sessions[s].version /\ e.word = sessions[s].word
    BY <1>1, <2>1 DEF SessionRecords
  <2>3. sessions' = [sessions EXCEPT ![s] = e]
    BY <1>1, <1>4, <2>1 DEF CloseSession
  <2>4. sessions' \in [Slots -> SessionRecords] /\ \A q \in Slots : SessionTrue(sessions'[q])
    BY <1>1, <2>2, <2>3 DEF SessionTrue
  <2>5. SessionShape' /\ Unspent' /\ OnePresents' /\ SpentOnce' /\ Granted'
    BY <1>4, <2>4 DEF CloseSession, SessionsInv, SessionShape, Unspent, OnePresents, SpentOnce, Granted, Presented
  <2>6. Genuine'
    BY <1>4, <2>4 DEF CloseSession, SessionsInv, Genuine, Audited, SessionTrue, RequestTrue
  <2> QED BY <2>5, <2>6 DEF SessionsInv
<1>5. ASSUME NEW s \in Slots, NEW k \in Codes, Authorize(s, k) PROVE SessionsInv'
  <2>1. PICK g : g = [slot |-> s, version |-> account.version]
    OBVIOUS
  <2>2. g \in GrantRecords /\ g.slot = s
    BY <1>1, <2>1, SessionsAssumption DEF GrantRecords, AccountRecords, Slots
  <2>3. grants' = [grants EXCEPT ![k] = g] /\ tickets' = [tickets EXCEPT ![<<"code", k>>] = "live"]
    BY <1>5, <2>1 DEF Authorize
  <2>4. grants' \in [Codes -> GrantRecords] /\ grants'[k] = g /\ \A q \in Codes \ {k} : grants'[q] = grants[q]
    BY <1>1, <2>2, <2>3
  <2>5. \A q \in Codes : <<"code", q>> \in Tickets
    BY DEF Tickets
  <2>6. \A q \in Codes : tickets'[<<"code", q>>] # "unused" => grants'[q].slot \in Slots
    BY <1>1, <2>2, <2>3, <2>4, <2>5 DEF SessionsInv, Granted
  <2> QED BY <1>5, <2>3, <2>4, <2>5, <2>6, TicketsKeep DEF Authorize
<1>6. ASSUME NEW w \in Words, NEW on \in BOOLEAN, ChangeUser(w, on) PROVE SessionsInv'
  <2>1. PICK version, audits : version = account.version + 1 /\ audits = account.audits + 1
    OBVIOUS
  <2>2. version \in 1..MaxChanges /\ audits \in 0..MaxChanges
    BY <1>1, <1>6, <2>1, SessionsAssumption DEF AccountRecords, ChangeUser, SessionsInv, Genuine, Audited
  <2>3. account' = [word |-> w, enabled |-> on, version |-> version, audits |-> audits]
    BY <1>6, <2>1 DEF ChangeUser
  <2>4. account' \in AccountRecords /\ account'.version = account.version + 1 /\ account'.audits = account.audits + 1
    BY <2>1, <2>2, <2>3 DEF AccountRecords
  <2>5. account'.audits <= account.audits + 1
    BY <1>1, <2>4 DEF AccountRecords
  <2> QED BY <1>1, <1>6, <2>4, <2>5, AccountMoves DEF ChangeUser
<1> QED BY <1>2, <1>3, <1>4, <1>5, <1>6

\* So every step keeps it ...
LEMMA SessionsInvStep == SessionsInv /\ [SessionsNext]_sessionVars => SessionsInv'
<1> SUFFICES ASSUME SessionsInv, [SessionsNext]_sessionVars PROVE SessionsInv'
  OBVIOUS
<1>1. CASE UNCHANGED sessionVars
  BY <1>1 DEF sessionVars, SessionsInv, SessionShape, Unspent, OnePresents, SpentOnce, Granted, Genuine, Audited,
              SessionTrue, RequestTrue, Presented
<1> QED BY <1>1, LoginKeeps, ChangeKeeps, SignOnKeeps, SurroundingsKeep DEF SessionsNext

\* ... and it always holds.
LEMMA SessionsInvHolds == SessionsSpec => []SessionsInv
BY SessionsInvInit, SessionsInvStep, PTL DEF SessionsSpec

\* Whoever is admitted logged in with the password the account has now, and no captcha
\* or code serves twice (auth.py, langfuse_sso.py).
LEMMA SessionsAre == SessionsInv => SessionTypes /\ AdmittedByPassword /\ OneAttempt
<1> SUFFICES ASSUME SessionsInv PROVE SessionTypes /\ AdmittedByPassword /\ OneAttempt
  OBVIOUS
<1>1. \A s \in Slots : Admits(s) => sessions[s].word = account.word
  BY DEF SessionsInv, Genuine, SessionTrue, Admits
<1>2. ASSUME NEW k \in Codes, UserInfo(k) PROVE sessions[grants[k].slot].word = account.word
  <2>1. <<"code", k>> \in Tickets
    BY DEF Tickets
  <2>2. spent[<<"code", k>>] # 0
    BY <1>2, <2>1 DEF SessionsInv, SessionShape, UserInfo
  <2>3. grants[k].slot \in Slots
    BY <2>1, <2>2 DEF SessionsInv, SpentOnce, Granted
  <2> QED BY <1>1, <1>2, <2>3 DEF UserInfo
<1>3. AdmittedByPassword
  BY <1>1, <1>2 DEF AdmittedByPassword
<1>4. OneAttempt
  BY DEF SessionsInv, SpentOnce, OneAttempt
<1> QED BY <1>3, <1>4, SessionShapes DEF SessionsInv

\* A step that replaces the password is an administrator's, or knew the password.
LEMMA ReplacesKnown ==
  ASSUME SessionsInv, [SessionsNext]_sessionVars, account'.word # account.word
  PROVE  \/ account'.audits > account.audits
         \/ \E c \in Clients : At(c, "change") /\ work'[c] = Resting /\ work[c].old = account.word
<1>1. ASSUME NEW w \in Words, NEW on \in BOOLEAN, ChangeUser(w, on) PROVE account'.audits > account.audits
  <2>1. account.audits \in Nat /\ account'.audits = account.audits + 1
    BY <1>1 DEF ChangeUser, SessionsInv, SessionShape, AccountRecords
  <2> QED BY <2>1
<1>2. ASSUME NEW c \in Clients, CommitChange(c)
      PROVE  At(c, "change") /\ work'[c] = Resting /\ work[c].old = account.word
  BY <1>2 DEF CommitChange, Rest, At, Unchanged, SessionsInv, SessionShape, Genuine, RequestTrue
<1>3. CASE UNCHANGED account
  BY <1>3
<1> QED BY <1>1, <1>2, <1>3 DEF SessionsNext, sessionVars, Captcha, ExpireTicket, CloseSession, Authorize,
     Compare, SeeSession, SeeUser, Issue, Quit, Exchange, BeginLogin, OpenSession, BeginChange

\* A password is replaced only by an administrator or by a request that knew the very
\* password it replaces (auth.py, password).
THEOREM PasswordsAreReplacedKnowingly == SessionsSpec => ReplacedWasKnown
<1>1. SessionsInv /\ [SessionsNext]_sessionVars =>
        [account'.word # account.word =>
           \/ account'.audits > account.audits
           \/ \E c \in Clients : At(c, "change") /\ work'[c] = Resting /\ work[c].old = account.word]_sessionVars
  BY ReplacesKnown
<1> QED BY <1>1, SessionsInvHolds, PTL DEF SessionsSpec, ReplacedWasKnown

-----------------------------------------------------------------------------
(* Exports: attempts of a job are numbered, each is one renderer's, and its *)
(* lease is never renewed.  So a file that a sweep takes for abandoned is   *)
(* of an attempt that can no longer succeed, or of an export that expired.  *)

DeliveryRecords == [status : {"pending", "running"} \cup Over, fence : 0..MaxFences, job : 0..MaxExports, failures : 0..3]
CourierRecords == [step : {"idle", "ask", "told"}, fence : 0..MaxFences, job : 0..MaxExports,
                   failures : 0..2, late : BOOLEAN, answer : Results \cup {"none", "error"}]
ExportRecords == [key : Keys, status : Results, attempt : 0..2, leased : BOOLEAN,
                  asset : Assets \cup {None}, expired : BOOLEAN, purged : BOOLEAN]
FileStates == {"absent", "intent", "stored", "kept"}
RendererRecords == [step : {"idle", "render", "store", "commit", "undo", "keep"}, job : 0..MaxExports, attempt : 0..2]
SweepRecords == [step : {"idle", "asset", "job"}, asset : Assets \cup {None}, job : 0..MaxExports]

GatewayShape ==
  /\ delivery \in DeliveryRecords /\ leased \in BOOLEAN /\ overtime \in BOOLEAN
  /\ courier \in [Couriers -> CourierRecords]

BusinessShape ==
  /\ exports \in Seq(ExportRecords) /\ Len(exports) <= MaxExports
  /\ files \in [Assets -> FileStates] /\ aged \subseteq Assets
  /\ renderer \in [Renderers -> RendererRecords]
  /\ sweeper \in [Sweepers -> SweepRecords]

\* The shapes of the two sides are the types.
LEMMA ExportShapes == GatewayShape /\ BusinessShape => ExportTypes
BY DEF ExportTypes, GatewayShape, BusinessShape, DeliveryRecords, CourierRecords, ExportRecords, FileStates,
       RendererRecords, SweepRecords

KeysDiffer == \A i, j \in ExportJobs : exports[i].key = exports[j].key => i = j

\* The file of a success is that of its last attempt.
Won == \A j \in ExportJobs : IF exports[j].status = "succeeded" THEN exports[j].asset = <<j, exports[j].attempt>>
                             ELSE exports[j].asset = None

\* Files are of attempts that have been made, and old when their lease has run out.
Tracked ==
  \A j \in 1..MaxExports, n \in Attempts : files[<<j, n>>] # "absent" \/ <<j, n>> \in aged =>
    j \in ExportJobs /\ n <= exports[j].attempt /\ (<<j, n>> \in aged /\ n = exports[j].attempt => ~exports[j].leased)

\* A renderer's attempt may still succeed.
Live(r) == LET e == exports[renderer[r].job] IN e.attempt = renderer[r].attempt /\ e.leased /\ ~e.expired
AtWork == {"render", "store", "commit", "undo"}

Rendering ==
  \A r \in Renderers : renderer[r].step # "idle" =>
    /\ renderer[r].job \in ExportJobs
    /\ 1 <= renderer[r].attempt /\ renderer[r].attempt <= exports[renderer[r].job].attempt
    /\ renderer[r].step \in AtWork /\ renderer[r].attempt = exports[renderer[r].job].attempt
         => exports[renderer[r].job].status # "succeeded"
    /\ Live(r) => /\ renderer[r].step = "store" => files[Mine(r)] # "absent"
                  /\ renderer[r].step = "commit" => files[Mine(r)] \in {"stored", "kept"}

OwnAttempt ==
  \A q, r \in Renderers : q # r /\ renderer[q].step # "idle" /\ renderer[r].step # "idle"
    /\ renderer[q].job = renderer[r].job => renderer[q].attempt # renderer[r].attempt

\* What a sweep is about to remove is not what can be downloaded.
SweepsAbandoned ==
  \A s \in Sweepers :
    /\ sweeper[s].step = "asset" => \E j \in ExportJobs, n \in Attempts :
         /\ sweeper[s].asset = <<j, n>> /\ <<j, n>> \in aged
         /\ exports[j].asset = <<j, n>> => exports[j].expired
    /\ sweeper[s].step = "job" => sweeper[s].job \in ExportJobs /\ exports[sweeper[s].job].expired

BusinessInv ==
  BusinessShape /\ KeysDiffer /\ Won /\ Tracked /\ Rendering /\ OwnAttempt /\ SweepsAbandoned /\ DownloadKept

\* What couriers and the delivery know of the automatic export is so.
Delivered ==
  /\ delivery.job \in {0} \cup ExportJobs
  /\ delivery.status = "succeeded" => delivery.job \in ExportJobs /\ exports[delivery.job].status = "succeeded"
  /\ delivery.status \in Over => ~leased
  /\ delivery.status \notin Over => delivery.failures # 3

Told(to) ==
  /\ to.job \in {0} \cup ExportJobs
  /\ to.answer = "succeeded" => to.job \in ExportJobs /\ exports[to.job].status = "succeeded"

Known == Delivered /\ \A c \in Couriers : Told(courier[c])

DeliveryInv == GatewayShape /\ Known
ExportInv == BusinessInv /\ DeliveryInv

\* What is at rest is well-formed.
LEMMA ExportRest ==
  /\ RestingCourier \in CourierRecords /\ RestingCourier.job = 0 /\ RestingCourier.answer = "none"
  /\ RestingRenderer \in RendererRecords /\ RestingRenderer.step = "idle"
  /\ RestingSweeper \in SweepRecords /\ RestingSweeper.step = "idle"
BY ExportAssumption DEF RestingCourier, CourierRecords, RestingRenderer, RendererRecords, RestingSweeper, SweepRecords

\* Jobs are numbered from one.
LEMMA JobsAre ==
  ASSUME BusinessShape
  PROVE  /\ ExportJobs = 1..Len(exports) /\ Len(exports) \in Nat /\ ExportJobs \subseteq 1..MaxExports
         /\ \A j \in ExportJobs : exports[j] \in ExportRecords
<1>1. Len(exports) \in Nat /\ ExportJobs = 1..Len(exports)
  BY LenProperties DEF BusinessShape, ExportJobs
<1>2. \A j \in ExportJobs : exports[j] \in ExportRecords
  BY <1>1, ElementOfSeq DEF BusinessShape
<1>3. 1..Len(exports) \subseteq 1..MaxExports
  BY <1>1, ExportAssumption DEF BusinessShape
<1> QED BY <1>1, <1>2, <1>3

\* The invariant holds at the beginning.
LEMMA ExportInvInit == ExportInit => ExportInv
<1> SUFFICES ASSUME ExportInit PROVE ExportInv
  OBVIOUS
<1>1. 0 \in 0..MaxFences /\ 0 \in 0..MaxExports
  BY ExportAssumption
<1>2. exports = <<>> /\ Len(exports) = 0 /\ ExportJobs = {} /\ exports \in Seq(ExportRecords)
  BY DEF ExportInit, ExportJobs
<1>3. delivery \in DeliveryRecords /\ delivery.job = 0 /\ delivery.status = "pending" /\ delivery.failures = 0
  BY <1>1 DEF ExportInit, DeliveryRecords
<1>a. \A c \in Couriers : courier[c] = RestingCourier
  BY DEF ExportInit
<1>b. courier \in [Couriers -> CourierRecords] /\ leased = FALSE /\ overtime = FALSE
  BY ExportRest DEF ExportInit
<1>c. GatewayShape
  BY <1>3, <1>b DEF GatewayShape
<1>d. Known
  BY <1>3, <1>a, <1>b, ExportRest DEF Known, Delivered, Told, Over
<1>4. GatewayShape /\ Known
  BY <1>c, <1>d
<1>5. BusinessShape
  BY <1>2, ExportRest, ExportAssumption DEF ExportInit, BusinessShape, FileStates
<1>6. \A j \in 1..MaxExports, n \in Attempts : <<j, n>> \in Assets
  BY DEF Assets
<1>7. Tracked
  BY <1>6 DEF ExportInit, Tracked
<1>8. KeysDiffer /\ Won /\ DownloadKept /\ Rendering /\ OwnAttempt /\ SweepsAbandoned
  BY <1>2, ExportRest DEF ExportInit, KeysDiffer, Won, DownloadKept, Rendering, OwnAttempt, SweepsAbandoned
<1> QED BY <1>4, <1>5, <1>7, <1>8 DEF ExportInv, BusinessInv, DeliveryInv

-----------------------------------------------------------------------------
(* Steps that neither claim a job nor end one well *)

Calm ==
  /\ exports' \in Seq(ExportRecords) /\ Len(exports') = Len(exports)
  /\ \A j \in ExportJobs :
       /\ exports'[j].key = exports[j].key /\ exports'[j].attempt = exports[j].attempt
       /\ exports'[j].asset = exports[j].asset
       /\ exports'[j].leased => exports[j].leased
       /\ exports[j].expired => exports'[j].expired
       /\ exports'[j].status = "succeeded" <=> exports[j].status = "succeeded"

\* A row that keeps its key, attempt, file and success changes calmly ...
LEMMA CalmChange ==
  ASSUME BusinessInv, NEW j \in ExportJobs, NEW e \in ExportRecords, exports' = [exports EXCEPT ![j] = e],
         e.key = exports[j].key, e.attempt = exports[j].attempt, e.asset = exports[j].asset,
         e.leased => exports[j].leased, exports[j].expired => e.expired,
         e.status = "succeeded" <=> exports[j].status = "succeeded"
  PROVE  Calm
<1>1. exports \in Seq(ExportRecords) /\ ExportJobs = 1..Len(exports)
  BY JobsAre DEF BusinessInv, BusinessShape
<1>2. /\ exports' \in Seq(ExportRecords) /\ Len(exports') = Len(exports)
      /\ \A i \in ExportJobs : exports'[i] = IF i = j THEN e ELSE exports[i]
  BY <1>1, ExceptSeq
<1> QED BY <1>2 DEF Calm

\* ... and so does none.
LEMMA CalmSame ==
  ASSUME BusinessInv, UNCHANGED exports
  PROVE  Calm
BY DEF BusinessInv, BusinessShape, Calm

\* A calm step keeps what is said of rows.
LEMMA CalmKeeps ==
  ASSUME BusinessInv, Calm
  PROVE  /\ ExportJobs' = ExportJobs /\ KeysDiffer' /\ Won'
         /\ exports' \in Seq(ExportRecords) /\ Len(exports') <= MaxExports
<1>1. ExportJobs' = ExportJobs
  BY LenProperties DEF BusinessInv, BusinessShape, Calm, ExportJobs
<1>2. KeysDiffer' /\ Won'
  BY <1>1 DEF BusinessInv, KeysDiffer, Won, Calm
<1> QED BY <1>1, <1>2 DEF BusinessInv, BusinessShape, Calm

\* A step of a renderer with its own file.
LEMMA RendererCalm ==
  ASSUME BusinessInv, Calm, NEW r \in Renderers, NEW to \in RendererRecords, renderer' = [renderer EXCEPT ![r] = to],
         renderer[r].step # "idle",
         to.step # "idle" => to.job = renderer[r].job /\ to.attempt = renderer[r].attempt,
         to.step \in AtWork => renderer[r].step \in AtWork,
         NEW f \in FileStates, files' = [files EXCEPT ![Mine(r)] = f],
         renderer[r].step = "keep" => f \in {"stored", "kept"} \/ files[Mine(r)] \notin {"stored", "kept"},
         Live(r) => /\ to.step = "store" => f # "absent"
                    /\ to.step = "commit" => f \in {"stored", "kept"},
         UNCHANGED <<aged, sweeper>>
  PROVE  BusinessInv'
<1>1. PICK j, n : j = renderer[r].job /\ n = renderer[r].attempt
  OBVIOUS
<1>2. /\ j \in ExportJobs /\ j \in 1..MaxExports /\ 1 <= n /\ n <= exports[j].attempt /\ n \in Attempts
      /\ Mine(r) = <<j, n>> /\ <<j, n>> \in Assets
  <2>1. /\ j \in ExportJobs /\ j \in 1..MaxExports /\ 1 <= n /\ n <= exports[j].attempt
    BY <1>1, JobsAre DEF BusinessInv, Rendering
  <2>2. n \in 0..2
    BY <1>1 DEF BusinessInv, BusinessShape, RendererRecords
  <2> QED BY <1>1, <2>1, <2>2 DEF Attempts, Assets, Mine
<1>3. ExportJobs' = ExportJobs
  BY CalmKeeps
<1>4. /\ renderer' \in [Renderers -> RendererRecords] /\ renderer'[r] = to
      /\ \A q \in Renderers \ {r} : renderer'[q] = renderer[q]
  BY DEF BusinessInv, BusinessShape
<1>5. /\ files' \in [Assets -> FileStates] /\ files'[<<j, n>>] = f
      /\ \A a \in Assets \ {<<j, n>>} : files'[a] = files[a]
  BY <1>2 DEF BusinessInv, BusinessShape
<1>6. BusinessShape' /\ KeysDiffer' /\ Won'
  BY <1>4, <1>5, CalmKeeps DEF BusinessInv, BusinessShape
<1>7. Tracked'
  <2> SUFFICES ASSUME NEW i \in 1..MaxExports, NEW m \in Attempts, files'[<<i, m>>] # "absent" \/ <<i, m>> \in aged
               PROVE  /\ i \in ExportJobs /\ m <= exports'[i].attempt
                      /\ <<i, m>> \in aged /\ m = exports'[i].attempt => ~exports'[i].leased
    BY <1>3 DEF Tracked
  <2>1. <<i, m>> \in Assets
    BY DEF Assets
  <2>2. CASE <<i, m>> = <<j, n>> /\ <<i, m>> \notin aged
    BY <1>2, <2>2 DEF Calm
  <2>3. CASE <<i, m>> # <<j, n>> \/ <<i, m>> \in aged
    <3>1. files[<<i, m>>] # "absent" \/ <<i, m>> \in aged
      BY <1>5, <2>1, <2>3
    <3> QED BY <3>1 DEF BusinessInv, Tracked, Calm
  <2> QED BY <2>2, <2>3
<1>8. OwnAttempt'
  <2>1. \A q \in Renderers : renderer'[q].step # "idle" =>
          renderer[q].step # "idle" /\ renderer'[q].job = renderer[q].job /\ renderer'[q].attempt = renderer[q].attempt
    BY <1>4
  <2> QED BY <2>1 DEF BusinessInv, OwnAttempt
<1>9. Rendering'
  <2> SUFFICES ASSUME NEW q \in Renderers, renderer'[q].step # "idle"
               PROVE  /\ renderer'[q].job \in ExportJobs
                      /\ 1 <= renderer'[q].attempt /\ renderer'[q].attempt <= exports'[renderer'[q].job].attempt
                      /\ renderer'[q].step \in AtWork /\ renderer'[q].attempt = exports'[renderer'[q].job].attempt
                           => exports'[renderer'[q].job].status # "succeeded"
                      /\ Live(q)' => /\ renderer'[q].step = "store" => files'[Mine(q)'] # "absent"
                                     /\ renderer'[q].step = "commit" => files'[Mine(q)'] \in {"stored", "kept"}
    BY <1>3 DEF Rendering, Live, Mine
  <2>1. CASE q = r
    <3>1. renderer'[q].job = j /\ renderer'[q].attempt = n /\ Mine(q)' = <<j, n>> /\ (Live(q)' => Live(r))
      BY <1>1, <1>2, <1>4, <2>1 DEF Live, Mine, Calm
    <3>2. renderer[r].step \in AtWork /\ n = exports[j].attempt => exports[j].status # "succeeded"
      BY <1>1 DEF BusinessInv, Rendering, AtWork
    <3>3. exports'[j].attempt = exports[j].attempt /\ (exports'[j].status = "succeeded" <=> exports[j].status = "succeeded")
      BY <1>2 DEF Calm
    <3> QED BY <1>2, <1>4, <1>5, <2>1, <3>1, <3>2, <3>3
  <2>2. CASE q # r
    <3>1. renderer'[q] = renderer[q] /\ renderer[q].step # "idle" /\ Mine(q)' = Mine(q)
      BY <1>4, <2>2 DEF Mine
    <3>2. PICK i, m : i = renderer[q].job /\ m = renderer[q].attempt
      OBVIOUS
    <3>3. i \in ExportJobs /\ <<i, m>> # <<j, n>> /\ Mine(q) = <<i, m>>
      BY <1>1, <2>2, <3>1, <3>2 DEF BusinessInv, OwnAttempt, Rendering, Mine
    <3>4. <<i, m>> \in Assets
      BY <3>1, <3>2, JobsAre DEF BusinessInv, BusinessShape, Rendering, RendererRecords, Assets, Attempts
    <3>5. files'[<<i, m>>] = files[<<i, m>>]
      BY <1>5, <3>3, <3>4
    <3>6. Live(q)' => Live(q)
      BY <3>1, <3>2, <3>3 DEF Live, Calm
    <3>7. exports'[i].attempt = exports[i].attempt /\ (exports'[i].status = "succeeded" <=> exports[i].status = "succeeded")
      BY <3>3 DEF Calm
    <3> QED BY <3>1, <3>2, <3>3, <3>5, <3>6, <3>7 DEF BusinessInv, Rendering
  <2> QED BY <2>1, <2>2
<1>10. SweepsAbandoned'
  BY <1>3 DEF BusinessInv, SweepsAbandoned, Calm
<1>11. DownloadKept'
  <2> SUFFICES ASSUME NEW i \in ExportJobs, exports'[i].status = "succeeded", ~exports'[i].expired
               PROVE  files'[exports'[i].asset] \in {"stored", "kept"}
    BY <1>3 DEF DownloadKept
  <2>1. /\ exports[i].status = "succeeded" /\ ~exports[i].expired /\ exports'[i].asset = exports[i].asset
        /\ exports[i].asset = <<i, exports[i].attempt>> /\ files[exports[i].asset] \in {"stored", "kept"}
    BY DEF Calm, BusinessInv, Won, DownloadKept
  <2>2. exports[i].asset \in Assets
    BY <2>1, JobsAre DEF BusinessInv, ExportRecords, None, Assets
  <2>3. CASE exports[i].asset = <<j, n>>
    <3>1. i = j /\ exports[j].attempt = n
      BY <2>1, <2>3
    <3>2. renderer[r].step \notin AtWork
      BY <1>1, <2>1, <3>1 DEF BusinessInv, Rendering
    <3>3. renderer[r].step = "keep"
      BY <3>2 DEF BusinessInv, BusinessShape, RendererRecords, AtWork
    <3> QED BY <1>2, <1>5, <2>1, <2>3, <3>3
  <2>4. CASE exports[i].asset # <<j, n>>
    BY <1>5, <2>1, <2>2, <2>4
  <2> QED BY <2>3, <2>4
<1> QED BY <1>6, <1>7, <1>8, <1>9, <1>10, <1>11 DEF BusinessInv

\* Renderers that do not commit keep the invariant.
LEMMA RendererSteps ==
  ASSUME BusinessInv, NEW r \in Renderers,
         Render(r) \/ Store(r) \/ ExportFails(r) \/ Keep(r) \/ RendererDies(r)
  PROVE  BusinessInv' /\ Calm
<1>1. PICK j, n : j = renderer[r].job /\ n = renderer[r].attempt
  OBVIOUS
<1>2. /\ renderer[r].step # "idle" /\ renderer[r] \in RendererRecords /\ j \in ExportJobs
      /\ Mine(r) = <<j, n>> /\ <<j, n>> \in Assets /\ files[Mine(r)] \in FileStates
      /\ renderer \in [Renderers -> RendererRecords] /\ files \in [Assets -> FileStates]
  <2>1. renderer[r].step # "idle"
    BY DEF Render, Store, ExportFails, Keep, RendererDies
  <2>2. renderer[r] \in RendererRecords /\ renderer \in [Renderers -> RendererRecords] /\ files \in [Assets -> FileStates]
    BY DEF BusinessInv, BusinessShape
  <2>3. j \in ExportJobs /\ j \in 1..MaxExports /\ n \in Attempts
    BY <1>1, <2>1, <2>2, JobsAre DEF BusinessInv, Rendering, RendererRecords, Attempts
  <2>4. Mine(r) = <<j, n>> /\ <<j, n>> \in Assets
    BY <1>1, <2>3 DEF Mine, Assets
  <2> QED BY <2>1, <2>2, <2>3, <2>4
<1>3. exports[j] \in ExportRecords /\ files = [files EXCEPT ![Mine(r)] = files[Mine(r)]]
  BY <1>2, JobsAre DEF BusinessInv
<1>4. CASE Render(r)
  <2>1. PICK to : to = [renderer[r] EXCEPT !.step = "store"]
    OBVIOUS
  <2>2. to \in RendererRecords /\ to.step = "store" /\ to.job = renderer[r].job /\ to.attempt = renderer[r].attempt
    BY <1>2, <2>1 DEF RendererRecords
  <2>3. renderer' = [renderer EXCEPT ![r] = to]
    BY <1>2, <1>4, <2>1 DEF Render
  <2> QED BY <1>2, <1>4, <2>2, <2>3, CalmSame, RendererCalm DEF Render, FileStates, AtWork
<1>5. CASE Store(r)
  <2>1. PICK to : to = [renderer[r] EXCEPT !.step = "commit"]
    OBVIOUS
  <2>2. to \in RendererRecords /\ to.step = "commit" /\ to.job = renderer[r].job /\ to.attempt = renderer[r].attempt
    BY <1>2, <2>1 DEF RendererRecords
  <2>3. renderer' = [renderer EXCEPT ![r] = to]
    BY <1>2, <1>5, <2>1 DEF Store
  <2>4. PICK f : f = IF files[Mine(r)] = "intent" THEN "stored" ELSE files[Mine(r)]
    OBVIOUS
  <2>5. f \in FileStates /\ files' = [files EXCEPT ![Mine(r)] = f]
    BY <1>2, <1>5, <2>4 DEF Store, FileStates
  <2>6. Live(r) => f \in {"stored", "kept"}
    BY <1>2, <1>5, <2>4 DEF BusinessInv, Rendering, Store, FileStates
  <2>7. renderer[r].step = "store" /\ Calm /\ UNCHANGED <<aged, sweeper>>
    BY <1>5, CalmSame DEF Store
  <2>8. renderer[r].step \in AtWork
    BY <2>7 DEF AtWork
  <2> QED BY <2>2, <2>3, <2>5, <2>6, <2>7, <2>8, RendererCalm
<1>6. CASE ExportFails(r)
  <2>1. PICK e : e = [exports[j] EXCEPT !.status = "failed"]
    OBVIOUS
  <2>2. exports' = exports \/ (exports' = [exports EXCEPT ![j] = e] /\ exports[j].status = "running")
    BY <1>1, <1>2, <1>3, <1>6, <2>1 DEF ExportFails, Current
  <2>3. /\ e \in ExportRecords /\ e.status = "failed" /\ e.key = exports[j].key /\ e.attempt = exports[j].attempt
        /\ e.asset = exports[j].asset /\ e.leased = exports[j].leased /\ e.expired = exports[j].expired
    BY <1>3, <2>1 DEF ExportRecords, Results
  <2>4. Calm
    BY <1>2, <2>2, <2>3, CalmSame, CalmChange
  <2>5. PICK f : f = IF renderer[r].step \in {"commit", "undo"} THEN "absent" ELSE files[Mine(r)]
    OBVIOUS
  <2>6. f \in FileStates /\ files' = [files EXCEPT ![Mine(r)] = f]
    BY <1>2, <1>3, <1>6, <2>5 DEF ExportFails, FileStates
  <2> QED BY <1>2, <1>6, <2>4, <2>6, ExportRest, RendererCalm DEF ExportFails, AtWork
<1>7. CASE Keep(r)
  <2>1. PICK f : f = IF files[Mine(r)] = "absent" THEN files[Mine(r)] ELSE "kept"
    OBVIOUS
  <2>2. f \in FileStates /\ files' = [files EXCEPT ![Mine(r)] = f]
    BY <1>2, <1>7, <2>1 DEF Keep, FileStates
  <2>3. f \in {"stored", "kept"} \/ files[Mine(r)] \notin {"stored", "kept"}
    BY <2>1
  <2> QED BY <1>2, <1>7, <2>2, <2>3, ExportRest, CalmSame, RendererCalm DEF Keep, AtWork
<1>8. CASE RendererDies(r)
  <2>1. files' = [files EXCEPT ![Mine(r)] = files[Mine(r)]]
    BY <1>3, <1>8 DEF RendererDies
  <2>2. files[Mine(r)] \in {"stored", "kept"} \/ files[Mine(r)] \notin {"stored", "kept"}
    OBVIOUS
  <2> QED BY <1>2, <1>8, <2>1, <2>2, ExportRest, CalmSame, RendererCalm DEF RendererDies, AtWork
<1> QED BY <1>4, <1>5, <1>6, <1>7, <1>8

\* So does a commit that finds its job taken over.
LEMMA FailedCommit ==
  ASSUME BusinessInv, NEW r \in Renderers, CommitExport(r), UNCHANGED exports,
         renderer' = [renderer EXCEPT ![r].step = "undo"]
  PROVE  BusinessInv'
<1>1. /\ renderer[r].step = "commit" /\ renderer[r] \in RendererRecords /\ renderer \in [Renderers -> RendererRecords]
      /\ files' = [files EXCEPT ![Mine(r)] = files[Mine(r)]] /\ UNCHANGED <<aged, sweeper>>
  BY DEF CommitExport, BusinessInv, BusinessShape
<1>2. Mine(r) \in Assets
  <2>1. renderer[r].job \in 1..MaxExports /\ renderer[r].attempt \in Attempts
    BY <1>1, JobsAre DEF BusinessInv, Rendering, RendererRecords, Attempts
  <2> QED BY <2>1 DEF Mine, Assets
<1>3. files[Mine(r)] \in FileStates
  BY <1>2 DEF BusinessInv, BusinessShape
<1>4. PICK to : to = [renderer[r] EXCEPT !.step = "undo"]
  OBVIOUS
<1>5. to \in RendererRecords /\ to.step = "undo" /\ to.job = renderer[r].job /\ to.attempt = renderer[r].attempt
  BY <1>1, <1>4 DEF RendererRecords
<1>6. renderer' = [renderer EXCEPT ![r] = to]
  BY <1>1, <1>4
<1> QED BY <1>1, <1>3, <1>5, <1>6, CalmSame, RendererCalm DEF AtWork

\* A step of a sweep or of time: files go that are of an expired export, or old and not of a success.
LEMMA SurroundingCalm ==
  ASSUME BusinessInv, Calm, UNCHANGED renderer, files' \in [Assets -> FileStates], aged' \subseteq Assets,
         sweeper' \in [Sweepers -> SweepRecords], aged \subseteq aged', SweepsAbandoned',
         \A j \in 1..MaxExports, n \in Attempts :
           /\ files'[<<j, n>>] # "absent" => files[<<j, n>>] # "absent"
           /\ <<j, n>> \in aged' \ aged => files[<<j, n>>] # "absent" /\ (exports[j].attempt = n => ~exports[j].leased),
         \A j \in ExportJobs, n \in Attempts :
           \/ files'[<<j, n>>] = files[<<j, n>>] \/ files'[<<j, n>>] = "kept"
           \/ exports'[j].expired
           \/ <<j, n>> \in aged /\ exports[j].asset # <<j, n>>
  PROVE  BusinessInv'
<1>1. ExportJobs' = ExportJobs /\ KeysDiffer' /\ Won' /\ BusinessShape'
  BY CalmKeeps DEF BusinessInv, BusinessShape
<1>2. Tracked'
  <2> SUFFICES ASSUME NEW j \in 1..MaxExports, NEW n \in Attempts, files'[<<j, n>>] # "absent" \/ <<j, n>> \in aged'
               PROVE  /\ j \in ExportJobs /\ n <= exports'[j].attempt
                      /\ <<j, n>> \in aged' /\ n = exports'[j].attempt => ~exports'[j].leased
    BY <1>1 DEF Tracked
  <2>1. files[<<j, n>>] # "absent" \/ <<j, n>> \in aged
    OBVIOUS
  <2>2. j \in ExportJobs /\ n <= exports[j].attempt
    BY <2>1 DEF BusinessInv, Tracked
  <2>3. exports'[j].attempt = exports[j].attempt /\ (exports'[j].leased => exports[j].leased)
    BY <2>2 DEF Calm
  <2>4. <<j, n>> \in aged' /\ n = exports[j].attempt => ~exports[j].leased
    BY DEF BusinessInv, Tracked
  <2> QED BY <2>2, <2>3, <2>4
<1>3. OwnAttempt'
  BY DEF BusinessInv, OwnAttempt
<1>4. Rendering'
  <2> SUFFICES ASSUME NEW r \in Renderers, renderer[r].step # "idle"
               PROVE  /\ renderer[r].job \in ExportJobs
                      /\ 1 <= renderer[r].attempt /\ renderer[r].attempt <= exports'[renderer[r].job].attempt
                      /\ renderer[r].step \in AtWork /\ renderer[r].attempt = exports'[renderer[r].job].attempt
                           => exports'[renderer[r].job].status # "succeeded"
                      /\ Live(r)' => /\ renderer[r].step = "store" => files'[Mine(r)] # "absent"
                                     /\ renderer[r].step = "commit" => files'[Mine(r)] \in {"stored", "kept"}
    BY <1>1 DEF Rendering, Live, Mine
  <2>1. PICK j, n : j = renderer[r].job /\ n = renderer[r].attempt
    OBVIOUS
  <2>2. j \in ExportJobs /\ 1 <= n /\ n <= exports[j].attempt /\ n \in Attempts /\ Mine(r) = <<j, n>> /\ j \in 1..MaxExports
    <3>1. n \in 0..2
      BY <2>1 DEF BusinessInv, BusinessShape, RendererRecords
    <3>2. j \in ExportJobs /\ 1 <= n /\ n <= exports[j].attempt
      BY <2>1 DEF BusinessInv, Rendering
    <3>3. j \in 1..MaxExports
      BY <3>2, JobsAre DEF BusinessInv
    <3> QED BY <2>1, <3>1, <3>2, <3>3 DEF Attempts, Mine
  <2>3. /\ exports'[j].attempt = exports[j].attempt /\ (exports'[j].status = "succeeded" <=> exports[j].status = "succeeded")
        /\ exports'[j].leased => exports[j].leased
    BY <2>2 DEF Calm
  <2>4. renderer[r].step \in AtWork /\ n = exports[j].attempt => exports[j].status # "succeeded"
    BY <2>1 DEF BusinessInv, Rendering
  <2>5. ASSUME Live(r)' PROVE files'[<<j, n>>] = files[<<j, n>>] \/ files'[<<j, n>>] = "kept"
    <3>1. exports[j].attempt = n /\ exports[j].leased /\ ~exports'[j].expired
      BY <2>1, <2>3, <2>5 DEF Live
    <3>2. <<j, n>> \notin aged
      BY <2>2, <3>1 DEF BusinessInv, Tracked
    <3> QED BY <2>2, <3>1, <3>2
  <2>6. Live(r)' => Live(r)
    BY <2>1, <2>2 DEF Live, Calm
  <2>7. Live(r) => /\ renderer[r].step = "store" => files[<<j, n>>] # "absent"
                   /\ renderer[r].step = "commit" => files[<<j, n>>] \in {"stored", "kept"}
    BY <2>2 DEF BusinessInv, Rendering
  <2> QED BY <2>1, <2>2, <2>3, <2>4, <2>5, <2>6, <2>7
<1>5. DownloadKept'
  <2> SUFFICES ASSUME NEW j \in ExportJobs, exports'[j].status = "succeeded", ~exports'[j].expired
               PROVE  files'[exports'[j].asset] \in {"stored", "kept"}
    BY <1>1 DEF DownloadKept
  <2>1. /\ exports[j].status = "succeeded" /\ ~exports[j].expired /\ exports'[j].asset = exports[j].asset
        /\ exports[j].asset = <<j, exports[j].attempt>> /\ files[exports[j].asset] \in {"stored", "kept"}
        /\ exports[j].asset \in Assets \cup {None} /\ j \in 1..MaxExports
    BY JobsAre DEF Calm, BusinessInv, Won, DownloadKept, ExportRecords
  <2>2. exports[j].attempt \in Attempts
    BY <2>1 DEF None, Assets
  <2> QED BY <2>1, <2>2
<1> QED BY <1>1, <1>2, <1>3, <1>4, <1>5 DEF BusinessInv

\* What a sweep holds stays abandoned when no file becomes a download and nothing is restored ...
LEMMA SweepsSame ==
  ASSUME BusinessInv, ExportJobs' = ExportJobs, aged \subseteq aged', UNCHANGED sweeper,
         \A j \in ExportJobs : exports'[j].asset = exports[j].asset /\ (exports[j].expired => exports'[j].expired)
  PROVE  SweepsAbandoned'
<1> SUFFICES ASSUME NEW q \in Sweepers
             PROVE  /\ sweeper[q].step = "asset" => \E j \in ExportJobs, n \in Attempts :
                         /\ sweeper[q].asset = <<j, n>> /\ <<j, n>> \in aged'
                         /\ exports'[j].asset = <<j, n>> => exports'[j].expired
                    /\ sweeper[q].step = "job" => sweeper[q].job \in ExportJobs /\ exports'[sweeper[q].job].expired
  BY DEF SweepsAbandoned
<1>1. /\ sweeper[q].step = "asset" => \E j \in ExportJobs, n \in Attempts :
           /\ sweeper[q].asset = <<j, n>> /\ <<j, n>> \in aged
           /\ exports[j].asset = <<j, n>> => exports[j].expired
      /\ sweeper[q].step = "job" => sweeper[q].job \in ExportJobs /\ exports[sweeper[q].job].expired
  BY Zenon DEF BusinessInv, SweepsAbandoned
<1>2. ASSUME sweeper[q].step = "asset"
      PROVE  \E j \in ExportJobs, n \in Attempts :
               /\ sweeper[q].asset = <<j, n>> /\ <<j, n>> \in aged'
               /\ exports'[j].asset = <<j, n>> => exports'[j].expired
  <2>1. PICK j \in ExportJobs, n \in Attempts :
          sweeper[q].asset = <<j, n>> /\ <<j, n>> \in aged /\ (exports[j].asset = <<j, n>> => exports[j].expired)
    BY <1>1, <1>2
  <2>2. <<j, n>> \in aged' /\ (exports'[j].asset = <<j, n>> => exports'[j].expired)
    BY <2>1
  <2> QED BY <2>1, <2>2
<1>3. sweeper[q].step = "job" => sweeper[q].job \in ExportJobs /\ exports'[sweeper[q].job].expired
  BY <1>1
<1> QED BY <1>2, <1>3

\* ... and so does what it picks now.
LEMMA SweepsStay ==
  ASSUME BusinessInv, Calm, aged \subseteq aged', NEW s \in Sweepers, NEW to \in SweepRecords,
         sweeper' = [sweeper EXCEPT ![s] = to] \/ sweeper' = sweeper,
         to.step = "asset" => \E j \in ExportJobs, n \in Attempts :
           to.asset = <<j, n>> /\ <<j, n>> \in aged /\ (exports[j].asset = <<j, n>> => exports[j].expired),
         to.step = "job" => to.job \in ExportJobs /\ exports[to.job].expired
  PROVE  SweepsAbandoned' /\ sweeper' \in [Sweepers -> SweepRecords]
<1>1. sweeper \in [Sweepers -> SweepRecords] /\ ExportJobs' = ExportJobs
  BY CalmKeeps DEF BusinessInv, BusinessShape
<1>2. sweeper' \in [Sweepers -> SweepRecords] /\ \A q \in Sweepers : sweeper'[q] = to \/ sweeper'[q] = sweeper[q]
  BY <1>1
<1>3. ASSUME NEW q \in Sweepers
      PROVE  /\ sweeper'[q].step = "asset" => \E j \in ExportJobs, n \in Attempts :
                  /\ sweeper'[q].asset = <<j, n>> /\ <<j, n>> \in aged
                  /\ exports[j].asset = <<j, n>> => exports[j].expired
             /\ sweeper'[q].step = "job" => sweeper'[q].job \in ExportJobs /\ exports[sweeper'[q].job].expired
  <2>1. CASE sweeper'[q] = to
    BY <2>1
  <2>2. CASE sweeper'[q] = sweeper[q]
    <3>1. /\ sweeper[q].step = "asset" => \E j \in ExportJobs, n \in Attempts :
               /\ sweeper[q].asset = <<j, n>> /\ <<j, n>> \in aged
               /\ exports[j].asset = <<j, n>> => exports[j].expired
          /\ sweeper[q].step = "job" => sweeper[q].job \in ExportJobs /\ exports[sweeper[q].job].expired
      BY Zenon DEF BusinessInv, SweepsAbandoned
    <3> QED BY <2>2, <3>1, Zenon
  <2> QED BY <1>2, <2>1, <2>2, Zenon
<1>4. \A j \in ExportJobs : exports'[j].asset = exports[j].asset /\ (exports[j].expired => exports'[j].expired)
  BY DEF Calm
<1>5. SweepsAbandoned'
  <2> SUFFICES ASSUME NEW q \in Sweepers
               PROVE  /\ sweeper'[q].step = "asset" => \E j \in ExportJobs, n \in Attempts :
                           /\ sweeper'[q].asset = <<j, n>> /\ <<j, n>> \in aged'
                           /\ exports'[j].asset = <<j, n>> => exports'[j].expired
                      /\ sweeper'[q].step = "job" => sweeper'[q].job \in ExportJobs /\ exports'[sweeper'[q].job].expired
    BY <1>1 DEF SweepsAbandoned
  <2>1. ASSUME sweeper'[q].step = "asset"
        PROVE  \E j \in ExportJobs, n \in Attempts :
                 /\ sweeper'[q].asset = <<j, n>> /\ <<j, n>> \in aged'
                 /\ exports'[j].asset = <<j, n>> => exports'[j].expired
    <3>1. PICK j \in ExportJobs, n \in Attempts :
            /\ sweeper'[q].asset = <<j, n>> /\ <<j, n>> \in aged
            /\ exports[j].asset = <<j, n>> => exports[j].expired
      BY <1>3, <2>1
    <3>2. <<j, n>> \in aged' /\ (exports'[j].asset = <<j, n>> => exports'[j].expired)
      BY <1>4, <3>1
    <3> QED BY <3>1, <3>2
  <2> QED BY <1>3, <1>4, <2>1
<1> QED BY <1>2, <1>5

\* A sweep keeps the invariant: what it removes is old and of no use to any attempt.
LEMMA SweepKeeps ==
  ASSUME BusinessInv, NEW s \in Sweepers, Sweep(s)
  PROVE  BusinessInv' /\ Calm
<1>1. /\ sweeper \in [Sweepers -> SweepRecords] /\ sweeper[s] \in SweepRecords
      /\ files \in [Assets -> FileStates] /\ aged \subseteq Assets
  BY DEF BusinessInv, BusinessShape
<1>2. \A j \in 1..MaxExports, n \in Attempts : <<j, n>> \in Assets
  BY DEF Assets
<1>3. \A j \in ExportJobs, n \in Attempts : <<j, n>> \in Assets /\ j \in 1..MaxExports
  BY <1>2, JobsAre DEF BusinessInv
<1>4. ASSUME NEW a \in Assets, SweepLook(s, a) PROVE BusinessInv' /\ Calm
  <2>1. PICK j \in 1..MaxExports, n \in Attempts : a = <<j, n>>
    BY DEF Assets
  <2>2. /\ a \in aged /\ files[a] \in {"intent", "stored"} /\ UNCHANGED <<exports, aged, renderer>>
        /\ sweeper[s].step = "idle" /\ Calm /\ j \in ExportJobs /\ a[1] = j
    BY <1>4, <2>1, CalmSame DEF SweepLook, BusinessInv, Tracked
  <2>3. CASE files' = [files EXCEPT ![a] = "kept"] /\ UNCHANGED sweeper
    <3>1. SweepsAbandoned' /\ sweeper' \in [Sweepers -> SweepRecords]
      BY <1>1, <2>2, <2>3, SweepsStay
    <3>2. /\ files' \in [Assets -> FileStates]
          /\ \A b \in Assets : (b # a => files'[b] = files[b]) /\ (b = a => files'[b] = "kept")
      BY <1>1, <2>3 DEF FileStates
    <3> QED BY <1>1, <1>2, <1>3, <2>2, <3>1, <3>2, SurroundingCalm
  <2>4. CASE /\ Abandoned(a) /\ UNCHANGED files
             /\ sweeper' = [sweeper EXCEPT ![s] = [step |-> "asset", asset |-> a, job |-> 0]]
    <3>1. PICK to : to = [step |-> "asset", asset |-> a, job |-> 0]
      OBVIOUS
    <3>2. to \in SweepRecords /\ to.step = "asset" /\ to.asset = a
      BY <3>1, ExportAssumption DEF SweepRecords
    <3>3. exports[j].asset = a => exports[j].expired
      BY <2>2, <2>4 DEF Abandoned
    <3>4. SweepsAbandoned' /\ sweeper' \in [Sweepers -> SweepRecords]
      BY <2>1, <2>2, <2>4, <3>1, <3>2, <3>3, SweepsStay
    <3> QED BY <1>1, <2>2, <2>4, <3>4, SurroundingCalm
  <2> QED BY <1>4, <2>3, <2>4 DEF SweepLook
<1>5. CASE SweepAsset(s)
  <2>1. PICK j \in ExportJobs, n \in Attempts :
          sweeper[s].asset = <<j, n>> /\ <<j, n>> \in aged /\ (exports[j].asset = <<j, n>> => exports[j].expired)
    BY <1>5 DEF SweepAsset, BusinessInv, SweepsAbandoned
  <2>2. UNCHANGED <<exports, aged, renderer>> /\ Calm /\ sweeper' = [sweeper EXCEPT ![s] = RestingSweeper]
    BY <1>5, CalmSame DEF SweepAsset
  <2>3. /\ files' \in [Assets -> FileStates]
        /\ \A b \in Assets : (b # <<j, n>> => files'[b] = files[b]) /\ (b = <<j, n>> => files'[b] = "absent")
    BY <1>1, <1>3, <1>5, <2>1 DEF FileStates, SweepAsset
  <2>4. SweepsAbandoned' /\ sweeper' \in [Sweepers -> SweepRecords]
    BY <2>2, ExportRest, SweepsStay
  <2>5. \A i \in ExportJobs, m \in Attempts :
           \/ files'[<<i, m>>] = files[<<i, m>>]
           \/ exports'[i].expired
           \/ <<i, m>> \in aged /\ exports[i].asset # <<i, m>>
    <3> SUFFICES ASSUME NEW i \in ExportJobs, NEW m \in Attempts, files'[<<i, m>>] # files[<<i, m>>]
                 PROVE  exports'[i].expired \/ (<<i, m>> \in aged /\ exports[i].asset # <<i, m>>)
      OBVIOUS
    <3>1. <<i, m>> = <<j, n>>
      BY <1>3, <2>3
    <3>2. i = j /\ m = n
      BY <3>1
    <3> QED BY <2>1, <2>2, <3>2
  <2>6. \A i \in 1..MaxExports, m \in Attempts : files'[<<i, m>>] # "absent" => files[<<i, m>>] # "absent"
    BY <1>2, <2>3
  <2> QED BY <1>1, <2>2, <2>3, <2>4, <2>5, <2>6, SurroundingCalm
<1>6. ASSUME NEW j \in ExportJobs, SweepExpired(s, j) PROVE BusinessInv' /\ Calm
  <2>1. UNCHANGED <<exports, aged, renderer>> /\ Calm /\ exports[j].expired /\ exports'[j].expired
    BY <1>6, CalmSame DEF SweepExpired
  <2>2. PICK to : to = [step |-> "job", asset |-> None, job |-> j]
    OBVIOUS
  <2>3. to \in SweepRecords /\ to.step = "job" /\ to.job = j
    BY <2>2, <1>3, JobsAre, ExportAssumption DEF SweepRecords, BusinessInv
  <2>4. sweeper' = [sweeper EXCEPT ![s] = to]
    BY <1>6, <2>2 DEF SweepExpired
  <2>5. SweepsAbandoned' /\ sweeper' \in [Sweepers -> SweepRecords]
    BY <2>1, <2>3, <2>4, SweepsStay
  <2>6. files' = [a \in Assets |-> IF a[1] = j THEN "absent" ELSE files[a]]
    BY <1>6 DEF SweepExpired
  <2>7. files' \in [Assets -> FileStates]
    BY <1>1, <2>6 DEF FileStates
  <2>8. \A i \in 1..MaxExports, m \in Attempts : files'[<<i, m>>] = IF i = j THEN "absent" ELSE files[<<i, m>>]
    BY <1>2, <2>6
  <2>9. \A i \in ExportJobs, m \in Attempts : files'[<<i, m>>] = files[<<i, m>>] \/ exports'[i].expired
    BY <1>3, <2>1, <2>8
  <2>10. \A i \in 1..MaxExports, m \in Attempts : files'[<<i, m>>] # "absent" => files[<<i, m>>] # "absent"
    BY <2>8
  <2> QED BY <1>1, <2>1, <2>5, <2>7, <2>9, <2>10, SurroundingCalm
<1>7. CASE SweepMark(s)
  <2>1. PICK j : j = sweeper[s].job
    OBVIOUS
  <2>2. j \in ExportJobs /\ exports[j] \in ExportRecords
    BY <1>7, <2>1, JobsAre DEF SweepMark, BusinessInv, SweepsAbandoned
  <2>3. PICK e : e = [exports[j] EXCEPT !.purged = TRUE]
    OBVIOUS
  <2>4. /\ e \in ExportRecords /\ e.status = exports[j].status /\ e.key = exports[j].key /\ e.attempt = exports[j].attempt
        /\ e.asset = exports[j].asset /\ e.leased = exports[j].leased /\ e.expired = exports[j].expired
    BY <2>2, <2>3 DEF ExportRecords
  <2>5. exports \in Seq(ExportRecords) /\ ExportJobs = 1..Len(exports)
    BY JobsAre DEF BusinessInv, BusinessShape
  <2>6. exports' = [exports EXCEPT ![j] = e]
    BY <1>7, <2>1, <2>2, <2>3, <2>5 DEF SweepMark
  <2>7. Calm
    BY <2>2, <2>4, <2>6, CalmChange
  <2>8. UNCHANGED <<files, aged, renderer>> /\ sweeper' = [sweeper EXCEPT ![s] = RestingSweeper]
    BY <1>7 DEF SweepMark
  <2>9. SweepsAbandoned' /\ sweeper' \in [Sweepers -> SweepRecords]
    BY <2>7, <2>8, ExportRest, SweepsStay
  <2> QED BY <1>1, <2>7, <2>8, <2>9, SurroundingCalm
<1> QED BY <1>4, <1>5, <1>6, <1>7 DEF Sweep

\* Time, and a job given up.
LEMMA ExportsAge ==
  ASSUME BusinessInv, ExportTime \/ \E j \in ExportJobs : GiveUpExport(j)
  PROVE  BusinessInv' /\ Calm
<1>1. /\ sweeper \in [Sweepers -> SweepRecords] /\ files \in [Assets -> FileStates] /\ aged \subseteq Assets
      /\ exports \in Seq(ExportRecords) /\ ExportJobs = 1..Len(exports)
      /\ \A j \in ExportJobs : exports[j] \in ExportRecords
  BY JobsAre DEF BusinessInv, BusinessShape
<1>2. ASSUME Calm, UNCHANGED <<files, renderer, aged, sweeper>> PROVE BusinessInv'
  <2>1. SweepsAbandoned'
    BY <1>2, CalmKeeps, SweepsSame DEF Calm
  <2> QED BY <1>1, <1>2, <2>1, SurroundingCalm
<1>3. ASSUME NEW j \in ExportJobs, GiveUpExport(j) PROVE BusinessInv' /\ Calm
  <2>1. PICK e : e = [exports[j] EXCEPT !.status = "failed"]
    OBVIOUS
  <2>2. /\ e \in ExportRecords /\ e.status = "failed" /\ e.key = exports[j].key /\ e.attempt = exports[j].attempt
        /\ e.asset = exports[j].asset /\ e.leased = exports[j].leased /\ e.expired = exports[j].expired
    BY <1>1, <2>1 DEF ExportRecords, Results
  <2>3. exports' = [exports EXCEPT ![j] = e] /\ exports[j].status = "running"
    BY <1>1, <1>3, <2>1 DEF GiveUpExport, Lapsed
  <2>4. Calm
    BY <2>2, <2>3, CalmChange
  <2> QED BY <1>2, <1>3, <2>4 DEF GiveUpExport
<1>4. ASSUME NEW j \in ExportJobs, exports' = [exports EXCEPT ![j].leased = FALSE], UNCHANGED <<files, renderer, aged, sweeper>>
      PROVE  BusinessInv' /\ Calm
  <2>1. PICK e : e = [exports[j] EXCEPT !.leased = FALSE]
    OBVIOUS
  <2>2. /\ e \in ExportRecords /\ e.status = exports[j].status /\ e.key = exports[j].key /\ e.attempt = exports[j].attempt
        /\ e.asset = exports[j].asset /\ e.leased = FALSE /\ e.expired = exports[j].expired
    BY <1>1, <2>1 DEF ExportRecords
  <2>3. exports' = [exports EXCEPT ![j] = e]
    BY <1>1, <1>4, <2>1
  <2> QED BY <1>2, <1>4, <2>2, <2>3, CalmChange
<1>5. ASSUME NEW j \in ExportJobs, exports' = [exports EXCEPT ![j].expired = TRUE], UNCHANGED <<files, renderer, aged, sweeper>>
      PROVE  BusinessInv' /\ Calm
  <2>1. PICK e : e = [exports[j] EXCEPT !.expired = TRUE]
    OBVIOUS
  <2>2. /\ e \in ExportRecords /\ e.status = exports[j].status /\ e.key = exports[j].key /\ e.attempt = exports[j].attempt
        /\ e.asset = exports[j].asset /\ e.leased = exports[j].leased /\ e.expired = TRUE
    BY <1>1, <2>1 DEF ExportRecords
  <2>3. exports' = [exports EXCEPT ![j] = e]
    BY <1>1, <1>5, <2>1
  <2> QED BY <1>2, <1>5, <2>2, <2>3, CalmChange
<1>6. ASSUME NEW a \in Assets, files[a] # "absent", exports[a[1]].attempt = a[2] => ~exports[a[1]].leased,
             aged' = aged \cup {a}, UNCHANGED <<exports, files, renderer, sweeper>>
      PROVE  BusinessInv' /\ Calm
  <2>1. PICK j \in 1..MaxExports, n \in Attempts : a = <<j, n>>
    BY DEF Assets
  <2>2. Calm /\ aged \subseteq aged' /\ aged' \subseteq Assets
    BY <1>1, <1>6, CalmSame
  <2>3. SweepsAbandoned'
    BY <1>6, <2>2, CalmKeeps, SweepsSame DEF Calm
  <2>4. \A i \in 1..MaxExports, m \in Attempts :
          <<i, m>> \in aged' \ aged => files[<<i, m>>] # "absent" /\ (exports[i].attempt = m => ~exports[i].leased)
    <3> SUFFICES ASSUME NEW i \in 1..MaxExports, NEW m \in Attempts, <<i, m>> \in aged' \ aged
                 PROVE  files[<<i, m>>] # "absent" /\ (exports[i].attempt = m => ~exports[i].leased)
      OBVIOUS
    <3>1. <<i, m>> = <<j, n>>
      BY <1>6, <2>1
    <3>2. i = j /\ m = n /\ a[1] = j /\ a[2] = n
      BY <2>1, <3>1
    <3> QED BY <1>6, <2>1, <3>2
  <2> QED BY <1>1, <1>6, <2>2, <2>3, <2>4, SurroundingCalm
<1> QED BY <1>3, <1>4, <1>5, <1>6 DEF ExportTime

-----------------------------------------------------------------------------
(* Claims, successes and new jobs *)

\* A claim keeps the invariant: the new attempt has no file yet, and is one nobody else works on.
LEMMA ClaimExportKeeps ==
  ASSUME BusinessInv, NEW r \in Renderers, NEW j \in ExportJobs, ClaimExport(r, j)
  PROVE  BusinessInv'
<1>1. /\ renderer \in [Renderers -> RendererRecords] /\ exports[j] \in ExportRecords /\ j \in 1..MaxExports
      /\ exports \in Seq(ExportRecords) /\ ExportJobs = 1..Len(exports) /\ \A i \in ExportJobs : exports[i] \in ExportRecords
  BY JobsAre DEF BusinessInv, BusinessShape
<1>2. PICK n : n = exports[j].attempt + 1
  OBVIOUS
<1>3. n \in Attempts /\ n \in 0..2 /\ exports[j].attempt \in Nat /\ exports[j].attempt < n /\ 1 <= n
      /\ exports[j].status # "succeeded"
  BY <1>1, <1>2 DEF ClaimExport, Another, Lapsed, ExportRecords, Attempts
<1>4. PICK e : e = [exports[j] EXCEPT !.status = "running", !.leased = TRUE, !.attempt = n]
  OBVIOUS
<1>5. /\ e \in ExportRecords /\ e.status = "running" /\ e.key = exports[j].key /\ e.attempt = n
      /\ e.asset = exports[j].asset /\ e.expired = exports[j].expired
  BY <1>1, <1>3, <1>4 DEF ExportRecords, Results
<1>6. exports' = [exports EXCEPT ![j] = e]
  <2>1. [exports[j] EXCEPT !.status = "running", !.leased = TRUE, !.attempt = @ + 1] = e
    BY <1>1, <1>2, <1>4 DEF ExportRecords
  <2>2. exports' = [exports EXCEPT ![j] = [exports[j] EXCEPT !.status = "running", !.leased = TRUE, !.attempt = @ + 1]]
    BY <1>1 DEF ClaimExport
  <2> QED BY <2>1, <2>2
<1>7. /\ exports' \in Seq(ExportRecords) /\ Len(exports') = Len(exports)
      /\ \A i \in ExportJobs : exports'[i] = IF i = j THEN e ELSE exports[i]
  BY <1>1, <1>5, <1>6, ExceptSeq
<1>8. ExportJobs' = ExportJobs
  BY <1>1, <1>7, LenProperties DEF ExportJobs
<1>9. PICK to : to = [step |-> "render", job |-> j, attempt |-> n]
  OBVIOUS
<1>10. to \in RendererRecords /\ to.step = "render" /\ to.job = j /\ to.attempt = n
  <2>1. j \in 0..MaxExports
    BY <1>1, ExportAssumption
  <2> QED BY <1>3, <1>9, <2>1 DEF RendererRecords
<1>11. /\ renderer' = [renderer EXCEPT ![r] = to] /\ UNCHANGED <<files, aged, sweeper>> /\ renderer[r].step = "idle"
  BY <1>2, <1>9 DEF ClaimExport
<1>12. /\ renderer' \in [Renderers -> RendererRecords] /\ renderer'[r] = to
       /\ \A q \in Renderers \ {r} : renderer'[q] = renderer[q]
  BY <1>1, <1>10, <1>11
<1>13. BusinessShape'
  BY <1>7, <1>11, <1>12 DEF BusinessInv, BusinessShape
<1>14. KeysDiffer' /\ Won' /\ DownloadKept'
  <2>1. KeysDiffer'
    BY <1>5, <1>7, <1>8 DEF BusinessInv, KeysDiffer
  <2>2. Won'
    BY <1>3, <1>5, <1>7, <1>8 DEF BusinessInv, Won
  <2>3. DownloadKept'
    BY <1>5, <1>7, <1>8, <1>11 DEF BusinessInv, DownloadKept
  <2> QED BY <2>1, <2>2, <2>3
<1>15. Tracked'
  <2> SUFFICES ASSUME NEW i \in 1..MaxExports, NEW m \in Attempts, files[<<i, m>>] # "absent" \/ <<i, m>> \in aged
               PROVE  /\ i \in ExportJobs /\ m <= exports'[i].attempt
                      /\ <<i, m>> \in aged /\ m = exports'[i].attempt => ~exports'[i].leased
    BY <1>8, <1>11 DEF Tracked
  <2>1. i \in ExportJobs /\ m <= exports[i].attempt /\ (<<i, m>> \in aged /\ m = exports[i].attempt => ~exports[i].leased)
    BY DEF BusinessInv, Tracked
  <2>2. CASE i = j
    <3>1. m < n /\ exports'[i].attempt = n
      BY <1>3, <1>5, <1>7, <2>1, <2>2 DEF Attempts
    <3> QED BY <1>3, <2>1, <3>1 DEF Attempts
  <2>3. CASE i # j
    BY <1>7, <2>1, <2>3
  <2> QED BY <2>2, <2>3
<1>16. \A q \in Renderers \ {r} : renderer[q].step # "idle" /\ renderer[q].job = j => renderer[q].attempt < n
  <2> SUFFICES ASSUME NEW q \in Renderers \ {r}, renderer[q].step # "idle", renderer[q].job = j
               PROVE  renderer[q].attempt < n
    OBVIOUS
  <2>1. renderer[q].attempt \in Nat /\ renderer[q].attempt <= exports[j].attempt
    BY <1>1 DEF BusinessInv, Rendering, RendererRecords
  <2> QED BY <1>3, <2>1 DEF Attempts
<1>17. OwnAttempt'
  <2> SUFFICES ASSUME NEW p \in Renderers, NEW q \in Renderers, p # q, renderer'[p].step # "idle",
                      renderer'[q].step # "idle", renderer'[p].job = renderer'[q].job
               PROVE  renderer'[p].attempt # renderer'[q].attempt
    BY DEF OwnAttempt
  <2>1. CASE p # r /\ q # r
    BY <1>12, <2>1 DEF BusinessInv, OwnAttempt
  <2>2. CASE p = r
    <3>a. renderer'[q] = renderer[q] /\ renderer'[p].attempt = n /\ renderer'[p].job = j
      BY <1>10, <1>12, <2>2
    <3>1. renderer[q].attempt < n /\ renderer[q].attempt \in Nat /\ renderer'[q] = renderer[q] /\ renderer'[p].attempt = n
      BY <1>1, <1>16, <2>2, <3>a DEF RendererRecords
    <3> QED BY <1>3, <3>1 DEF Attempts
  <2>3. CASE q = r
    <3>1. renderer[p].attempt < n /\ renderer[p].attempt \in Nat /\ renderer'[p] = renderer[p] /\ renderer'[q].attempt = n
      BY <1>1, <1>10, <1>12, <1>16, <2>3 DEF RendererRecords
    <3> QED BY <1>3, <3>1 DEF Attempts
  <2> QED BY <2>1, <2>2, <2>3
<1>18. Rendering'
  <2> SUFFICES ASSUME NEW q \in Renderers, renderer'[q].step # "idle"
               PROVE  /\ renderer'[q].job \in ExportJobs
                      /\ 1 <= renderer'[q].attempt /\ renderer'[q].attempt <= exports'[renderer'[q].job].attempt
                      /\ renderer'[q].step \in AtWork /\ renderer'[q].attempt = exports'[renderer'[q].job].attempt
                           => exports'[renderer'[q].job].status # "succeeded"
                      /\ Live(q)' => /\ renderer'[q].step = "store" => files[Mine(q)'] # "absent"
                                     /\ renderer'[q].step = "commit" => files[Mine(q)'] \in {"stored", "kept"}
    BY <1>8, <1>11 DEF Rendering, Live, Mine
  <2>1. CASE q = r
    <3>1. renderer'[q] = to /\ exports'[j] = e
      BY <1>7, <1>12, <2>1
    <3> QED BY <1>3, <1>5, <1>10, <3>1
  <2>2. CASE q # r
    <3>1. renderer'[q] = renderer[q] /\ Mine(q)' = Mine(q)
      BY <1>12, <2>2 DEF Mine
    <3>2. PICK i, m : i = renderer[q].job /\ m = renderer[q].attempt
      OBVIOUS
    <3>3. /\ i \in ExportJobs /\ 1 <= m /\ m <= exports[i].attempt
          /\ renderer[q].step \in AtWork /\ m = exports[i].attempt => exports[i].status # "succeeded"
          /\ Live(q) => /\ renderer[q].step = "store" => files[Mine(q)] # "absent"
                        /\ renderer[q].step = "commit" => files[Mine(q)] \in {"stored", "kept"}
      BY <3>1, <3>2 DEF BusinessInv, Rendering
    <3>4. CASE i = j
      <4>a. m \in Nat
        BY <1>1, <3>2 DEF RendererRecords
      <4>b. exports'[i].attempt = n
        BY <1>5, <1>7, <3>4
      <4>c. renderer[q].step # "idle" /\ q \in Renderers \ {r}
        BY <2>2, <3>1
      <4>d. m < n
        BY <1>16, <3>2, <3>4, <4>c
      <4>1. m < n /\ m \in Nat /\ exports'[i].attempt = n
        BY <4>a, <4>b, <4>d
      <4>2. m # n /\ m <= n
        BY <1>3, <4>1 DEF Attempts
      <4>3. ~Live(q)'
        BY <3>1, <3>2, <4>1, <4>2 DEF Live
      <4> QED BY <3>1, <3>2, <3>3, <4>1, <4>2, <4>3
    <3>5. CASE i # j
      <4>1. exports'[i] = exports[i] /\ (Live(q)' => Live(q))
        BY <1>7, <3>1, <3>2, <3>3, <3>5 DEF Live
      <4> QED BY <3>1, <3>2, <3>3, <4>1
    <3> QED BY <3>4, <3>5
  <2> QED BY <2>1, <2>2
<1>19. SweepsAbandoned'
  <2>1. \A i \in ExportJobs : exports'[i].asset = exports[i].asset /\ exports'[i].expired = exports[i].expired
    BY <1>5, <1>7
  <2> QED BY <1>8, <1>11, <2>1, SweepsSame
<1> QED BY <1>13, <1>14, <1>15, <1>17, <1>18, <1>19 DEF BusinessInv

\* A step of the gateway by itself leaves the business service alone.
LEMMA BusinessStutters ==
  ASSUME BusinessInv, UNCHANGED <<exports, files, aged, renderer, sweeper>>
  PROVE  BusinessInv'
<1>1. SweepsAbandoned'
  BY SweepsSame DEF ExportJobs
<1>2. BusinessShape' /\ KeysDiffer' /\ Won' /\ DownloadKept'
  BY DEF BusinessInv, BusinessShape, ExportJobs, KeysDiffer, Won, DownloadKept
<1>3. Tracked' /\ OwnAttempt'
  BY DEF BusinessInv, ExportJobs, Tracked, OwnAttempt
<1>4. Rendering'
  BY DEF BusinessInv, ExportJobs, Rendering, Live, Mine
<1> QED BY <1>1, <1>2, <1>3, <1>4 DEF BusinessInv

\* A commit keeps the invariant: the attempt that wins is the live one, and its file is there.
LEMMA CommitKeeps ==
  ASSUME BusinessInv, NEW r \in Renderers, CommitExport(r)
  PROVE  /\ BusinessInv' /\ ExportJobs' = ExportJobs
         /\ \A j \in ExportJobs : exports[j].status = "succeeded" => exports'[j].status = "succeeded"
<1>1. CASE UNCHANGED exports /\ renderer' = [renderer EXCEPT ![r].step = "undo"]
  BY <1>1, FailedCommit DEF ExportJobs
<1>2. CASE ~(UNCHANGED exports /\ renderer' = [renderer EXCEPT ![r].step = "undo"])
  <2>1. PICK j, n : j = renderer[r].job /\ n = renderer[r].attempt
    OBVIOUS
  <2>2. /\ renderer[r] \in RendererRecords /\ renderer \in [Renderers -> RendererRecords] /\ j \in ExportJobs
        /\ exports[j] \in ExportRecords /\ exports \in Seq(ExportRecords) /\ ExportJobs = 1..Len(exports)
        /\ j \in 1..MaxExports /\ renderer[r].step = "commit"
    <3>1. renderer[r].step = "commit"
      BY DEF CommitExport
    <3>2. /\ renderer[r] \in RendererRecords /\ renderer \in [Renderers -> RendererRecords] /\ exports \in Seq(ExportRecords)
          /\ ExportJobs = 1..Len(exports)
      BY JobsAre DEF BusinessInv, BusinessShape
    <3>3. j \in ExportJobs
      BY <2>1, <3>1 DEF BusinessInv, Rendering
    <3> QED BY <3>1, <3>2, <3>3, JobsAre DEF BusinessInv
  <2>3. /\ exports[j].status = "running" /\ exports[j].attempt = n /\ exports[j].leased /\ ~exports[j].expired
        /\ exports' = [exports EXCEPT ![j].status = "succeeded", ![j].asset = <<j, n>>]
        /\ renderer' = [renderer EXCEPT ![r].step = "keep"] /\ UNCHANGED <<files, aged, sweeper>>
    BY <1>2, <2>1 DEF CommitExport, Current, Mine
  <2>4. /\ 1 <= n /\ n \in Attempts /\ <<j, n>> \in Assets /\ files[<<j, n>>] \in {"stored", "kept"}
    <3>1. Live(r) /\ Mine(r) = <<j, n>>
      BY <2>1, <2>3 DEF Live, Mine
    <3>2. 1 <= n /\ files[<<j, n>>] \in {"stored", "kept"}
      BY <2>1, <2>2, <3>1 DEF BusinessInv, Rendering
    <3>3. n \in 0..2
      BY <2>1, <2>2 DEF RendererRecords
    <3>4. n \in Attempts
      BY <3>2, <3>3 DEF Attempts
    <3> QED BY <2>2, <3>2, <3>4 DEF Assets
  <2>5. PICK e : e = [exports[j] EXCEPT !.status = "succeeded", !.asset = <<j, n>>]
    OBVIOUS
  <2>6. PICK asset : asset = <<j, n>>
    OBVIOUS
  <2>7. /\ e \in ExportRecords /\ e.status = "succeeded" /\ e.key = exports[j].key /\ e.attempt = n /\ e.asset = asset
        /\ e.leased = exports[j].leased /\ e.expired = exports[j].expired
    <3>1. asset \in Assets \cup {None} /\ e = [exports[j] EXCEPT !.status = "succeeded", !.asset = asset]
      BY <2>4, <2>5, <2>6
    <3> QED BY <2>2, <2>3, <3>1 DEF ExportRecords, Results
  <2>8. exports' = [exports EXCEPT ![j] = e]
    BY <2>2, <2>3, <2>5
  <2>9. /\ exports' \in Seq(ExportRecords) /\ Len(exports') = Len(exports)
        /\ \A i \in ExportJobs : exports'[i] = IF i = j THEN e ELSE exports[i]
    BY <2>2, <2>7, <2>8, ExceptSeq
  <2>10. ExportJobs' = ExportJobs
    BY <2>2, <2>9, LenProperties DEF ExportJobs
  <2>11. PICK to : to = [renderer[r] EXCEPT !.step = "keep"]
    OBVIOUS
  <2>12. to \in RendererRecords /\ to.step = "keep" /\ to.job = j /\ to.attempt = n
    BY <2>1, <2>2, <2>11 DEF RendererRecords
  <2>13. /\ renderer' \in [Renderers -> RendererRecords] /\ renderer'[r] = to
         /\ \A q \in Renderers \ {r} : renderer'[q] = renderer[q]
    BY <2>2, <2>3, <2>11, <2>12
  <2>14. BusinessShape'
    BY <2>3, <2>9, <2>13 DEF BusinessInv, BusinessShape
  <2>15. KeysDiffer'
    BY <2>7, <2>9, <2>10 DEF BusinessInv, KeysDiffer
  <2>16. Won'
    BY <2>6, <2>7, <2>9, <2>10 DEF BusinessInv, Won
  <2>17. Tracked'
    BY <2>3, <2>7, <2>9, <2>10 DEF BusinessInv, Tracked
  <2>18. OwnAttempt'
    <3>1. \A q \in Renderers : renderer'[q].step # "idle" =>
            renderer[q].step # "idle" /\ renderer'[q].job = renderer[q].job /\ renderer'[q].attempt = renderer[q].attempt
      BY <2>1, <2>2, <2>12, <2>13
    <3> QED BY <3>1 DEF BusinessInv, OwnAttempt
  <2>19. Rendering'
    <3> SUFFICES ASSUME NEW q \in Renderers, renderer'[q].step # "idle"
                 PROVE  /\ renderer'[q].job \in ExportJobs
                        /\ 1 <= renderer'[q].attempt /\ renderer'[q].attempt <= exports'[renderer'[q].job].attempt
                        /\ renderer'[q].step \in AtWork /\ renderer'[q].attempt = exports'[renderer'[q].job].attempt
                             => exports'[renderer'[q].job].status # "succeeded"
                        /\ Live(q)' => /\ renderer'[q].step = "store" => files[Mine(q)'] # "absent"
                                       /\ renderer'[q].step = "commit" => files[Mine(q)'] \in {"stored", "kept"}
      BY <2>3, <2>10 DEF Rendering, Live, Mine
    <3>1. CASE q = r
      <4>1. renderer'[q] = to /\ exports'[j] = e /\ n <= n
        BY <2>2, <2>4, <2>9, <2>13, <3>1 DEF Attempts
      <4>2. "keep" \notin AtWork
        BY DEF AtWork
      <4> QED BY <2>2, <2>4, <2>7, <2>12, <4>1, <4>2
    <3>2. CASE q # r
      <4>1. renderer'[q] = renderer[q] /\ Mine(q)' = Mine(q) /\ renderer[q].step # "idle"
        BY <2>13, <3>2 DEF Mine
      <4>2. PICK i, m : i = renderer[q].job /\ m = renderer[q].attempt
        OBVIOUS
      <4>3. /\ i \in ExportJobs /\ 1 <= m /\ m <= exports[i].attempt
            /\ renderer[q].step \in AtWork /\ m = exports[i].attempt => exports[i].status # "succeeded"
            /\ Live(q) => /\ renderer[q].step = "store" => files[Mine(q)] # "absent"
                          /\ renderer[q].step = "commit" => files[Mine(q)] \in {"stored", "kept"}
        BY <4>1, <4>2 DEF BusinessInv, Rendering
      <4>4. exports'[i].attempt = exports[i].attempt /\ exports'[i].leased = exports[i].leased
            /\ exports'[i].expired = exports[i].expired
        BY <2>3, <2>7, <2>9, <4>3
      <4>5. Live(q)' => Live(q)
        BY <4>1, <4>2, <4>4 DEF Live
      <4>6. i = j => m # n
        BY <2>1, <2>2, <3>2, <4>1, <4>2 DEF BusinessInv, OwnAttempt
      <4>7. m = exports'[i].attempt /\ renderer[q].step \in AtWork => exports'[i].status # "succeeded"
        BY <2>3, <2>9, <4>3, <4>4, <4>6
      <4> QED BY <4>1, <4>2, <4>3, <4>4, <4>5, <4>7
    <3> QED BY <3>1, <3>2
  <2>20. SweepsAbandoned'
    <3> SUFFICES ASSUME NEW q \in Sweepers
                 PROVE  /\ sweeper[q].step = "asset" => \E i \in ExportJobs, m \in Attempts :
                             /\ sweeper[q].asset = <<i, m>> /\ <<i, m>> \in aged
                             /\ exports'[i].asset = <<i, m>> => exports'[i].expired
                        /\ sweeper[q].step = "job" => sweeper[q].job \in ExportJobs /\ exports'[sweeper[q].job].expired
      BY <2>3, <2>10 DEF SweepsAbandoned
    <3>1. /\ sweeper[q].step = "asset" => \E i \in ExportJobs, m \in Attempts :
               /\ sweeper[q].asset = <<i, m>> /\ <<i, m>> \in aged
               /\ exports[i].asset = <<i, m>> => exports[i].expired
          /\ sweeper[q].step = "job" => sweeper[q].job \in ExportJobs /\ exports[sweeper[q].job].expired
      BY Zenon DEF BusinessInv, SweepsAbandoned
    <3>2. ASSUME sweeper[q].step = "asset"
          PROVE  \E i \in ExportJobs, m \in Attempts :
                   /\ sweeper[q].asset = <<i, m>> /\ <<i, m>> \in aged
                   /\ exports'[i].asset = <<i, m>> => exports'[i].expired
      <4>1. PICK i \in ExportJobs, m \in Attempts :
              sweeper[q].asset = <<i, m>> /\ <<i, m>> \in aged /\ (exports[i].asset = <<i, m>> => exports[i].expired)
        BY <3>1, <3>2
      <4>2. <<j, n>> \notin aged
        BY <2>2, <2>3, <2>4 DEF BusinessInv, Tracked
      <4>3. exports'[i].asset = <<i, m>> => exports'[i].expired
        BY <2>6, <2>7, <2>9, <4>1, <4>2
      <4> QED BY <4>1, <4>3
    <3>3. sweeper[q].step = "job" => sweeper[q].job \in ExportJobs /\ exports'[sweeper[q].job].expired
      BY <2>7, <2>9, <3>1
    <3> QED BY <3>2, <3>3
  <2>21. DownloadKept'
    <3> SUFFICES ASSUME NEW i \in ExportJobs, exports'[i].status = "succeeded", ~exports'[i].expired
                 PROVE  files[exports'[i].asset] \in {"stored", "kept"}
      BY <2>3, <2>10 DEF DownloadKept
    <3>1. CASE i = j
      BY <2>4, <2>6, <2>7, <2>9, <3>1
    <3>2. CASE i # j
      BY <2>9, <3>2 DEF BusinessInv, DownloadKept
    <3> QED BY <3>1, <3>2
  <2>22. \A i \in ExportJobs : exports[i].status = "succeeded" => exports'[i].status = "succeeded"
    BY <2>7, <2>9
  <2> QED BY <2>10, <2>14, <2>15, <2>16, <2>17, <2>18, <2>19, <2>20, <2>21, <2>22 DEF BusinessInv
<1> QED BY <1>1, <1>2

\* A request for an export that is not there yet adds a job with its key, one that is finds it.
LEMMA EnterKeeps ==
  ASSUME BusinessInv, NEW k \in Keys, Enter(k), UNCHANGED <<files, aged, renderer, sweeper>>
  PROVE  /\ BusinessInv' /\ ExportJobs \subseteq ExportJobs'
         /\ \A j \in ExportJobs : exports'[j] = exports[j]
         /\ \E j \in ExportJobs' : exports'[j].key = k
<1>1. CASE UNCHANGED exports
  <2>1. BusinessInv'
    BY <1>1, BusinessStutters
  <2>2. \E j \in ExportJobs' : exports'[j].key = k
    BY <1>1 DEF Enter, Keyed, ExportJobs
  <2> QED BY <1>1, <2>1, <2>2 DEF ExportJobs
<1>2. CASE ~UNCHANGED exports
  <2>1. PICK e : e = [key |-> k, status |-> "queued", attempt |-> 0, leased |-> FALSE,
                      asset |-> None, expired |-> FALSE, purged |-> FALSE]
    OBVIOUS
  <2>2. /\ Len(exports) < MaxExports /\ exports' = Append(exports, e)
        /\ \A j \in ExportJobs : exports[j].key # k
    BY <1>2, <2>1 DEF Enter, Keyed
  <2>3. e \in ExportRecords /\ e.key = k /\ e.status = "queued" /\ e.asset = None /\ ~e.leased
    BY <2>1 DEF ExportRecords, Results
  <2>4. /\ exports \in Seq(ExportRecords) /\ ExportJobs = 1..Len(exports) /\ Len(exports) \in Nat
        /\ ExportJobs \subseteq 1..MaxExports
    BY JobsAre DEF BusinessInv, BusinessShape
  <2>5. PICK n : n = Len(exports) + 1
    OBVIOUS
  <2>6. /\ exports' \in Seq(ExportRecords) /\ Len(exports') = n /\ exports'[n] = e
        /\ \A j \in ExportJobs : exports'[j] = exports[j]
    BY <2>2, <2>3, <2>4, <2>5, AppendProperties
  <2>7. ExportJobs' = ExportJobs \cup {n} /\ n \notin ExportJobs /\ n <= MaxExports
    <3>1. ExportJobs' = 1..n
      BY <2>6, LenProperties DEF ExportJobs
    <3> QED BY <2>2, <2>4, <2>5, <3>1, ExportAssumption
  <2>8. BusinessShape'
    BY <2>6, <2>7 DEF BusinessInv, BusinessShape
  <2>9. KeysDiffer'
    <3> SUFFICES ASSUME NEW i \in ExportJobs', NEW j \in ExportJobs', exports'[i].key = exports'[j].key PROVE i = j
      BY DEF KeysDiffer
    <3>1. CASE i \in ExportJobs /\ j \in ExportJobs
      BY <2>6, <3>1 DEF BusinessInv, KeysDiffer
    <3>2. CASE i = n \/ j = n
      BY <2>2, <2>3, <2>6, <2>7, <3>2
    <3> QED BY <2>7, <3>1, <3>2
  <2>10. Won' /\ DownloadKept'
    BY <2>3, <2>6, <2>7 DEF BusinessInv, Won, DownloadKept
  <2>11. Tracked'
    BY <2>6, <2>7 DEF BusinessInv, Tracked
  <2>12. OwnAttempt'
    BY DEF BusinessInv, OwnAttempt
  <2>13. Rendering'
    <3>1. \A r \in Renderers : renderer[r].step # "idle" => renderer[r].job \in ExportJobs
      BY DEF BusinessInv, Rendering
    <3> QED BY <2>6, <2>7, <3>1 DEF BusinessInv, Rendering, Live, Mine
  <2>14. SweepsAbandoned'
    <3> SUFFICES ASSUME NEW q \in Sweepers
                 PROVE  /\ sweeper[q].step = "asset" => \E i \in ExportJobs', m \in Attempts :
                             /\ sweeper[q].asset = <<i, m>> /\ <<i, m>> \in aged
                             /\ exports'[i].asset = <<i, m>> => exports'[i].expired
                        /\ sweeper[q].step = "job" => sweeper[q].job \in ExportJobs' /\ exports'[sweeper[q].job].expired
      BY DEF SweepsAbandoned
    <3>1. /\ sweeper[q].step = "asset" => \E i \in ExportJobs, m \in Attempts :
               /\ sweeper[q].asset = <<i, m>> /\ <<i, m>> \in aged
               /\ exports[i].asset = <<i, m>> => exports[i].expired
          /\ sweeper[q].step = "job" => sweeper[q].job \in ExportJobs /\ exports[sweeper[q].job].expired
      BY Zenon DEF BusinessInv, SweepsAbandoned
    <3>2. ASSUME sweeper[q].step = "asset"
          PROVE  \E i \in ExportJobs', m \in Attempts :
                   /\ sweeper[q].asset = <<i, m>> /\ <<i, m>> \in aged
                   /\ exports'[i].asset = <<i, m>> => exports'[i].expired
      <4>1. PICK i \in ExportJobs, m \in Attempts :
              sweeper[q].asset = <<i, m>> /\ <<i, m>> \in aged /\ (exports[i].asset = <<i, m>> => exports[i].expired)
        BY <3>1, <3>2
      <4>2. i \in ExportJobs' /\ exports'[i] = exports[i]
        BY <2>6, <2>7, <4>1
      <4> QED BY <4>1, <4>2
    <3>3. sweeper[q].step = "job" => sweeper[q].job \in ExportJobs' /\ exports'[sweeper[q].job].expired
      BY <2>6, <2>7, <3>1
    <3> QED BY <3>2, <3>3
  <2> QED BY <2>3, <2>6, <2>7, <2>8, <2>9, <2>10, <2>11, <2>12, <2>13, <2>14 DEF BusinessInv
<1> QED BY <1>1, <1>2

-----------------------------------------------------------------------------
(* The gateway *)

\* Jobs stay, and successes with them.
Growing ==
  /\ ExportJobs \subseteq ExportJobs'
  /\ \A j \in ExportJobs : exports[j].status = "succeeded" => exports'[j].status = "succeeded"

\* Jobs and successes stay when no row changes ...
LEMMA SameGrows == UNCHANGED exports => Growing
BY DEF Growing, ExportJobs

\* ... or when rows change calmly ...
LEMMA CalmGrows ==
  ASSUME BusinessInv, Calm
  PROVE  Growing
BY CalmKeeps DEF Growing, Calm

\* ... and then what the gateway knows stays true.
LEMMA DeliveryUnmoved ==
  ASSUME DeliveryInv, Growing, UNCHANGED gatewayVars
  PROVE  DeliveryInv'
<1>1. GatewayShape'
  BY DEF DeliveryInv, GatewayShape, gatewayVars
<1>2. Delivered'
  BY DEF DeliveryInv, Known, Delivered, Growing, gatewayVars
<1>3. \A c \in Couriers : Told(courier[c])'
  BY DEF DeliveryInv, Known, Told, Growing, gatewayVars
<1> QED BY <1>1, <1>2, <1>3 DEF DeliveryInv, Known

\* A courier that has been told the truth keeps what is said of the gateway.
LEMMA CourierMoves ==
  ASSUME DeliveryInv, Growing, NEW c \in Couriers, NEW to \in CourierRecords, courier' = [courier EXCEPT ![c] = to],
         to.job \in {0} \cup ExportJobs',
         to.answer = "succeeded" => to.job \in ExportJobs' /\ exports'[to.job].status = "succeeded",
         delivery' \in DeliveryRecords, leased' \in BOOLEAN, overtime' \in BOOLEAN, Delivered'
  PROVE  DeliveryInv'
<1>1. courier' \in [Couriers -> CourierRecords] /\ \A d \in Couriers : courier'[d] = IF d = c THEN to ELSE courier[d]
  BY DEF DeliveryInv, GatewayShape
<1>2. GatewayShape'
  BY <1>1 DEF GatewayShape
<1>3. \A d \in Couriers : Told(courier[d])
  BY DEF DeliveryInv, Known
<1>4. \A d \in Couriers : Told(courier[d])'
  BY <1>1, <1>3 DEF Told, Growing
<1> QED BY <1>2, <1>4 DEF DeliveryInv, Known

\* A delivery that is over is not written to any more.
LEMMA RecordKeeps ==
  ASSUME DeliveryInv, NEW c \in Couriers, RecordDelivery(c)
  PROVE  DeliveryInv' /\ (delivery.status \in Over => delivery' = delivery)
<1>1. /\ delivery \in DeliveryRecords /\ leased \in BOOLEAN /\ overtime \in BOOLEAN
      /\ courier[c] \in CourierRecords /\ Delivered /\ Told(courier[c]) /\ Growing
      /\ UNCHANGED <<exports, overtime>> /\ courier' = [courier EXCEPT ![c] = RestingCourier]
  BY SameGrows DEF DeliveryInv, GatewayShape, Known, RecordDelivery
<1>2. CASE ~Holds(c)
  <2>1. UNCHANGED <<delivery, leased>>
    BY <1>2 DEF RecordDelivery
  <2>2. Delivered'
    BY <1>1, <2>1 DEF Delivered, ExportJobs
  <2> QED BY <1>1, <2>1, <2>2, ExportRest, CourierMoves
<1>3. CASE Holds(c) /\ courier[c].answer = "error"
  <2>1. delivery.status \notin Over /\ leased' = FALSE
    BY <1>1, <1>3 DEF Holds, Delivered, RecordDelivery
  <2>2. PICK state \in {"failed"} \cup (IF courier[c].late \/ courier[c].failures = 2 THEN {} ELSE {delivery.status}) :
          delivery' = [delivery EXCEPT !.failures = courier[c].failures + 1, !.status = state]
    BY <1>3 DEF RecordDelivery
  <2>3. PICK failures : failures = courier[c].failures + 1
    OBVIOUS
  <2>4. failures \in 0..3 /\ (state \notin Over => failures # 3) /\ state \in {"pending", "running", "failed"}
    BY <1>1, <2>1, <2>2, <2>3 DEF CourierRecords, DeliveryRecords, Over
  <2>5. delivery' = [delivery EXCEPT !.failures = failures, !.status = state]
    BY <2>2, <2>3
  <2>6. /\ delivery' \in DeliveryRecords /\ delivery'.status = state /\ delivery'.failures = failures
        /\ delivery'.job = delivery.job
    BY <1>1, <2>4, <2>5 DEF DeliveryRecords, Over
  <2>7. Delivered'
    BY <1>1, <2>1, <2>4, <2>6 DEF Delivered, ExportJobs
  <2> QED BY <1>1, <2>1, <2>6, <2>7, ExportRest, CourierMoves
<1>4. CASE Holds(c) /\ courier[c].answer # "error"
  <2>1. delivery.status \notin Over /\ leased' = FALSE
    BY <1>1, <1>4 DEF Holds, Delivered, RecordDelivery
  <2>2. PICK state : state = IF courier[c].answer \in Over THEN courier[c].answer ELSE "running"
    OBVIOUS
  <2>3. delivery' = [delivery EXCEPT !.failures = 0, !.job = courier[c].job, !.status = state]
    BY <1>4, <2>2 DEF RecordDelivery
  <2>4. state \in {"running"} \cup Over /\ (state = "succeeded" => courier[c].answer = "succeeded")
    BY <2>2 DEF Over
  <2>a. PICK job : job = courier[c].job
    OBVIOUS
  <2>b. job \in 0..MaxExports /\ 0 \in 0..3 /\ state \in {"pending", "running"} \cup Over
    BY <1>1, <2>4, <2>a DEF CourierRecords
  <2>c. delivery' = [delivery EXCEPT !.failures = 0, !.job = job, !.status = state]
    BY <2>3, <2>a
  <2>5. /\ delivery' \in DeliveryRecords /\ delivery'.status = state /\ delivery'.failures = 0
        /\ delivery'.job = courier[c].job
    BY <1>1, <2>a, <2>b, <2>c DEF DeliveryRecords
  <2>6. Delivered'
    BY <1>1, <2>1, <2>4, <2>5 DEF Delivered, Told, ExportJobs
  <2> QED BY <1>1, <2>1, <2>5, <2>6, ExportRest, CourierMoves
<1> QED BY <1>2, <1>3, <1>4

\* A call to the business service returns a job of the key and its status.
LEMMA CallKeeps ==
  ASSUME ExportInv, NEW c \in Couriers, CallBusiness(c)
  PROVE  ExportInv'
<1>1. /\ delivery \in DeliveryRecords /\ leased \in BOOLEAN /\ overtime \in BOOLEAN /\ courier \in [Couriers -> CourierRecords]
      /\ courier[c] \in CourierRecords /\ Delivered /\ Told(courier[c]) /\ BusinessInv /\ DeliveryInv
  BY DEF ExportInv, DeliveryInv, GatewayShape, Known
<1>2. /\ BusinessInv' /\ Growing
      /\ courier[c].job = 0 => \E j \in ExportJobs' : exports'[j].key = Automatic
  <2>a. UNCHANGED <<delivery, leased, overtime, files, aged, renderer, sweeper>>
    BY Zenon DEF CallBusiness
  <2>b. IF courier[c].job = 0 THEN Enter(Automatic) ELSE UNCHANGED exports
    BY Zenon DEF CallBusiness
  <2>1. UNCHANGED <<files, aged, renderer, sweeper>> /\ Automatic \in Keys
    BY <2>a DEF Keys
  <2>2. CASE courier[c].job = 0
    <3>1. Enter(Automatic)
      BY <2>2, <2>b
    <3> QED BY <1>1, <2>1, <3>1, EnterKeeps DEF Growing
  <2>3. CASE courier[c].job # 0
    <3>1. UNCHANGED exports
      BY <2>3, <2>b
    <3> QED BY <1>1, <2>1, <2>3, <3>1, SameGrows, BusinessStutters
  <2> QED BY <2>2, <2>3
<1>3. PICK j : j = Asked(courier[c].job, exports')
  OBVIOUS
<1>4. j \in ExportJobs'
  <2>1. CASE courier[c].job = 0
    <3>1. \E i \in DOMAIN exports' : exports'[i].key = Automatic
      BY <1>2, <2>1 DEF ExportJobs
    <3> QED BY <1>3, <2>1, <3>1 DEF ExportJobs, Asked
  <2>2. CASE courier[c].job # 0
    BY <1>1, <1>2, <1>3, <2>2 DEF Told, Growing, Asked
  <2> QED BY <2>1, <2>2
<1>5. PICK answer \in {"error", exports'[j].status} :
        courier' = [courier EXCEPT ![c].step = "told", ![c].answer = answer,
                                   ![c].job = IF answer = "error" THEN @ ELSE j]
  <2>1. \E answer \in {"error", exports'[j].status} :
          courier' = [courier EXCEPT ![c].step = "told", ![c].answer = answer,
                                     ![c].job = IF answer = "error" THEN @ ELSE j]
    BY <1>3, Zenon DEF CallBusiness
  <2> QED BY <2>1
<1>6. exports'[j].status \in Results /\ j \in 0..MaxExports
  <2>1. BusinessShape'
    BY <1>2 DEF BusinessInv
  <2>2. ExportJobs' \subseteq 1..MaxExports /\ exports'[j] \in ExportRecords
    <3>1. /\ exports' \in Seq(ExportRecords) /\ Len(exports') <= MaxExports
      BY <2>1 DEF BusinessShape
    <3>2. ExportJobs' = 1..Len(exports') /\ Len(exports') \in Nat
      BY <3>1, LenProperties DEF ExportJobs
    <3>3. exports'[j] \in ExportRecords
      BY <1>4, <3>1, <3>2, ElementOfSeq
    <3> QED BY <3>1, <3>2, <3>3, ExportAssumption
  <2> QED BY <1>4, <2>2, ExportAssumption DEF ExportRecords
<1>7. PICK known : known = IF answer = "error" THEN courier[c].job ELSE j
  OBVIOUS
<1>8. PICK to : to = [courier[c] EXCEPT !.step = "told", !.answer = answer, !.job = known]
  OBVIOUS
<1>9. courier' = [courier EXCEPT ![c] = to]
  <2>1. [courier[c] EXCEPT !.step = "told", !.answer = answer, !.job = IF answer = "error" THEN @ ELSE j] = to
    BY <1>1, <1>7, <1>8 DEF CourierRecords
  <2>2. courier' = [courier EXCEPT ![c] = [courier[c] EXCEPT !.step = "told", !.answer = answer,
                                                             !.job = IF answer = "error" THEN @ ELSE j]]
    BY <1>1, <1>5
  <2> QED BY <2>1, <2>2
<1>10. known \in 0..MaxExports /\ known \in {0} \cup ExportJobs' /\ answer \in Results \cup {"none", "error"}
  BY <1>1, <1>2, <1>4, <1>6, <1>7 DEF CourierRecords, Told, Growing
<1>11. to \in CourierRecords /\ to.job = known /\ to.answer = answer
  BY <1>1, <1>8, <1>10 DEF CourierRecords
<1>12. to.answer = "succeeded" => to.job \in ExportJobs' /\ exports'[to.job].status = "succeeded"
  BY <1>4, <1>5, <1>7, <1>11
<1>13. UNCHANGED <<delivery, leased, overtime>>
  <2>1. UNCHANGED <<delivery, leased, overtime, files, aged, renderer, sweeper>>
    BY Zenon DEF CallBusiness
  <2> QED BY <2>1
<1>14. Delivered'
  BY <1>1, <1>2, <1>13 DEF Delivered, Growing
<1> QED BY <1>1, <1>2, <1>9, <1>10, <1>11, <1>12, <1>13, <1>14, CourierMoves DEF ExportInv

\* The other steps of a courier keep what is known, and do not touch a delivery that is over.
LEMMA CourierSteps ==
  ASSUME DeliveryInv, NEW c \in Couriers, ClaimDelivery(c) \/ CallFails(c) \/ CourierDies(c)
  PROVE  DeliveryInv' /\ (delivery.status \in Over => delivery' = delivery)
<1>1. /\ delivery \in DeliveryRecords /\ leased \in BOOLEAN /\ overtime \in BOOLEAN /\ courier \in [Couriers -> CourierRecords]
      /\ courier[c] \in CourierRecords /\ Delivered /\ Told(courier[c]) /\ Growing /\ UNCHANGED exports
  BY SameGrows DEF DeliveryInv, GatewayShape, Known, ClaimDelivery, CallFails, CourierDies
<1>2. CASE ClaimDelivery(c)
  <2>1. PICK fence : fence = delivery.fence + 1
    OBVIOUS
  <2>2. fence \in 0..MaxFences
    BY <1>1, <1>2, <2>1, ExportAssumption DEF ClaimDelivery, DeliveryRecords
  <2>3. delivery' = [delivery EXCEPT !.fence = fence] /\ leased' = TRUE /\ overtime' = overtime /\ delivery.status \notin Over
    BY <1>1, <1>2, <2>1 DEF ClaimDelivery, DeliveryRecords
  <2>4. /\ delivery' \in DeliveryRecords /\ delivery'.status = delivery.status /\ delivery'.job = delivery.job
        /\ delivery'.failures = delivery.failures
    BY <1>1, <2>2, <2>3 DEF DeliveryRecords
  <2>5. Delivered'
    BY <1>1, <2>3, <2>4 DEF Delivered, ExportJobs
  <2>6. PICK to : to = [step |-> "ask", fence |-> fence, job |-> delivery.job,
                        failures |-> delivery.failures, late |-> overtime, answer |-> "none"]
    OBVIOUS
  <2>7. delivery.failures \in 0..2 /\ delivery.job \in 0..MaxExports
    BY <1>1, <2>3 DEF Delivered, DeliveryRecords
  <2>8. to \in CourierRecords /\ to.job = delivery.job /\ to.answer = "none"
    BY <1>1, <2>2, <2>6, <2>7 DEF CourierRecords
  <2>9. courier' = [courier EXCEPT ![c] = to]
    BY <1>2, <2>1, <2>6 DEF ClaimDelivery
  <2>10. to.job \in {0} \cup ExportJobs'
    BY <1>1, <2>8 DEF Delivered, Growing
  <2> QED BY <1>1, <2>3, <2>4, <2>5, <2>8, <2>9, <2>10, CourierMoves
<1>3. CASE CallFails(c)
  <2>1. PICK to : to = [courier[c] EXCEPT !.step = "told", !.answer = "error"]
    OBVIOUS
  <2>2. to \in CourierRecords /\ to.job = courier[c].job /\ to.answer = "error"
    BY <1>1, <2>1 DEF CourierRecords
  <2>3. courier' = [courier EXCEPT ![c] = to] /\ UNCHANGED <<delivery, leased, overtime>>
    BY <1>1, <1>3, <2>1 DEF CallFails
  <2>4. Delivered' /\ to.job \in {0} \cup ExportJobs'
    BY <1>1, <2>2, <2>3 DEF Delivered, Told, Growing
  <2> QED BY <1>1, <2>2, <2>3, <2>4, CourierMoves
<1>4. CASE CourierDies(c)
  <2>1. courier' = [courier EXCEPT ![c] = RestingCourier] /\ UNCHANGED <<delivery, leased, overtime>>
    BY <1>4 DEF CourierDies
  <2>2. Delivered'
    BY <1>1, <2>1 DEF Delivered, Growing
  <2> QED BY <1>1, <2>1, <2>2, ExportRest, CourierMoves
<1> QED BY <1>2, <1>3, <1>4

\* Nor does a lapsed lease.
LEMMA LapseKeeps ==
  ASSUME DeliveryInv, DeliveryLapses
  PROVE  DeliveryInv' /\ delivery' = delivery
<1>0. leased \in BOOLEAN /\ overtime \in BOOLEAN /\ Delivered /\ Growing /\ UNCHANGED exports
  BY SameGrows DEF DeliveryInv, GatewayShape, Known, DeliveryLapses
<1>1. /\ UNCHANGED <<delivery, courier>> /\ leased' \in BOOLEAN /\ overtime' \in BOOLEAN /\ (leased' => leased)
  <2>1. \/ leased /\ leased' = FALSE /\ overtime' = overtime
        \/ ~overtime /\ overtime' = TRUE /\ leased' = leased
    BY Zenon DEF DeliveryLapses
  <2>2. UNCHANGED <<delivery, courier>>
    BY DEF DeliveryLapses
  <2>3. leased' \in BOOLEAN /\ overtime' \in BOOLEAN /\ (leased' => leased)
    <3>1. CASE leased' = FALSE /\ overtime' = overtime
      BY <1>0, <3>1
    <3>2. CASE overtime' = TRUE /\ leased' = leased
      BY <1>0, <3>2
    <3> QED BY <2>1, <3>1, <3>2
  <2> QED BY <2>2, <2>3
<1>2. GatewayShape'
  BY <1>1 DEF DeliveryInv, GatewayShape
<1>3. Delivered'
  BY <1>0, <1>1 DEF Delivered, Growing
<1>4. \A d \in Couriers : Told(courier[d])'
  BY <1>0, <1>1 DEF DeliveryInv, Known, Told, ExportJobs
<1> QED BY <1>1, <1>2, <1>3, <1>4 DEF DeliveryInv, Known

\* Jobs and successes stay when a job is claimed.
LEMMA ClaimGrows ==
  ASSUME BusinessInv, NEW r \in Renderers, NEW j \in ExportJobs, ClaimExport(r, j)
  PROVE  Growing
<1>1. exports' = [exports EXCEPT ![j].status = "running", ![j].leased = TRUE, ![j].attempt = @ + 1]
  BY DEF ClaimExport
<1>2. exports[j].status # "succeeded"
  BY DEF ClaimExport, Lapsed
<1>3. DOMAIN exports' = DOMAIN exports /\ \A i \in DOMAIN exports : i # j => exports'[i] = exports[i]
  BY <1>1
<1> QED BY <1>2, <1>3 DEF Growing, ExportJobs

\* So every step keeps the invariant and leaves a delivery that is over alone ...
LEMMA ExportInvStep ==
  ASSUME ExportInv, [ExportNext]_exportVars
  PROVE  ExportInv' /\ (delivery.status \in Over => delivery' = delivery)
<1>1. CASE UNCHANGED exportVars
  <2>1. UNCHANGED <<exports, files, aged, renderer, sweeper>> /\ UNCHANGED gatewayVars /\ delivery' = delivery
    BY <1>1 DEF exportVars, gatewayVars
  <2> QED BY <2>1, BusinessStutters, SameGrows, DeliveryUnmoved DEF ExportInv
<1>2. ASSUME NEW c \in Couriers, ClaimDelivery(c) \/ CallFails(c) \/ CourierDies(c)
      PROVE  ExportInv' /\ (delivery.status \in Over => delivery' = delivery)
  <2>1. UNCHANGED <<exports, files, aged, renderer, sweeper>>
    BY <1>2 DEF ClaimDelivery, CallFails, CourierDies
  <2> QED BY <1>2, <2>1, BusinessStutters, CourierSteps DEF ExportInv
<1>3. ASSUME NEW c \in Couriers, RecordDelivery(c)
      PROVE  ExportInv' /\ (delivery.status \in Over => delivery' = delivery)
  <2>1. UNCHANGED <<exports, files, aged, renderer, sweeper>>
    BY <1>3 DEF RecordDelivery
  <2> QED BY <1>3, <2>1, BusinessStutters, RecordKeeps DEF ExportInv
<1>4. ASSUME NEW c \in Couriers, CallBusiness(c)
      PROVE  ExportInv' /\ (delivery.status \in Over => delivery' = delivery)
  <2>1. UNCHANGED <<delivery, leased, overtime, files, aged, renderer, sweeper>>
    BY <1>4, Zenon DEF CallBusiness
  <2> QED BY <1>4, <2>1, CallKeeps
<1>5. CASE DeliveryLapses
  <2>1. UNCHANGED <<exports, files, aged, renderer, sweeper>>
    BY <1>5 DEF DeliveryLapses
  <2> QED BY <1>5, <2>1, BusinessStutters, LapseKeeps DEF ExportInv
<1>6. ASSUME BusinessInv', Growing, UNCHANGED gatewayVars
      PROVE  ExportInv' /\ (delivery.status \in Over => delivery' = delivery)
  <2>1. delivery' = delivery
    BY <1>6 DEF gatewayVars
  <2> QED BY <1>6, <2>1, DeliveryUnmoved DEF ExportInv
<1>7. ASSUME NEW k \in Own, RequestExport(k)
      PROVE  ExportInv' /\ (delivery.status \in Over => delivery' = delivery)
  <2>1. Enter(k) /\ UNCHANGED gatewayVars /\ UNCHANGED <<files, aged, renderer, sweeper>> /\ k \in Keys
    BY <1>7 DEF RequestExport, Keys
  <2> QED BY <2>1, <1>6, EnterKeeps DEF ExportInv, Growing
<1>8. ASSUME NEW r \in Renderers, NEW j \in ExportJobs, ClaimExport(r, j)
      PROVE  ExportInv' /\ (delivery.status \in Over => delivery' = delivery)
  <2>1. UNCHANGED gatewayVars
    BY <1>8 DEF ClaimExport
  <2> QED BY <1>8, <2>1, <1>6, ClaimExportKeeps, ClaimGrows DEF ExportInv
<1>9. ASSUME NEW r \in Renderers,
             Render(r) \/ Store(r) \/ ExportFails(r) \/ Keep(r) \/ RendererDies(r)
      PROVE  ExportInv' /\ (delivery.status \in Over => delivery' = delivery)
  <2>1. UNCHANGED gatewayVars
    BY <1>9 DEF Render, Store, ExportFails, Keep, RendererDies
  <2>2. BusinessInv' /\ Calm
    BY <1>9, RendererSteps DEF ExportInv
  <2> QED BY <2>1, <2>2, <1>6, CalmGrows DEF ExportInv
<1>10. ASSUME NEW r \in Renderers, CommitExport(r)
       PROVE  ExportInv' /\ (delivery.status \in Over => delivery' = delivery)
  <2>1. UNCHANGED gatewayVars
    BY <1>10, Zenon DEF CommitExport
  <2>2. BusinessInv' /\ Growing
    BY <1>10, CommitKeeps DEF ExportInv, Growing
  <2> QED BY <2>1, <2>2, <1>6
<1>11. ASSUME ExportTime \/ \E j \in ExportJobs : GiveUpExport(j)
       PROVE  ExportInv' /\ (delivery.status \in Over => delivery' = delivery)
  <2>1. UNCHANGED gatewayVars
    BY <1>11 DEF ExportTime, GiveUpExport
  <2>2. BusinessInv' /\ Calm
    BY <1>11, ExportsAge DEF ExportInv
  <2> QED BY <2>1, <2>2, <1>6, CalmGrows DEF ExportInv
<1>12. ASSUME NEW s \in Sweepers, Sweep(s)
       PROVE  ExportInv' /\ (delivery.status \in Over => delivery' = delivery)
  <2>1. UNCHANGED gatewayVars
    BY <1>12, Zenon DEF Sweep, SweepAsset, SweepMark, SweepLook, SweepExpired
  <2>2. BusinessInv' /\ Calm
    BY <1>12, SweepKeeps DEF ExportInv
  <2> QED BY <2>1, <2>2, <1>6, CalmGrows DEF ExportInv
<1>13. CASE ExportNext
  BY <1>13, <1>2, <1>3, <1>4, <1>5, <1>7, <1>8, <1>9, <1>10, <1>11, <1>12, Zenon DEF ExportNext
<1> QED BY <1>1, <1>13

\* ... and it always holds.
LEMMA ExportInvHolds == ExportSpec => []ExportInv
<1>1. ExportInv /\ [ExportNext]_exportVars => ExportInv'
  BY ExportInvStep
<1> QED BY <1>1, ExportInvInit, PTL DEF ExportSpec

\* What the invariant says of exports.
LEMMA ExportsAre == ExportInv => ExportTypes /\ OneAutomaticExport /\ DownloadKept
BY ExportShapes DEF ExportInv, BusinessInv, DeliveryInv, Known, Delivered, OneAutomaticExport, KeysDiffer

\* A delivery that has ended is what it was: no courier that comes back from the business
\* service writes to it.
THEOREM DeliveriesEnd == ExportSpec => DeliveryFinal
<1>1. ExportInv /\ [ExportNext]_exportVars => [delivery.status \in Over => delivery' = delivery]_exportVars
  BY ExportInvStep
<1> QED BY <1>1, ExportInvHolds, PTL DEF ExportSpec, DeliveryFinal

-----------------------------------------------------------------------------
(* The sum: each part takes its own steps or none. *)

\* The sum begins as each of its parts does ...
LEMMA PartInit == SumInit => IntakeInit /\ TitlesInit /\ ExportInit /\ SessionsInit /\ DelegationsInit
BY DEF SumInit

\* ... goes on as each, or leaves it alone ...
LEMMA PartSteps ==
  [SumNext]_sumVars =>
    /\ [IntakeNext]_intakeVars /\ [TitlesNext]_titlesVars /\ [ExportNext]_exportVars
    /\ [SessionsNext]_sessionVars /\ [DelegationsNext]_delegationVars
BY DEF SumNext, sumVars

\* ... and so implements the specification of each.
LEMMA PartSpecs == SumSpec => IntakeSpec /\ TitlesSpec /\ ExportSpec /\ SessionsSpec /\ DelegationsSpec
BY PartInit, PartSteps, PTL DEF SumSpec, IntakeSpec, TitlesSpec, ExportSpec, SessionsSpec, DelegationsSpec

\* Submissions of one conversation, however they race or repeat each other, leave at
\* most one run in progress, and a repetition is given the run of the first request
\* (conversations.py); all parts keep their types.
THEOREM IntakeIsSound == SumSpec => []IntakeSound
<1>1. IntakeInv => IntakeTypes
  BY DEF IntakeInv
<1>2. TitlesInv => TitlesTypes
  BY DEF TitlesInv
<1>3. DelegationInv => DelegationTypes
  BY DEF DelegationInv
<1>4. IntakeTypes /\ TitlesTypes /\ ExportTypes /\ SessionTypes /\ DelegationTypes /\ OneActiveRun /\ RepeatedFindsItsRun
        => IntakeSound
  BY DEF IntakeSound, SumTypes
<1>5. IntakeSpec => []IntakeInv
  BY IntakeStart, IntakeInductive, PTL DEF IntakeSpec
<1>6. TitlesSpec => []TitlesInv
  BY TitlesStart, TitlesInductive, PTL DEF TitlesSpec
<1>7. DelegationsSpec => []DelegationInv
  BY DelegationsInvHolds, PTL
<1> QED
  BY <1>1, <1>2, <1>3, <1>4, <1>5, <1>6, <1>7, PartSpecs, OneRunGoesOn, RepetitionsFindTheirRun,
     ExportsAre, ExportInvHolds, SessionsAre, SessionsInvHolds, PTL

\* However deliveries, renderers and sweeps overlap, one file is made from an answer by
\* itself, and the file that a successful export names is there until it expires
\* (exports.py, process_automatic; report_exports.py, process_one and sweep).
THEOREM ExportsAreSound == SumSpec => []ExportsSound
<1>1. ExportInv => ExportsSound
  BY ExportsAre DEF ExportsSound
<1> QED BY <1>1, PartSpecs, ExportInvHolds, PTL

\* A session that is accepted was opened under the current password, and a captcha or a
\* sign-on code admits one request (auth.py, langfuse_sso.py).
THEOREM SessionsAreSound == SumSpec => []SessionsSound
<1>1. SessionsInv => SessionsSound
  BY SessionsAre DEF SessionsSound
<1> QED BY <1>1, PartSpecs, SessionsInvHolds, PTL

\* What a person decided, or a delivery ended as, is not undone by what was under way: a
\* chosen title, a delivered file, a password that was replaced knowingly.
THEOREM DecisionsAreFinal == SumSpec => DecisionsStand
<1>1. ChosenTitleStands /\ DeliveryFinal /\ ReplacedWasKnown => DecisionsStand
  BY DEF DecisionsStand
<1> QED BY <1>1, PartSpecs, ChosenStands, DeliveriesEnd, PasswordsAreReplacedKnowingly

=============================================================================
