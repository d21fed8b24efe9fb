# Verification of SemiBrain

SemiBrain is a set of cooperating Python services: a conversation gateway, an
agent that investigates questions with language models and tools, and a business
service that owns documents, tools and exports. The services share nothing but
signed HTTP calls and one event stream each; every service keeps its state in
its own Mongo database and does its work in Celery ticks that may overlap, be
killed, or outlive the lease under which they run. This directory holds TLA+ models of that
machinery, the TLC configurations that check them, and TLAPS proofs of what
matters most about them.

Paths below are relative to `src/`; `common/` is
`packages/common/src/semibrain_common/`, and `agent/`, `conversation/` and
`business/` are the `app/semibrain_*` packages of the three services.

## 1. Inventory

### Components, their state and their operations

| component | code | state | operations | module |
|---|---|---|---|---|
| Event transport | `common/runtime.py`, `event_governance.py` | `outbox`, Redis stream, `cursors`, `inbox`, `quarantine`, `event_failures` | publish, relay, consume, redrive, consume_redrives, recover_transport | `EventDelivery`, `EventTransport` |
| Run lifecycle | `agent/runs.py`, `control.py` | `runs` (status, attempt, fence, lease, sequence), outbox events | accept, claim, update, publish, fail, expire, cancel, acknowledge, reconcile | `RunLifecycle` |
| Tool jobs | `business/tools.py`, `cancellation.py` | `tool_jobs` (status, attempt, fence, lease, stop notes) | submit, cancel, claim, authorize, execute, sweep, complete | `ToolJobs` |
| Cancellation across services | `conversation/conversations.py`, `worker.py`, `agent/client.py`, `control.py` | `gateway_runs` (intent, projected status), the active call of a run | cancel_run and its repetition, project, tool_stop_confirmed | `RunCancellation` |
| Run budget | `agent/harness.py` | `runs.budget`, `model_calls`, `tool_calls` | initialize, recover, reserve, settle, request_closeout, close_pending_usage | `RunBudget` |
| Investigator, closeout | `agent/investigator.py`, `closeout.py`, `executor.py`, `checkpoints.py`, `web_readiness.py` | graph state, checkpoint, `model_turns`, `observations`, closeout reason | phases of the graph, journaled calls, added searches, review, repair, publication | `Investigation` |
| Multi-agent investigation | `agent/multi_agent.py`, `multi_policy.py`, `readonly_reuse.py` | plans, tasks, specialists, `readonly_requests` | plan, dispatch, synthesize, professional, claim, reuse | `Specialists`, `ReadonlyReuse` |
| Quick answers | `agent/quick_web.py`, `quick_requests.py`, `runs.py` | the pipeline's place, journals, jobs | understand, search, pages, local lookup, bind, stream, finish | `QuickAnswer` |
| Conversation intake | `conversation/conversations.py` | `conversations`, `messages`, `gateway_runs` | submit, repeat, continue, supersede, project | `ConversationIntake` |
| Conversation titles | `conversation/titles.py` | title fields of `conversations`, `conversation_title_jobs`, `_commands` | first title, rename, suggest, process_one, finish | `ConversationTitles` |
| Exports | `conversation/exports.py`, `business/report_exports.py` | `answer_export`, `report_exports`, `assets`, files | deliver, request, claim, render, store, commit, sweep | `AnswerExport` |
| Logins and sessions | `conversation/auth.py`, `langfuse_sso.py` | `users`, sessions, captchas and codes in Redis | login, logout, change_password, change_user, authorize, exchange, userinfo | `Sessions` |
| Delegated authority | `conversation/access.py` | delegation tokens | delegation, introspect, execution_authorization | `Delegations` |
| Knowledge base | `business/knowledge.py`, `knowledge_api.py`, `knowledge_revisions.py`, `reprocessing.py` | documents, versions, `ingestion_jobs`, frozen parses, chunks, vectors | upload, edit, reprocess, review, ingest, publish, withdraw, roll back | `KnowledgePublication` |
| Graph extraction | `business/graph_extraction.py`, `graph.py` | extraction jobs, candidates, decisions, edges, `graph_state` | enqueue, claim, extract, commit_chunk, review, edit, policy | `GraphFacts` |
| Graph projection | `business/graph.py`, `graph_projection.py` | Neo4j's edges, `projected_revision` | rebuild_projection | `GraphProjection` |
| Retention | `business/retention.py`, `web_tools.py`, `agent/retention.py` | `retention_objects`, quota, stored text | reserve, store, lease, lifecycle, clean_one | `EvidenceRetention` |
| Personal memory | `agent/memory*.py`, `conversation/memory.py` | settings row, memories, candidates, scans | save, delete, configure, confirm, extract, recall, publish | `PersonalMemory` |
| Context compaction | `agent/compaction.py`, `context_policy.py` | none | functions of a message list | - |
| Model access | `agent/model.py`, `provider.py` | none | calls to a provider | - |
| Configuration, evaluations | `agent/configuration.py`, `evaluations.py` | drafts, versions | edit and publish by compare-and-set | - |
| Wiki, skills, MCP settings | `business/wiki.py`, `skills.py`, `mcp_connections.py` | documents with a revision | edit and publish by compare-and-set | - |
| Sandbox, web, warehouse, parsing | `business/sandbox_broker.py`, `web_tools.py`, `warehouse.py`, `parsing.py`, ... | none of their own | I/O and pure functions; their jobs are tool jobs | - |
| Gateways, operations | `conversation/resources.py`, `graph.py`, `common/operations.py` | `queue_control` | forward a request; drain, snapshot | drain in `RunLifecycle`, `ToolJobs` |
| Interfaces, deployment | `apps/`, `packages/ui`, `packages/contracts`, `infra/`, `scripts/` | none of its own | wire schemas, pages, deployment | - |

### How they interact

* A service changes another one's state by a signed HTTP call or through an
  event. Events are written to the producer's `outbox` in the transaction
  that changes the domain state; a *relay* tick copies them to a Redis stream; a
  *consumer* tick of the other service applies them in order, each in one
  transaction with its cursor and inbox.
* A user's question becomes a `run.requested` event of the gateway; the agent
  accepts it as a run; a work tick claims the run, investigates, and ends it.
  Every change of status is an event of the agent that the gateway *projects*.
* A run calls tools by submitting durable jobs to the business service, under a
  logical call id every attempt derives again, and polls for their results. The
  executor of a job asks the gateway whether it may run.
* A cancellation is an intent at the gateway. It is forwarded until the agent has
  it; the agent's worker acknowledges that it has stopped; the agent's
  reconciling tick asks the business service after the tool call the run was
  waiting for; only then is the run `cancelled`.
* A published answer has one file made by itself: a gateway tick asks the business
  service for it until it is there. Finished runs are read once more, for
  suggestions to the owner's notes.
* A document's published version is what extraction takes facts from; facts are
  what the projection copies to Neo4j.

### What is hard here

* Two ticks of the same kind run at once whenever one is slow: leases lapse while
  their holders go on. Fences must keep the stale one from writing.
* A Mongo transaction is atomic; an HTTP call, a Redis call and the gap between
  two transactions are not, and a process can die at each of them.
* Requests are lost, answers are lost, events are duplicated, replayed after
  Redis has been replaced, and refused by an older release.
* A phase of an investigation that died is executed again; what its journals hold
  is not asked again, and may have been written before what is known now.
* State is read, the outside world is asked, and the state has changed: passwords,
  revisions, switches, owners.
* Limits (three attempts, two redrives, token budgets, twice the same request)
  must hold across crashes.
* Something must end: a cancellation, an event's way to its consumer, an
  investigation.

`PROJECT.json` lists every hazard of this kind at its line, with the property
that covers it, or why none does.

### What makes each component correct

* transport: handlers take effect at most once; nothing published is lost, passed
  over in silence, or starved by a predecessor;
* runs: one live writer; ends are final; the event stream tells the status;
* tool jobs: effects outside are not repeated; `cancelled` is said only of what is
  known to have stopped;
* cancellation: it ends, and `cancelled` means that nothing goes on;
* budget: parallel callers and successors cannot overspend it, and unknown usage is
  neither forgotten nor counted twice;
* answers: what is published was reviewed in that form, a success is complete and was
  not cut by a limit, delivered work is not overwritten, a report comes;
* intake: one active run per conversation, repeated submissions find theirs;
* titles, exports, knowledge, facts, retention, notes: each has one commit that must
  win over stale holders of its lease, and a pair of operations (delete and publish,
  read and sweep, rename and title, review and extract) of which one must win;
* access: nobody is admitted by a password or an authority that is gone.

## 2. Plan

The order followed the dependencies: what most other parts rest on came first.

1. **Transport**: `EventDelivery` (abstract), `EventTransport` (detailed), proofs of its
   safety and of the refinement. Done.
2. **Runs and tool jobs**: `RunLifecycle`, `ToolJobs`; all their properties proved. Done.
3. **Cancellation**: `RunCancellation` composes the two with the gateway; its safety is
   proved. Done for a run with one tool call at a time; the `active_tools` and
   `stopped_tools` of a multi-agent run are left.
4. **Budget**: `RunBudget`; all its properties proved, the sums over its rows included. Done.
5. **Investigations**: `Investigation`, `Specialists`, `ReadonlyReuse`,
   `QuickAnswer`; their safety proved, for each and for their sum. Done.
6. **The gateway's workflows**: `ConversationIntake`, `ConversationTitles`,
   `AnswerExport`, `Sessions`, `Delegations`; all their properties proved. Done.
7. **Durable work behind it**: `KnowledgePublication`, `GraphFacts`,
   `GraphProjection`, `EvidenceRetention`, `PersonalMemory`; all their properties
   proved. Done.

Worth doing next: the active tools of a multi-agent run in `RunCancellation`;
merges of entities in `GraphFacts`; configuration and wiki drafts, if they come to be
written by more than one compare-and-set.

## 3. Modules and the code they translate

Conventions. A Mongo transaction is one action, with the one reading of the
clock the code makes in it. A lease is a boolean, "not yet run out", turned off
by an action of its own. A fence is a random number the code draws at each claim; since a claim also
increments `attempt`, the attempt number stands for it. A crash of a tick
loses what the process knew and nothing else. A definition whose comment starts with
"Mutant" is the form a plausible bug would give the definition after it; no
specification uses it, and `PROJECT.json` says which property it would break.

### EventDelivery
What one channel promises, with no mention of streams or cursors: an event is in
transit, then parked or applied; a parked one can still be applied; applying
takes effect once.

### EventTransport
One channel. The producer's side is `outbox`, and per relay the rows
its query returned (`rows`) and whether the oldest is already in the stream but not
marked (`sent`). Redis is `stream`, `base`, `last`. The consumer's side is the cursor with
its lease, the inbox, the quarantine with its redrive count, and the failure
counters; per tick, where it is (`pc`), the batch it read, and the requeued
events it has listed.

| action | code |
|---|---|
| `Publish` | `publish`, inside the domain transaction |
| `RelayFind`, `RelaySend`, `RelayMark` | `relay`: query, XADD, unconditional update by `_id` |
| `StartTick`, `RedriveCommit`, `RedriveRefused`, `RedriveReject`, `RedriveCrash` | `consume_redrives` |
| `Acquire`, `Yield`, `Read`, `Finish` | `consume` and the query of `_consume_locked` |
| `Commit`, `Refused`, `Reject` | the per-entry transaction, and the one after a refusal |
| `Redrive`, `RecoverProducer`, `RecoverConsumer`, `Upgrade` | the operator's operations and a release |
| `LeaseExpires`, `RedisLoss`, `RelayCrash`, `ConsumerCrash` | what happens around them |

What an event says is left out; what its handler may do is a choice per event:
apply it, refuse it (`Rejectable`), raise something else (`Crashing`), or fail to
validate it until a release (`OldSchema`).

### RunLifecycle
One action per transaction of `runs.py` and `control.py` on a run's row. A
worker computes one nondeterministic outcome between its writes; each of its
writes is filtered by `Current` (its fence, `running`, lease not lapsed), as in
the code. An exception takes a worker through `Acknowledge` and `Failed`, two
transactions. `events` is what the run has published.

### ToolJobs
One action per transaction of `tools.py` on a job's row, and the two ends of a
`CancellationScope`. `entered` and `left` are history: which attempt has begun
to execute, which is known to have stopped; the code's own note of
the latter is `jobStopped` (`query_stopped_at`).

### RunCancellation
EXTENDS `RunLifecycle`, INSTANCEs `ToolJobs` with the runs as jobs, and adds the
gateway (`intent`, `known`, `projected`), the tool call of a run's worker
(`active`, `call`) and the submission on its way (`post`). Requests to the business service may be lost
(`TryCancel`, `Lose`) or arrive late (`Deliver`). `Project` may pick any event
the run has published, in any order and more than once: that is more than the transport allows,
so `GatewayAgrees` does not depend on it. `Reconcile` and `AskTool` are one tick
with the answer it gets from the business service. `Authorize(x, TRUE)` is possible only while the
gateway has no intent to cancel, as `access.py` decides.

### RunBudget
The budget of one run and the threads of its attempts. The counters are the
fields of `runs.budget`; calls and tools are rows with a status and a charge,
which is the reservation until they are settled and the usage afterwards. A
thread passes the gate, is admitted or refused, makes its call, and settles it;
each of these is a transaction of its own, and a takeover, a cancellation, a
crash (`Leave`) or another thread may come between any two.

| action | code |
|---|---|
| `Claim`, `LeaseExpires`, `Cancel`, `Expire`, `Finish` | the run as the budget sees it; `RunLifecycle` has the details |
| `Initialize` | `Harness.initialize` with `recover`; the counters start at zero once per run |
| `Join` | a specialist's thread takes over the harness of its runner |
| `Gate`, `StopInvestigation` | `check`, `investigation_gate`, `request_closeout` by the gate or the runner |
| `AdmitCall`, `RefuseCall`, `RequestCloseout` | `model_reserve`: the filtered update, and what follows a refusal |
| `SettleCall`, `MissCall` | `settle`, with a usage or without |
| `AdmitTool`, `RepeatTool`, `RefuseTool` | `reserve_tool`; a logical call that has its row already is repeated |
| `SettleTool`, `MissTool`, `SettledBefore` | `settle_external_tool` |
| `Conclude` | `close_pending_usage` in the transaction that ends a cancellation |

`STALE_...` refusals of a write end the thread: `Leave`. Renewal of a lease by
`check` shows nothing, since `live` says whether the lease has lapsed and a lapsed
one is not renewed. The page limit works as the search limit does and is left out, and so are the
records `save_record` writes.

### Investigation
The single investigator: `graph` is the state of its graph in the worker, `saved`
the one in the checkpoint, `turns` and `observed` the journals. Every action that
ends a phase is a `Checkpoint`; between two of them the phase asks (`Wanted`) and
looks (`Pending`) as far as its journals do not have it. `CrashWorker` returns to the
checkpoint and keeps the journals, which is all that makes a repeated phase different
from the first.

| action | code |
|---|---|
| `AskInvestigator`, `Execute` | `model_call_once`, `_execute`: the journal is written before the answer is used |
| `Understand`, `Model`, `CallTools`, `Review`, `Revise`, `FinalAnswer` | the nodes of the graph in `investigator.py`, with `ensure_web_search` and `supplement_web_evidence` (`Fallback`, `Supplement`) |
| `BeginAnswer`, `SaveAnswer` | `begin_answer`, which closes the run out, and the end of the phase, whose checkpoint is the first to tell of it |
| `CloseoutReview` | `review_answer` with its one repair, which is taken unless `Score` ranks it lower: a body first, then fewer missing goals, then fewer issues |
| `Limit`, `GiveUp` | what `execute` does with a limit, a failing model, or nothing to answer from |
| `Publish`, `CrashWorker` | `finish`; the death of the worker |

`Review` keeps `Retained` of a draft and goes by the verdict: approved, approved with goals
that are missing or a style to mend, in need of a retrieval, or refused. A draft is the step that wrote it. The texts of messages, observations and packets are
left out, and so is the difference between a limit's many causes: it may be met at any
call.

### Specialists
The coordinator of a multi-agent run with its checkpoint, the plans it has accepted,
the rows of their tasks, and the threads (`experts`) that work on them, those of a
worker that has lost its lease included. Each write of a thread is filtered by `Writes`,
as `task_update` is.

| action | code |
|---|---|
| `AskSupervisor`, `SaveTask`, `EndPlan` | `plan`: the journaled turn, one record per task, the end of the node |
| `Dispatch`, `EndDispatch` | `dispatch`, `ready_tasks`, the early handoff |
| `BeginSynthesis`, `Synthesize` | `synthesize`: `begin_answer`, then the draft and its checkpoint; a worker that dies between them leaves a run that is closing and a checkpoint that does not know it |
| `ReviewAnswer`, `Finalize`, `CoordinatorStops` | `review`, `review_closeout`, `finalize`, limits |
| `BeginExpert`, `ThinkExpert`, `ActExpert`, `FailExpert`, `DropExpert` | `professional`, `task_model`, `task_tools`, its exceptions, a refused write |
| `LoseLease` | another worker begins from the checkpoint |

### Journals
`Put`, the write of a row under its key, which the journals of `Investigation`,
`QuickAnswer` and `Specialists` have in common.

### ReadonlyReuse
Callers that make one read-only request: `ClaimRequest` is `claim`, a transaction on
the request's row under the run's fence; `ExecuteRead` and `SettleRead` call the tool
and journal its observation; `Reuse` looks up what is authorized again before it takes
another one's answer. A request is keyed by its scope, so each change of scope has a row
of its own.

### QuickAnswer
The two fixed pipelines: the one with web access (`quick_web.py`) and the short one of
`execute_one`. `Name` is the uuid of a named step of the pipeline, the same in every attempt: the
search, two pages, and the two local lookups, "knowledge" and "business", of which a plan
has one at most and attempts with different plans may leave both;
`jobs` and `journal` are what earlier attempts have left under it. `ReplayTool` takes an
observation from the journal, `SubmitTool` and `ObserveTool` call the business service,
`PassOver` and `EndGathering` are the paths on which nothing is called, `BindEvidence`,
`Stream` and `FinishQuick` write the answer. `QuickWorld` turns the web off, lets time
pass, and changes the documents a question is understood from.

### ConversationIntake
A submission is a process: `Begin` (also again, when its answer was lost), `SeePrior`,
`Survey` of the active runs, `Ask` the agent about each, then `Accept`, the transaction
filtered by the conversation's revision. The revision counts accepted runs, so a run is
named by its `input_revision`. `Advance` is the agent's side (what it has announced),
`Project` the projection of one announcement by the gateway.

### ConversationTitles
`QueueFirst` belongs to the first submission; `Rename` and `Suggest` are commands of the
user; `ClaimJob`, `CheckJob`, `AskModel`, `FinishJob` are `process_one`; `ReapJob` ends
jobs whose deadline has passed; `Settle` is `finish`, which touches the title only while
it is `Untouched`.

### AnswerExport
The gateway's delivery (`ClaimDelivery`, `CallBusiness`, `RecordDelivery`), the
business service's job (`RequestExport`, `ClaimExport`, `Render`, `Store`,
`CommitExport`, `Keep`, `ExportFails`) and its sweep, which decides in one step
(`SweepLook`) and removes in others. An asset is named by its job and attempt. Leases
of 150 seconds are not renewed and assets are swept after ten minutes: `ExportTime` lets
an asset become old only when the lease under which it was stored has run out.

### Sessions
Each request is a process with what it has read (`work`): a login takes its captcha,
compares the password, and stores a session under the version it has read; a change
of password compares and commits by revision; the sign-on exchanges a code, looks at
the session and the user, and issues a token. `Admits` is what every later request asks
of a session.

### Delegations
`AskToken`, `AskIntrospection` and `AskExecution` begin a check; `SeeOwner`, `SeeRun`
and `SeeTask` are its three looks, between which the owner, the run's switches and
the task may change. `held` is history: which conditions have held at some time since
the check began.

### KnowledgePublication
One document: `Upload`, `Reprocess`, `Edit`, `ReviewParse` make a version with an ingestion
job; a worker claims it, freezes its parse in the object store (`Freeze`), judges its
quality, looks for a cancellation (`PassCancellation`), writes chunks and vectors (`Index`)
and stages it (`Stage`). The look is made at most twice a second, so that a worker which has
looked while it parsed passes it whatever has happened since, and `Index` asks nobody; managers publish, withdraw and roll back by the document's revision.
`versions[v].verified` is "ready", `chunks[v]` the parses that the version's chunks and
vectors were made from.

### GraphFacts
Jobs take the chunks of a published version to a model (`Extract`), and commit what
came (`CommitChunk`). A commit is split: `BeginCommit` reads its snapshot, and any
transaction that writes a document in `Written` makes it abort, which is what
Mongo does with conflicting writers. The increments of `graph_write_fence` and of the
graph's revision have no other effect: a mutant without them (`WrittenUnfenced`) breaks
`FactsFenced`. People decide by `Reject`, `Approve`, `SaveEdge`, `ChangeEdgeState`,
`SetPolicy` and `ControlJob`, each by the expected revision.

### GraphProjection
A rebuild reads the revision, then the rows, replaces Neo4j's edges, and marks the
revision as projected if it is still the current one.

### EvidenceRetention
An original is reserved against the quota, stored, read under a lease (`AdmitReader` is
`lease`), referred to by runs (`ReferTo` is the later insert of evidence or the registration of
a file, after a lease or without one; `reference` is what the agent answers), and removed by a sweep:
`ExamineOriginal`, `ClaimOriginal`, `VerifyOriginal`, `RemoveOriginal`, `PurgeEvidence`,
`FinishOriginal`, each a call that may fail. `late` is history: rows a second check has reopened
when a former sweep had removed the object, or another one was past its own second check or about to make it.

### PersonalMemory
The owner's commands compare and raise the revision of the settings row
(`SettingsCommand`); a suggestion is confirmed in two steps, its source outside the
transaction (`VouchFor`) and the rest inside (`Confirm`, in whatever words the owner chooses). A reader
claims a scan, reads messages and asks (`ReadMessages`, a set of suggestions of which no two say the
same), looks at the sources again (`RecheckSources`), and finishes under the epoch it has read with
as many of them as there is room for, or with none after an error (`FailScan`); a run pins the settings, binds notes, and publishes in a
transaction that is split where its snapshot is read (`BeginPublication`) and where it
locks the row (`EndPublication`).

### MCInvestigation, MCGateway, MCServices
Disjoint sums. `part` says in the initial state which of the modules runs; the
variables of the others keep their initial values. The state spaces add up instead of
multiplying, and one run checks what several components promise; the parts share no
state in the code either, beyond what other modules model.

## 4. Runs

| run | question |
|---|---|
| `transport_safety` | two overlapping consumer ticks, lapsed leases, refusals, a handler that raises, an old release, redrives, a Redis loss and recoveries: once, never skipped, never back |
| `transport_liveness` | up to a Redis loss after which both services are recovered: every published event is applied or parked; none is orphaned; `EventDelivery` is implemented |
| `cancellation_safety` | one run, two workers, a reconciling tick, an executor of a tool that may be executed again: types, events, `cancelled` means stopped, the gateway agrees, ends are final |
| `cancellation_liveness` | a cancellation ends, with drains, deaths and losses |
| `run_budget` | two threads of one or two attempts against a capped budget: limits, sums, unknown usage, closeout |
| `investigation` | single, multi-agent, shared and quick answers: reviewed, complete, not overwritten, not asked for twice too often, and a report comes |
| `gateway` | submissions, titles, exports, logins, delegations: two at a time of each but the checks of delegated authority, one of which meets every order of revocations |
| `services` | tool jobs, document versions, facts, projection, originals, notes, two workers at a time |
| `transport_lost_on_recovery` | *violation*, see findings |
| `transport_poison_starves` | *violation* |
| `cancellation_untracked_tool` | *violation* |
| `investigation_unseen_search` | *violation* |

### Conjunctions
Some properties of the runs are conjunctions of properties that the modules state:

| property | conjuncts |
|---|---|
| `CancelledIsOver` | `CancelledMeansStopped`, `CancelledIsConfirmed` |
| `CountersTell` | `TypeOK`, `Accounting` |
| `AnswersSound` | types, `PublishedWasReviewed`, `SuccessWithinLimits`, `SuccessIsWhole`, `AskedOnce` |
| `IntakeSound` | types, `OneActiveRun`, `RepeatedFindsItsRun` |
| `ExportsSound` | `OneAutomaticExport`, `DownloadKept` |
| `SessionsSound` | `AdmittedByPassword`, `OneAttempt` |
| `DecisionsStand` | `ChosenTitleStands`, `DeliveryFinal`, `ReplacedWasKnown` |
| `VersionsSound` | types, `IndexedAsFrozen`, `CancelledNeverReady` |
| `FactsFenced` | `HumanDecisionStands`, `LateWritesNothing` |
| `ToolsSound` | `NeverRepeated`, `CancelledIsConfirmed` |
| `OriginalsKept` | `ReadUndisturbed`, `QuotaKept`, `StoredIsPaid` |
| `MemoryFenced` | `RecallCurrent`, `LateExtractionSilent` |

`PROJECT.json` names one mutant per property. The conjuncts it does not exercise are
broken by these other ones, under the same configurations:

| module | mutant | breaks |
|---|---|---|
| `Investigation` | `BeginAnswer` as `BeginAnswerAnyway` | `AnswersSound` |
| `QuickAnswer` | `Name` as `NameOfAttempt`, `Missing` as `MissingLocally` | `AnswersSound` |
| `ConversationIntake` | `Matches` as `MatchesKey` | `IntakeSound` |
| `ConversationTitles` | `Settle` as `SettleQuietly` | `TitleJobsSettle` |
| `AnswerExport` | `Current` as `CurrentByStatus`, `Abandoned` as `AbandonedByAge` | `ExportsSound` |
| `AnswerExport` | `Another` as `AnotherAlways` (a job is claimed a third time, out of its type) | `IntakeSound` |
| `AnswerExport` | `Holds` as `HoldsAny` | `DecisionsStand` |
| `Sessions` | `Take` as `TakeLater` | `SessionsSound` |
| `Sessions` | `Unchanged` as `UnchangedOrNot` | `DecisionsStand` |
| `KnowledgePublication` | `Frozen` as `FrozenAgain` | `VersionsSound` |
| `ToolJobs` | `ClaimJob` as `ClaimJobForever` | `VersionsSound` |
| `ToolJobs` | `Sweep` as `SweepTrusting` | `CancelledIsOver` |
| `GraphFacts` | `Written` as `WrittenUnfenced` | `FactsFenced` |
| `EvidenceRetention` | `Finishes` as `FinishesAnyway` | `OriginalsKept` |
| `PersonalMemory` | `HoldsScan` as `HoldsSwitches` | `MemoryFenced` |
| `RunBudget` | `MayCall` as `MayCallOneMore` | `CountersTell` |

### Bounds and why they are enough

* `MaxId` (2, 3 or 8) and `MaxIncidents` (0 to 3): an incident is a Redis loss or a
  recovery of one of the two services. `transport_liveness` takes three, a loss and both
  recoveries in any order, and `MaxId = 8`, so that duplicates stand on both sides of
  an event and relays are not stopped by the bound; one consumer tick and
  `MaxRedrives = 1` (2 in the code) keep it small. `transport_safety` takes two incidents, and two
  entries at a time tell skipping from applying.
* `RelayLimit`, `BatchLimit` (1 or 2, for 50 and 30): with two events both sides
  of "the batch is full" happen.
* The code's numbers 3 (attempts before quarantine), 2 (redrives, but for `transport_liveness`), 2 (attempts of a shared
  request, of an export) and 2 (revisions of a draft) are kept.
* `MaxAttempts`, `MaxJobAttempts`, `MaxTries`, `MaxQuickAttempts` (2 or 1, for 3) and
  `MaxFailures` (1, for 3): two attempts are what a takeover takes; the bound itself is
  part of the types. The proofs cover every value.
* `MaxRounds = 2` for 12 and `MaxTurns = 1` for 6: two rounds have a call of tools and a
  text, or a limit at the second; an investigation's further rounds repeat the first.
  `MaxSteps` is defined by `MaxRounds` and guards nothing: that no investigation needs more
  steps is part of what `InvestigationTyped` proves. `MaxCrashes = 1` is a crash at every
  place.
* `Keys = {1, 2}`: two specialists of which one depends on the other or not.
* `MaxSequence` (2 or 3) stops progress updates only, never a status.
* `Drainable` names the services whose drain is explored.
* `Punctual`, `PunctualTicks` say whether an execution may outlive its lease.
  `cancellation_safety` takes `Punctual = TRUE`: a tool execution is stopped by
  the monitor thread of its scope within its lease; `services` does without.
* `QuiescedRecovery` says whether a recovery waits for the producer's
  ticks; `transport_lost_on_recovery` shows what happens when it does not.
* `run_budget` takes two rounds (two investigation calls at the same time compete for
  tokens only one can have) and so at most four calls, two tools of which one
  is charged, two attempts, and usages below and above what was reserved.
  `Capped = TRUE` is the harder case; without a cap `NeverOverspent` says nothing.
* `Retryable = {r1}` in `cancellation_safety` is the case of most tools (`business.*`), with two
  claims of the job; `services` has a job of each kind.
* `Tracked` holds the runs whose tool is one the reconciling tick asks after
  (`business.*`, `web.*`).
* Everywhere else two of what competes (submissions, drafters, couriers, clients, workers,
  rebuilders, sweeps) and as many rows, revisions or switches as two competitors can
  tell apart: `MaxRuns`, `MaxJobs`, `MaxExports`, `MaxSessions`, `MaxVersions`, `MaxScopes`,
  `MaxSources` are 2, revisions and epochs 3 or 4. `Own = {}` leaves out the exports
  a user asks for, with which `gateway` would take too long; `ExportsAreSound` and
  `DeliveriesEnd` are proved for every `Own`.
* `MaxPending = 2` and `MaxProposals = 2` (20 and 4): a reading that suggests more than there is
  room for, and one that suggests two things at once, both happen.

Symmetry is used in safety runs only, over actors the specifications do not
distinguish; `Alike` permutes one pair of values that the parts of a sum use for
their actors, and one for their data, each in a part whose specification compares them for
equality only. Events and rows are numbers and are not symmetric. `investigation` checks
liveness and has no symmetry.
No run checks for deadlock: operators and users may do nothing, and every
bounded history ends.

### Fairness
Celery beat starts each tick every few seconds and a lease runs out by itself:
weak fairness of `RelayStep`, `ConsumerStep` and `LeaseExpires` in the transport. For
cancellation: acceptance of a delivered command, the repetition of the cancel
request, projection, time, and the reconciling tick are weakly fair (the gateway repeats
the request on every tick until the run has ended, so it gets through some
time). `Conclude` is strongly fair: a reconciling tick may be
killed before it writes its verdict, but not every time. No user, operator,
release, worker or executor is assumed to do anything; workers may die each time.
`InvestigationFairness` is weak fairness of the worker's steps: a lapsed run is claimed
by another tick; that there are only so many claims is in `RunLifecycle`. Its only use is
`SinglePublishes`, which speaks of the behaviours that are a single investigator's.

### Findings
* `NeverOrphaned` (`transport_lost_on_recovery`): `relay` marks a row `sent` by its id
  alone, so an outbox replay between its XADD into a lost Redis and that update is
  undone for the row.
* `EventuallyHandled` (`transport_poison_starves`): only `ValueError` counts as a refusal.
* `CancelledMeansStopped` (`cancellation_untracked_tool`): the reconciler does not ask after
  `mcp`, `skill`, `sandbox` and `vision` calls.
* `AnswerSawSearch` (`investigation_unseen_search`): a worker that dies between the
  observation of a search it has added and the checkpoint leaves a successor that takes
  the text written before the search for an answer.

Seen in the code while modelling, without a run of their own:

* A redrive tick that is slow puts back a row that was requeued again since it read it
  (`event_governance.py:93`), and so spends a retry without an attempt.
* `query_stopped_at` outlives the attempt it was written for (`tools.py:464`): the sweep takes
  the confirmation of a first execution for that of the second, which was lost. So of a job that may
  be executed again, `CancelledIsConfirmed` asks for the confirmation of some execution only; TLC
  refutes the statement about the last one.
* A web original whose sweep has stopped after the object was removed stays `deleting`. A run
  that refers to it, by a retained query or file or by evidence inserted after the lease, takes no
  lease; the second check of the next sweep finds the reference and sets the row back to
  `active` (`retention.py:123-126`) without looking for the object, and readers are admitted to
  what is gone. The same happens when a sweep has outlived its five minutes and another one is
  at work on the row. `ReadUndisturbed` excepts exactly these rows (`late`) and holds of all
  others, whoever refers to them and when.
* An ingestion job whose upload never arrives stays `receiving` and blocks later edits
  of its document until it is cancelled.
* A quick answer whose attempts understand the question differently makes two local lookups, one
  of the knowledge base and one of the business data (`quick_web.py:280`, `285`).
* A quick answer's observation stands for all attempts, also when the documents from which the
  question is understood have changed in between and it is understood differently.

## 5. Proofs

All theorems hold for every value of the constants that satisfies the ASSUMEs of
the module: any finite set of numbered events, any sets of relays, ticks, runs,
workers, jobs, executors, callers, submissions, clients or sweeps, any limits. Each
inductive invariant was an invariant of a TLC run before it was proved.

Two theorems have hypotheses about constants, each a fact of a deployment:

| hypothesis | meaning | theorems |
|---|---|---|
| `Punctual` | no tool execution outlives its lease: the monitor of its scope stops it | `CancelledRunsStopped`, `CancelledIsTheEnd` |
| `Runs \subseteq Tracked` | the reconciling tick asks after every tool; `cancellation_untracked_tool` is what happens otherwise | the same |

`NothingOrphaned` has `QuiescedRecovery` in its statement for the same reason.

* `EventTransportProofs`. The inductive invariant is `TransportInv`. Types,
  `AppliedAtMostOnce` and `NoSilentSkip` are not inductive alone. `NoSilentSkip` needs
  `HolderInv`: the tick the fence names stands just above the cursor and what it has
  read is what the stream still says, so that its next commit moves the cursor past one
  entry only, which it records. `NeverOrphaned` needs `RelayInv` (a row about to be
  marked is in the stream) under `QuiescedRecovery`. `Provenance` keeps an unpublished
  event out of everything, for the refinement. Then: `TypeCorrect`, `AtMostOnce`,
  `NothingSkipped`, `NothingOrphaned`, `CursorMonotone`, and
  `TransportRefinesDelivery`, that every step is one of `EventDelivery` or a
  stutter.
* `ToolJobsProofs`. The inductive invariant is `JobsInv`. `NeverRepeated` rests on
  `Claims` (fences are issued by their job, to one executor each) and on a job
  that is not retryable having at most one attempt; `ResultStands` on
  `Progress`: a job whose cancellation was requested is cancelling or settled,
  and a sweep only carries the verdicts cancelled and failed; `ToolsAreSound` adds
  `Confirmed`: what is called cancelled has been left by its last attempt, or by some attempt if it
  may be executed again.
* `RunCancellationProofs`. First the runs by themselves: the inductive invariant is
  `LifecycleInv`. `EventsTellStatus` needs `Numbered` (no event is numbered above
  `sequence`) and `Told`. `OwnerStopped` needs `Fenced` (a busy worker's token has been
  issued by its run, and no two busy workers of a run hold the same one) and `Stopped`
  (once a cancellation is acknowledged nobody who holds the run's fence is executing it,
  and a tick's verdict "cancelled" rests on an acknowledgment). `NoWayBack` is an action
  property with the same invariant. Then the composition: every step of it is a
  step of `RunLifecycle` and of `ToolJobs` or leaves their variables alone, so their
  theorems hold of it. `SystemInv` adds what relates the services: `Spoken` (nothing is
  announced after an end), `Heard` (an end the gateway knows is the run's and the last word)
  and, for punctual executions, `Over`: a run that is being cancelled while its row names a
  tool was cancelled by its user, which closes the door to a new authorization, and once
  a tick has found the tool stopped it is. `SystemTypesHold`, `GatewayLearnsTheEnd`,
  `CancelledRunsStopped` and `CancelledIsTheEnd` follow. `Heard` does not use the order
  in which events arrive.
* `RunBudgetProofs`. The inductive invariant is `BudgetInv`. `NeverOverspent` is inductive
  given the types: an admission is filtered in the transaction that charges it, and a
  settlement adds no more than the history variable `excess` records.
  `UnknownCounted` needs `Fresh` (an admission opens a row that was not there)
  and the cardinality facts `FiniteParts` and `CountBoth`; `NothingLeftOpen` needs `Fenced`
  (no fence is ahead of the run's attempt). `Accounting` counts the tokens of the rows one by one
  (`Tokens`), so that sums are cardinalities: a row that changes its charge or its status
  changes a sum by that charge (`RowChanges`), and rows that are only marked leave it as it is
  (`SumsMarked`). `ClosedOut` is an action property of well-typed states.
* `SpecialistsProofs`. The inductive invariant is `SpecialistsInv`. That the answer comes
  last looks simple and needs most of it: a synthesis begins when nothing is ready and nobody of the
  pool is at work, so it must be impossible that a task is open then. `Laid` says that tasks are
  what their plan says, each needing earlier keys only; of the open tasks the least one
  needs finished ones, so it is ready (`NothingOpen`, by well-founded induction on numbers).
  `Manned` says that the pool has one specialist of the current fence for an open task,
  `Course` and `Closed` what the checkpoint knows, and how far the coordinator may be ahead of it: on its
  way to an answer or to a closeout. `DeliveriesStand` says that no
  thread of a lost lease writes over a finished task.
* `InvestigationProofs`, about the other ways to an answer.
  `InvestigationInv`: every phase that ends uses up some of `Left`, which bounds the steps
  (`Formed`); a draft that is kept has been reviewed (`Kept`); a success of an investigation had a
  text that was ready, and the limit that stopped it otherwise is remembered through every crash
  (`Limits`, `Ahead`); between the two halves of an answer the run is closing and its checkpoint is not
  (`Closing`); what is reported is what the graph has ended with (`Reported`).
  `QuickInv`: what an execution without a limit has passed, its journal has (`Whole`), where
  the journal may be an earlier attempt's; ids are those of named steps (`JournalSound`,
  `JobsSound`), so that no step has two. `ReuseInv`: a caller at work has a scope, and one that
  reuses an answer finds its owner (`Scoped`); executions made and about to be made under a claim
  are no more than the attempts the row has counted (`Charged`), and a spent row
  is not claimed. `AnswersAreSound` puts them together for `MCInvestigation`.
* `ServicesProofs`. `PublicationInv`: the parse a worker indexes is the frozen one
  (`Working`), chunks are of that parse only (`Indexed`), a version that is ready is out of the
  reach of workers and cancellations (`Ready`). `GraphInv`: a commit that no writer has disturbed
  still has what it found (`CleanFound`); what people decide disturbs it.
  `ProjectionInv`: what a rebuild holds, or Neo4j is labelled with, at the current revision are the
  current edges (`Labelled`); a revision read before the rows can be too old for them, never
  too new. `RetentionInv`: a sweeper at the revision of the row it has closed is alone
  with it (`Alone`), and the quota is counted (`Counted`); `StoredIsPaid` needs `Removed` (what a
  sweep past the removal would give back is not stored). `ReadUndisturbed` needs `Undisturbed`: unless a row
  was reopened too late, whoever nears its object, or has removed it, has shut it.
  `MemoryInv`: what a run has bound is unchanged while the settings are at the revision it
  pinned (`Recalled`).
* `GatewayProofs`. `DelegationInv` adds to the types `Witnessed` (what holds now has
  been seen to hold by every check under way), `Read` (what a check has read of owner and run
  held) and `NotYet` (only a finished check has allowed something); `AuthorityIsFresh` follows.
  `TitlesInv` adds `DraftsApart` (a drafter at work has a job of its own), `CallsCounted` (whoever
  asked a model was its job's only drafter, and the job is not queued again) and `PendingWaits`;
  `TitlesSettle` and `ChosenStands` follow. `IntakeInv` adds `ShownWasTold` (the gateway shows no
  status the agent has not announced), `ConfirmedQuiet` (what a submission was
  told to be over is over), `FormsFilled` and `AnswersNameRuns`: what a submission was told outside
  the transaction is used inside it only through `ConfirmedQuiet`, and the transaction reads the
  active runs again. `SessionsInv` adds `OnePresents` and `SpentOnce` (a ticket is taken by one
  request and spent once) and `Genuine` (a password read under the account's version is its
  password). `ExportInv` is about the business service's side (`Won`, `Tracked`, `Rendering`,
  `OwnAttempt`, `SweepsAbandoned`: only an attempt whose lease has run out leaves an old file, and only
  such files are swept) and about the gateway's (`Known`: what couriers were told is so).

`MCInvestigation`, `MCGateway` and `MCServices` are sums, and their theorems are proved of the sum:
`PartSpecs` says that the sum implements the specification of each part (the variables of a part
that does not run keep their initial values, which is a stutter), so `AnswersAreSound`,
`IntakeIsSound`, `ExportsAreSound`, `SessionsAreSound`, `DecisionsAreFinal`, `VersionsAreSound`,
`OriginalsAreKept` and `PartsKeepTheirPromises` follow from what the parts promise.

Every invariant and action property that a passing run checks is proved. Only model-checked:

* liveness (`EventuallyHandled`, `CancellationEnds`, `SinglePublishes`): fairness and
  ENABLED are out of the prover's reach;
* the four violations, which are counterexamples.

## 6. What is not modelled

* The content of questions, prompts, model answers, documents, SQL and events,
  and everything computed from it: data to these properties. That takes out the
  parsers, chunking, retrieval, SQL policy, statistics, rendering, context
  compaction, citations and the wording of titles.
* Audit rows, idempotency keys of operators, reports of queue depth, logs.
* In the run lifecycle, the phases of an investigation: between two writes a worker is
  one nondeterministic step. In the investigation, in turn, who may write and what may be
  spent: that is `RunLifecycle` and `RunBudget`.
* In a multi-agent run, the `active_tools` of specialists and their confirmation.
* In `Sessions`: registration, rate limits, CSRF and origins, logout tickets, signatures.
* In `ConversationIntake`: history, reading and deletion, attachments.
* In `KnowledgePublication`: access scopes, catalog and reading; in `GraphFacts`: merges of
  entities, aliases, facts of several documents; in `EvidenceRetention`: retention of the
  agent's own rows; in `PersonalMemory`: expiry, size limits, the export of notes.
* Clocks: one reading per transaction, no skew between the database clients.
* Configuration, evaluations, wiki, skills and MCP settings: single
  compare-and-set transactions on one row; a model would restate their filters.
* Provider, sandbox, MCP, web and warehouse I/O: their jobs are `ToolJobs`, their answers
  nondeterministic.
* The gateways that forward a request, user interfaces, wire schemas, deployment and
  scripts: no state of their own.
