----------------------------- MODULE GraphFacts -----------------------------
(***************************************************************************)
(* The knowledge graph of one document.  Extraction jobs take a published  *)
(* version chunk by chunk to a model (semibrain_business/                  *)
(* graph_extraction.py, graph_worker.py); managers review, edit, cancel    *)
(* and configure by commands that compare and raise one graph revision     *)
(* (graph.py).  What reaches Neo4j is in GraphProjection.                  *)
(* A commit is a Mongo transaction: it reads a snapshot, and aborts when   *)
(* another one has since written a document it writes.                     *)
(***************************************************************************)
EXTENDS Naturals, FiniteSets

CONSTANTS
  Extractors,     \* workers in graph.work at the same time
  Facts,          \* relations between two entities, in the form of a relation_key
  MaxJobs, MaxTries, MaxChunks, MaxEditions,  \* bounds: jobs; claims of a chunk (3); chunks; versions
  MaxChanges      \* bound on graph_state.revision

\* A document has a version, and a version chunks.
ASSUME GraphAssumption == {MaxJobs, MaxTries, MaxChanges} \subseteq Nat /\ {MaxChunks, MaxEditions} \subseteq Nat \ {0}

NoFact == "nothing"
Nobody == "nobody"
Live == {"queued", "running"}
JobStates == Live \cup {"absent", "succeeded", "failed", "cancelled", "superseded"}

VARIABLES
  active,      \* documents: active_version (0: unpublished or revoked)
  enabled,     \* graph_extraction_policy: automatic extraction is on
  jobs,        \* graph_extraction_jobs; owner stands for the fence of the last claim
  pending,     \* graph_candidates with status pending
  decided,     \* the relation keys in graph_decisions
  edges,       \* graph_edges
  revision,    \* graph_state.revision
  extractor    \* each process_one; decided: the snapshot of its transaction

graphVars == <<active, enabled, jobs, pending, decided, edges, revision, extractor>>

Editions == 1..MaxEditions
JobIds == 1..MaxJobs
EdgeRecords == [fact : Facts, version : Editions, origin : {"llm", "manual"}, enabled : BOOLEAN, locked : BOOLEAN]
Idle == [step |-> "idle", job |-> 0, done |-> 0, fact |-> NoFact, sure |-> FALSE, decided |-> {}, clean |-> TRUE]

GraphTypes ==
  /\ active \in 0..MaxEditions /\ enabled \in BOOLEAN /\ revision \in 0..MaxChanges
  /\ jobs \in [JobIds -> [status : JobStates, version : 0..MaxEditions, automatic : BOOLEAN, completed : 0..MaxChunks,
                          attempts : 0..MaxTries, owner : Extractors \cup {Nobody}, leased : BOOLEAN]]
  /\ pending \subseteq [fact : Facts, version : Editions, job : JobIds]
  /\ decided \subseteq Facts /\ edges \subseteq EdgeRecords
  /\ extractor \in [Extractors -> [step : {"idle", "claimed", "found", "commit"}, job : 0..MaxJobs, done : 0..MaxChunks,
                                   fact : Facts \cup {NoFact}, sure : BOOLEAN, decided : SUBSET Facts, clean : BOOLEAN]]

Absent == [status |-> "absent", version |-> 0, automatic |-> FALSE, completed |-> 0, attempts |-> 0,
           owner |-> Nobody, leased |-> FALSE]

GraphInit ==
  /\ active = 1 /\ enabled = TRUE /\ revision = 0
  /\ jobs = [j \in JobIds |-> Absent]
  /\ pending = {} /\ decided = {} /\ edges = {}
  /\ extractor = [x \in Extractors |-> Idle]

-----------------------------------------------------------------------------
(* Transactions *)

Graph == <<"graph", 0>>
Document == <<"document", 0>>
JobRow(j) == <<"job", j>>

WrittenUnfenced(x) == {Document, JobRow(extractor[x].job)}

\* What commit_chunk writes in any case.  The increments of graph_write_fence
\* and of the graph revision are there for the conflicts they cause.
Written(x) == {Graph, Document, JobRow(extractor[x].job)}

\* The open transactions after somebody has written these documents.
After(writes) ==
  [x \in Extractors |->
    IF extractor[x].step = "commit" /\ writes \cap Written(x) # {}
      THEN [extractor[x] EXCEPT !.clean = FALSE] ELSE extractor[x]]

\* command: with the expected revision, at most one change each.
Command(writes) ==
  /\ revision < MaxChanges
  /\ revision' = revision + 1
  /\ extractor' = After(writes \cup {Graph})

-----------------------------------------------------------------------------
(* Jobs *)

\* The fence and the lease of a job count only while it runs.
Left(job, status) == [job EXCEPT !.status = status, !.owner = Nobody, !.leased = FALSE]

\* enqueue: the version was read before the transaction.
Enqueue(v, automatic) ==
  \E j \in JobIds :
    /\ jobs[j].status = "absent" /\ \A i \in 1..j - 1 : jobs[i].status # "absent"
    /\ jobs' = [i \in JobIds |->
         IF i = j THEN [Absent EXCEPT !.status = "queued", !.version = v, !.automatic = automatic]
         ELSE IF jobs[i].status \in Live THEN Left(jobs[i], "superseded") ELSE jobs[i]]
    /\ pending' = {}

Superseded == {JobRow(j) : j \in {i \in JobIds : jobs[i].status \in Live}}

\* scan_published: not when a job for the same input was made and not superseded.
ScanPublished(v) ==
  /\ enabled
  /\ ~ \E j \in JobIds : jobs[j].version = v /\ jobs[j].status \notin {"absent", "superseded"}
  /\ Enqueue(v, TRUE)
  /\ extractor' = After(Superseded)
  /\ UNCHANGED <<active, enabled, decided, edges, revision>>

QueueJob(v) ==
  /\ Enqueue(v, FALSE)
  /\ Command(Superseded)
  /\ UNCHANGED <<active, enabled, decided, edges>>

SetPolicy ==
  /\ enabled' = ~enabled
  /\ Command({})
  /\ UNCHANGED <<active, jobs, pending, decided, edges>>

ControlJob(j, action) ==
  /\ \/ action = "cancel" /\ jobs[j].status \in Live
     \/ action = "retry" /\ jobs[j].status \in {"failed", "cancelled"} /\ active = jobs[j].version
  /\ jobs' = [jobs EXCEPT ![j].status = IF action = "retry" THEN "queued" ELSE "cancelled", ![j].attempts = 0]
  /\ Command({JobRow(j)})
  /\ UNCHANGED <<active, enabled, pending, decided, edges>>

LapseExtraction(j) ==
  /\ jobs[j].status = "running" /\ jobs[j].leased
  /\ jobs' = [jobs EXCEPT ![j].leased = FALSE]
  /\ UNCHANGED <<active, enabled, pending, decided, edges, revision, extractor>>

\* documents: a version is published, restored or withdrawn.
ChangeActive(v) ==
  /\ v # active
  /\ active' = v
  /\ extractor' = After({Document})
  /\ UNCHANGED <<enabled, jobs, pending, decided, edges, revision>>

-----------------------------------------------------------------------------
(* process_one *)

\* An increment past the limit ends the job before anything is tried.
ClaimExtraction(x, j) ==
  /\ extractor[x].step = "idle"
  /\ jobs[j].status = "queued" \/ (jobs[j].status = "running" /\ ~jobs[j].leased)
  /\ LET exhausted == jobs[j].attempts >= MaxTries IN
     /\ jobs' = [jobs EXCEPT ![j] =
                   IF exhausted THEN Left(@, "failed")
                   ELSE [jobs[j] EXCEPT !.status = "running", !.attempts = @ + 1, !.owner = x, !.leased = TRUE]]
     /\ extractor' = IF exhausted THEN After({JobRow(j)})
                     ELSE [After({JobRow(j)}) EXCEPT ![x] = [Idle EXCEPT !.step = "claimed", !.job = j,
                                                                      !.done = jobs[j].completed]]
  /\ UNCHANGED <<active, enabled, pending, decided, edges, revision>>

GuardStopped(x) ==
  LET job == jobs[extractor[x].job] IN
  /\ job.owner = x /\ job.status \in {"running", "cancelled"} /\ job.leased
  /\ job.automatic => enabled
  /\ job.version = active

\* guard_job: the fence, the status, the lease, the policy, the source.
Guard(x) ==
  LET job == jobs[extractor[x].job] IN
  /\ job.owner = x /\ job.status = "running" /\ job.leased
  /\ job.automatic => enabled
  /\ job.version = active

\* The chunk goes to the agent, which asks the guard too, and a fact comes back.
Extract(x, f, sure) ==
  /\ extractor[x].step = "claimed" /\ Guard(x)
  /\ sure => f # NoFact
  /\ extractor' = [extractor EXCEPT ![x].step = "found", ![x].fact = f, ![x].sure = sure]
  /\ UNCHANGED <<active, enabled, jobs, pending, decided, edges, revision>>

\* The first read of the transaction takes its snapshot.
BeginCommit(x) ==
  /\ extractor[x].step = "found" /\ Guard(x)
  /\ jobs[extractor[x].job].completed = extractor[x].done
  /\ extractor' = [extractor EXCEPT ![x].step = "commit", ![x].decided = decided, ![x].clean = TRUE]
  /\ UNCHANGED <<active, enabled, jobs, pending, decided, edges, revision>>

\* The callback runs again from its start.
AbortCommit(x) ==
  /\ extractor[x].step = "commit" /\ ~extractor[x].clean
  /\ extractor' = [extractor EXCEPT ![x].step = "found", ![x].decided = {}, ![x].clean = TRUE]
  /\ UNCHANGED <<active, enabled, jobs, pending, decided, edges, revision>>

Fact(f, v, locked) == [fact |-> f, version |-> v, origin |-> "llm", enabled |-> TRUE, locked |-> locked]

\* The edge of an extracted relation has one identity in each version.
WriteFact(f, v, locked) ==
  {e \in edges : ~(e.origin = "llm" /\ e.fact = f /\ e.version = v)} \cup {Fact(f, v, locked)}

\* protected: a human decision leaves no room for an extracted fact.
Protected(x) == extractor[x].fact \in extractor[x].decided

CommitChunk(x) ==
  LET local == extractor[x]
      job == jobs[local.job]
      open == local.fact # NoFact /\ ~Protected(x) IN
  /\ local.step = "commit" /\ local.clean /\ revision < MaxChanges
  /\ edges' = IF open /\ local.sure THEN WriteFact(local.fact, job.version, FALSE) ELSE edges
  /\ pending' = IF open /\ ~local.sure
                  THEN pending \cup {[fact |-> local.fact, version |-> job.version, job |-> local.job]} ELSE pending
  /\ jobs' = [jobs EXCEPT ![local.job] =
       [Left(job, IF job.completed + 1 = MaxChunks THEN "succeeded" ELSE "queued")
          EXCEPT !.completed = @ + 1, !.attempts = 0]]
  /\ revision' = revision + 1
  /\ extractor' = [After(Written(x)) EXCEPT ![x] = Idle]
  /\ UNCHANGED <<active, enabled, decided>>

\* Refused by a guard (403, 409), or failed by the model, the agent or the chunk.
EndAttempt(x) ==
  LET local == extractor[x]
      mine == jobs[local.job].owner = x /\ jobs[local.job].status = "running" IN
  /\ \E stopped \in BOOLEAN :
       /\ \/ local.step = "claimed" /\ (stopped <=> ~Guard(x))
          \/ local.step = "found" /\ stopped /\ ~(Guard(x) /\ jobs[local.job].completed = local.done)
       /\ jobs' = IF ~mine THEN jobs
                  ELSE [jobs EXCEPT ![local.job] =
                         Left(@, IF stopped THEN "superseded"
                                 ELSE IF jobs[local.job].attempts >= MaxTries THEN "failed" ELSE "queued")]
       /\ extractor' = [extractor EXCEPT ![x] = Idle]
  /\ UNCHANGED <<active, enabled, pending, decided, edges, revision>>

CrashExtractor(x) ==
  /\ extractor[x].step # "idle"
  /\ extractor' = [extractor EXCEPT ![x] = Idle]
  /\ UNCHANGED <<active, enabled, jobs, pending, decided, edges, revision>>

-----------------------------------------------------------------------------
(* People *)

\* A rejection, or a correction to another relation, withdraws what was
\* published of this one.
Withdrawn(f, from) ==
  {IF e.fact = f /\ e.origin = "llm" /\ ~e.locked THEN [e EXCEPT !.enabled = FALSE, !.locked = TRUE] ELSE e : e \in from}

Reject(c) ==
  /\ c \in pending
  /\ edges' = Withdrawn(c.fact, edges)
  /\ decided' = decided \cup {c.fact}
  /\ pending' = pending \ {c}
  /\ Command({JobRow(c.job)})
  /\ UNCHANGED <<active, enabled, jobs>>

Approve(c, f) ==
  /\ c \in pending /\ c.version = active
  /\ edges' = IF f = c.fact THEN WriteFact(f, c.version, TRUE) ELSE Withdrawn(c.fact, WriteFact(f, c.version, TRUE))
  /\ decided' = decided \cup {c.fact, f}
  /\ pending' = pending \ {c}
  /\ Command({Document, JobRow(c.job)})
  /\ UNCHANGED <<active, enabled, jobs>>

\* save_edge: a new edge, or an edge rewritten by hand, as an enabled one.
SaveEdge(old, f) ==
  /\ old \subseteq edges /\ Cardinality(old) <= 1 /\ active # 0
  /\ edges' = (edges \ old) \cup {[fact |-> f, version |-> active, origin |-> "manual", enabled |-> TRUE, locked |-> TRUE]}
  /\ decided' = decided \cup {f} \cup {e.fact : e \in old}
  /\ Command({Document})
  /\ UNCHANGED <<active, enabled, jobs, pending>>

ChangeEdgeState(e, on) ==
  /\ e \in edges /\ (on => e.version = active)
  /\ edges' = (edges \ {e}) \cup {[e EXCEPT !.enabled = on, !.locked = TRUE]}
  /\ decided' = decided \cup {e.fact}
  /\ Command(IF on THEN {Document} ELSE {})
  /\ UNCHANGED <<active, enabled, jobs, pending>>

-----------------------------------------------------------------------------

ExtractorStep(x) ==
  \/ \E j \in JobIds : ClaimExtraction(x, j)
  \/ \E f \in Facts \cup {NoFact}, sure \in BOOLEAN : Extract(x, f, sure)
  \/ BeginCommit(x) \/ AbortCommit(x) \/ CommitChunk(x) \/ EndAttempt(x) \/ CrashExtractor(x)

ManagerStep ==
  \/ SetPolicy
  \/ \E v \in Editions : QueueJob(v)
  \/ \E v \in 0..MaxEditions : ChangeActive(v)
  \/ \E j \in JobIds, action \in {"cancel", "retry"} : ControlJob(j, action)
  \/ \E c \in pending : Reject(c) \/ \E f \in Facts : Approve(c, f)
  \/ \E old \in {{}} \cup {{e} : e \in edges}, f \in Facts : SaveEdge(old, f)
  \/ \E e \in edges, on \in BOOLEAN : ChangeEdgeState(e, on)

GraphNext ==
  \/ \E x \in Extractors : ExtractorStep(x)
  \/ ManagerStep
  \/ \E v \in Editions : ScanPublished(v)
  \/ \E j \in JobIds : LapseExtraction(j)

GraphSpec == GraphInit /\ [][GraphNext]_graphVars

-----------------------------------------------------------------------------
(* Properties *)

Automatic(es) == {e \in es : e.origin = "llm" /\ ~e.locked}

\* An extracted fact is never published of a relation somebody has already
\* decided about, however old the snapshot its worker decides by.
HumanDecisionStands ==
  [][\A e \in Automatic(edges') \ Automatic(edges) : e.fact \notin decided]_graphVars

\* A fact is published for the version that is active at that moment, by a
\* job that is running then, and by an automatic one only while the policy
\* is on: a cancelled or superseded job writes nothing any more.
LateWritesNothing ==
  [][\A e \in Automatic(edges') \ Automatic(edges) :
       /\ e.version = active
       /\ \E j \in JobIds : /\ jobs[j].status = "running" /\ jobs[j].version = e.version
                            /\ jobs'[j].completed = jobs[j].completed + 1
                            /\ jobs[j].automatic => enabled]_graphVars

=============================================================================
