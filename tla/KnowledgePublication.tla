------------------------ MODULE KnowledgePublication ------------------------
(***************************************************************************)
(* The versions of one document: uploads, edits, reviews and reprocessing  *)
(* make jobs; workers parse, freeze, index and stage them under a lease    *)
(* (semibrain_business/knowledge.py); managers publish, withdraw and       *)
(* restore (knowledge_api.py, knowledge_revisions.py, reprocessing.py,     *)
(* publication.py).  Job j makes version j.  A parser need not give the    *)
(* same result twice.  Each change of the document filters by its revision.*)
(***************************************************************************)
EXTENDS Naturals, Sequences, FiniteSets

CONSTANTS
  Ingesters,    \* workers in process_one at the same time
  Parses,       \* good results of a parser
  MaxAttempts,  \* claims of a job: 3
  MaxVersions,  \* bound on jobs
  MaxRevisions  \* bound on the revision of the document

NoParse == "unparsed"
Poor == {"unclear", "stopped"}   \* needs_attention or failed; cancelled
Pending == {"receiving", "queued", "running", "staged"}

\* The results of a parser are no marks; a document comes with its first upload.
ASSUME PublicationAssumption ==
  /\ MaxAttempts \in Nat /\ {MaxVersions, MaxRevisions} \subseteq Nat \ {0}
  /\ Parses # {} /\ Parses \cap (Poor \cup {NoParse}) = {}

IngestionStatuses == Pending \cup {"failed", "cancelled", "needs_attention", "published", "unpublished"}

VARIABLES
  document,   \* revision, active_version, last_published_version (0: none)
  ingestion,  \* ingestion_jobs: status, generation, attempt (its fence), lease, cancel_requested, the edited snapshot
  versions,   \* document_versions, by job: the frozen parse, projection_verified
  chunks,     \* by job: the parses its chunks and vectors were made of
  released,   \* the versions in publication_commands
  ingester    \* each worker: step, job, fence, the parse it holds

publicationVars == <<document, ingestion, versions, chunks, released, ingester>>

Versions == DOMAIN ingestion
Free == [step |-> "idle", job |-> 0, fence |-> 0, parse |-> NoParse]

PublicationTypes ==
  /\ document \in [revision : 1..MaxRevisions, active : 0..MaxVersions, last : 0..MaxVersions]
  /\ ingestion \in Seq([status : IngestionStatuses, generation : 1..MaxRevisions, attempt : 0..MaxAttempts,
                        leased : BOOLEAN, cancel : BOOLEAN, snapshot : Parses \cup {NoParse}])
  /\ versions \in [1..MaxVersions -> [parse : Parses \cup Poor \cup {NoParse}, verified : BOOLEAN]]
  /\ chunks \in [1..MaxVersions -> SUBSET Parses]
  /\ released \subseteq Versions
  /\ ingester \in [Ingesters -> [step : {"idle", "look", "parse", "quality", "index", "write", "stage"},
                                 job : 0..MaxVersions, fence : 0..MaxAttempts, parse : Parses \cup Poor \cup {NoParse}]]

Entry(status, generation, snapshot) ==
  [status |-> status, generation |-> generation, attempt |-> 0, leased |-> FALSE, cancel |-> FALSE, snapshot |-> snapshot]

\* The document comes with its first upload.
PublicationInit ==
  /\ document = [revision |-> 1, active |-> 0, last |-> 0]
  /\ ingestion = <<Entry("receiving", 1, NoParse)>>
  /\ versions = [j \in 1..MaxVersions |-> [parse |-> NoParse, verified |-> FALSE]]
  /\ chunks = [j \in 1..MaxVersions |-> {}]
  /\ released = {} /\ ingester = [w \in Ingesters |-> Free]

-----------------------------------------------------------------------------
(* New versions. *)

AtRevision(statuses) == {j \in Versions : ingestion[j].generation = document.revision /\ ingestion[j].status \in statuses}

NewVersion(status, snapshot) ==
  /\ Len(ingestion) < MaxVersions /\ document.revision < MaxRevisions
  /\ document' = [document EXCEPT !.revision = @ + 1]
  /\ ingestion' = Append(ingestion, Entry(status, document.revision + 1, snapshot))
  /\ UNCHANGED <<versions, chunks, released, ingester>>

\* upload() of another file does not look at pending jobs; reprocess() does, and takes
\* the active version, or the latest job when nothing is active.  A reprocessed edit
\* keeps its snapshot.
Upload == NewVersion("receiving", NoParse)
Reprocess ==
  /\ AtRevision(Pending) = {}
  /\ NewVersion("queued", ingestion[IF document.active # 0 THEN document.active ELSE Len(ingestion)].snapshot)

\* edit() starts from the active version, review_parse() from one that needs attention
\* and has not been followed by anything.
Edit == document.active # 0 /\ AtRevision(Pending) = {} /\ \E p \in Parses : NewVersion("receiving", p)
ReviewParse ==
  /\ \E j \in AtRevision(IngestionStatuses \ Pending) : versions[j].parse = "unclear"
  /\ AtRevision(Pending) = {} /\ \E p \in Parses : NewVersion("receiving", p)

\* The client's file or snapshot is stored: at once, in a repetition, or never.
Received(j) ==
  /\ ingestion[j].status = "receiving"
  /\ ingestion' = [ingestion EXCEPT ![j].status = "queued"]
  /\ UNCHANGED <<document, versions, chunks, released, ingester>>

\* cancel_ingestion().
CancelIngestion(j) ==
  /\ ingestion[j].status \in {"queued", "running"}
  /\ ingestion' = [ingestion EXCEPT ![j].cancel = TRUE, ![j].status = IF @ = "queued" THEN "cancelled" ELSE @]
  /\ UNCHANGED <<document, versions, chunks, released, ingester>>

-----------------------------------------------------------------------------
(* process_one(). *)

JobOf(w) == ingester[w].job
Job(w) == ingestion[JobOf(w)]
Turn(w, step) == ingester' = [ingester EXCEPT ![w].step = step]
Off(w) == ingester' = [ingester EXCEPT ![w] = Free]

\* The filter of every write but the first: the fence, and a lease that has not run out.
Fenced(w) == Job(w).attempt = ingester[w].fence /\ Job(w).status = "running" /\ Job(w).leased

\* A worker ends its job, unless it has lost it.  Nothing looks at the lease any more.
End(w, status) ==
  /\ ingestion' = IF Fenced(w) THEN [ingestion EXCEPT ![JobOf(w)].status = status, ![JobOf(w)].leased = FALSE] ELSE ingestion
  /\ Off(w)

ClaimIngestion(w, j) ==
  /\ ingester[w].step = "idle" /\ ingestion[j].attempt < MaxAttempts
  /\ ingestion[j].status = "queued" \/ (ingestion[j].status = "running" /\ ~ingestion[j].leased)
  /\ ingestion' = [ingestion EXCEPT ![j].status = "running", ![j].leased = TRUE, ![j].attempt = @ + 1]
  /\ ingester' = [ingester EXCEPT ![w] = [step |-> "look", job |-> j, fence |-> ingestion[j].attempt + 1, parse |-> NoParse]]
  /\ UNCHANGED <<document, versions, chunks, released>>

\* expire_exhausted().
ExpireIngestion(j) ==
  /\ ingestion[j].status = "running" /\ ~ingestion[j].leased /\ ingestion[j].attempt = MaxAttempts
  /\ ingestion' = [ingestion EXCEPT ![j].status = "failed"]
  /\ UNCHANGED <<document, versions, chunks, released, ingester>>

IngestionLapses(j) ==
  /\ ingestion[j].leased
  /\ ingestion' = [ingestion EXCEPT ![j].leased = FALSE]
  /\ UNCHANGED <<document, versions, chunks, released, ingester>>

\* The document has moved on: the job is failed under the fence alone.
Look(w) ==
  /\ ingester[w].step = "look"
  /\ IF document.revision = Job(w).generation THEN Turn(w, "parse") /\ UNCHANGED ingestion
     ELSE /\ ingestion' = IF Job(w).attempt = ingester[w].fence
                          THEN [ingestion EXCEPT ![JobOf(w)].status = "failed", ![JobOf(w)].leased = FALSE] ELSE ingestion
          /\ Off(w)
  /\ UNCHANGED <<document, versions, chunks, released>>

\* IngestionCancellation.is_set().
Stopped(w) ==
  \/ Job(w).cancel \/ Job(w).attempt # ingester[w].fence
  \/ document.revision # Job(w).generation

\* What parsing may give: some result of the parser, or the snapshot saved with the job.
Results(w) ==
  IF Job(w).snapshot # NoParse THEN {Job(w).snapshot}
  ELSE Parses \cup {"unclear"} \cup (IF Stopped(w) THEN {"stopped"} ELSE {})

\* Mutant of Frozen: a later attempt replaces the parse of an earlier one.
FrozenAgain(j, p) == p

\* $setOnInsert: the first committed parse is the version's.
Frozen(j, p) == IF versions[j].parse = NoParse THEN p ELSE versions[j].parse

\* The parser works alone until freeze_parse(); then the frozen parse is read again.
Freeze(w) ==
  /\ ingester[w].step = "parse" /\ Fenced(w)
  /\ \E q \in Results(w) : LET p == Frozen(JobOf(w), q) IN
       /\ versions' = [versions EXCEPT ![JobOf(w)].parse = p]
       /\ ingester' = [ingester EXCEPT ![w].parse = p, ![w].step = IF p \in Poor THEN "quality" ELSE "index"]
  /\ UNCHANGED <<document, ingestion, chunks, released>>

QualityCheck(w) ==
  /\ ingester[w].step = "quality"
  /\ \E s \in IF ingester[w].parse = "stopped" THEN {"cancelled"} ELSE {"failed", "needs_attention"} : End(w, s)
  /\ UNCHANGED <<document, versions, chunks, released>>

\* The check before the indexing.  It is made at most twice a second: a worker that has
\* checked while it parsed may miss what has changed since, but not one with a snapshot.
PassCancellation(w) ==
  /\ ingester[w].step = "index" /\ (Job(w).snapshot # NoParse => ~Stopped(w))
  /\ Turn(w, "write")
  /\ UNCHANGED <<document, ingestion, versions, chunks, released>>

\* Chunks, then vectors, whatever has become of the job.
Index(w) ==
  /\ ingester[w].step = "write"
  /\ chunks' = [chunks EXCEPT ![JobOf(w)] = @ \cup {ingester[w].parse}]
  /\ Turn(w, "stage")
  /\ UNCHANGED <<document, ingestion, versions, released>>

\* Mutant of MayStage: a cancellation is looked for only before the indexing.
MayStageUncancelled(w) == document.revision = Job(w).generation /\ Fenced(w)

MayStage(w) == ~Job(w).cancel /\ document.revision = Job(w).generation /\ Fenced(w)

\* staged(), a transaction.
Stage(w) ==
  /\ ingester[w].step = "stage" /\ MayStage(w)
  /\ versions' = [versions EXCEPT ![JobOf(w)].verified = TRUE]
  /\ End(w, "staged")
  /\ UNCHANGED <<document, chunks, released>>

\* An exception: any error, or INGESTION_CANCELLED.
IngestionFails(w) ==
  /\ ingester[w].step \in {"parse", "index", "write", "stage"}
  /\ \/ End(w, "failed")
     \/ ingester[w].step = "index" /\ Stopped(w) /\ End(w, "cancelled")
     \/ ingester[w].step = "stage" /\ Job(w).cancel /\ End(w, "cancelled")
  /\ UNCHANGED <<document, versions, chunks, released>>

IngesterDies(w) ==
  /\ ingester[w].step # "idle" /\ Off(w)
  /\ UNCHANGED <<document, ingestion, versions, chunks, released>>

-----------------------------------------------------------------------------
(* Managers. *)

Show(v, status) ==
  /\ document.revision < MaxRevisions
  /\ document' = [revision |-> document.revision + 1, active |-> v, last |-> v]
  /\ ingestion' = [ingestion EXCEPT ![v].status = status]
  /\ released' = released \cup {v}
  /\ UNCHANGED <<versions, chunks, ingester>>

\* Mutant of Publishable: a version is ready as soon as it is staged.
PublishableAnyTime(v) == versions[v].verified

Publishable(v) == versions[v].verified /\ ingestion[v].generation = document.revision

\* activate().
Publish(v) == Publishable(v) /\ Show(v, "published")

\* unpublish().
Unpublish ==
  /\ document.revision < MaxRevisions
  /\ document' = [revision |-> document.revision + 1, active |-> 0,
                  last |-> IF document.active # 0 THEN document.active ELSE document.last]
  /\ ingestion' = [j \in Versions |-> IF ingestion[j].status = "published"
                                        THEN [ingestion[j] EXCEPT !.status = "unpublished"] ELSE ingestion[j]]
  /\ UNCHANGED <<versions, chunks, released, ingester>>

\* republish(): the data were verified before the transaction that looks again.
Republish ==
  LET v == document.last IN
    /\ document.active = 0 /\ v # 0 /\ versions[v].verified
    /\ AtRevision(Pending \cup {"needs_attention"}) \ {v} = {}
    /\ Show(v, "published")

\* rollback() leaves the jobs as they are.
Rollback(v) ==
  /\ v \in released /\ versions[v].verified /\ AtRevision(Pending) = {}
  /\ Show(v, ingestion[v].status)

PublicationNext ==
  \/ Upload \/ Reprocess \/ Edit \/ ReviewParse \/ Unpublish \/ Republish
  \/ \E j \in Versions : \/ Received(j) \/ CancelIngestion(j) \/ ExpireIngestion(j) \/ IngestionLapses(j)
                         \/ Publish(j) \/ Rollback(j)
  \/ \E w \in Ingesters : \/ Look(w) \/ Freeze(w) \/ QualityCheck(w) \/ PassCancellation(w) \/ Index(w)
                          \/ Stage(w) \/ IngestionFails(w) \/ IngesterDies(w)
                          \/ \E j \in Versions : ClaimIngestion(w, j)

PublicationSpec == PublicationInit /\ [][PublicationNext]_publicationVars

-----------------------------------------------------------------------------
(* Properties. *)

\* Whatever attempts overlapped or were given up, a version that is ready has been
\* indexed from the one parse that its snapshot holds.
IndexedAsFrozen == \A v \in Versions : versions[v].verified => chunks[v] = {versions[v].parse}

\* A job whose cancellation was accepted never gives a version that could be published.
CancelledNeverReady == \A v \in Versions : ingestion[v].cancel => ~versions[v].verified

\* A version is first shown only while nothing newer has been accepted; what was made
\* for an earlier state of the document can never replace a newer decision.
ShownInOrder ==
  [][document'.active \notin {document.active, 0} \cup released =>
       \A j \in Versions : ingestion[j].generation <= ingestion[document'.active].generation]_publicationVars

=============================================================================
