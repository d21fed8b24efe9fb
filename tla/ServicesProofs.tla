--------------------------- MODULE ServicesProofs ---------------------------
(***************************************************************************)
(* Proofs about a document's versions, its extracted facts, their          *)
(* projection, web originals and personal notes, and that the sum of them  *)
(* which TLC explores (MCServices) keeps what each part promises.          *)
(***************************************************************************)
EXTENDS MCServices, ToolJobsProofs, FiniteSetTheorems, SequenceTheorems, TLAPS

-----------------------------------------------------------------------------
(* A document's versions: a frozen parse is never replaced, what is indexed *)
(* is always the frozen parse, and a version that has been verified is out  *)
(* of the reach of workers and of cancellations.                            *)

DocumentRecords == [revision : 1..MaxRevisions, active : 0..MaxVersions, last : 0..MaxVersions]
\* What a job may keep of an edit.
Snapshots == Parses \cup {NoParse}
EntryRecords == [status : IngestionStatuses, generation : 1..MaxRevisions, attempt : 0..MaxAttempts,
                 leased : BOOLEAN, cancel : BOOLEAN, snapshot : Snapshots]
VersionRecords == [parse : Parses \cup Poor \cup {NoParse}, verified : BOOLEAN]
IngesterRecords == [step : {"idle", "look", "parse", "quality", "index", "write", "stage"},
                    job : 0..MaxVersions, fence : 0..MaxAttempts, parse : Parses \cup Poor \cup {NoParse}]
Slots == 1..MaxVersions

PublicationShape ==
  /\ document \in DocumentRecords
  /\ ingestion \in Seq(EntryRecords)
  /\ versions \in [Slots -> VersionRecords]
  /\ chunks \in [Slots -> SUBSET Parses]
  /\ released \subseteq Versions
  /\ ingester \in [Ingesters -> IngesterRecords]

\* The types, with the records named.
LEMMA PublicationShapes == PublicationTypes <=> PublicationShape
BY DEF PublicationTypes, PublicationShape, DocumentRecords, EntryRecords, VersionRecords, IngesterRecords, Slots,
       Snapshots

\* Before a job can be indexed.
Early == {"receiving", "queued", "running"}

Numbered == Len(ingestion) \in Slots

\* Versions that are still to come have nothing, the others are no newer than the document.
Ahead == \A j \in Slots \ Versions : ~versions[j].verified /\ versions[j].parse = NoParse /\ chunks[j] = {}
Aged == \A j \in Versions : ingestion[j].generation <= document.revision

\* What is or was shown has been released.
Shown == {document.active, document.last} \subseteq {0} \cup released

Ready == \A j \in Versions : versions[j].verified =>
           ingestion[j].status \notin Early /\ ~ingestion[j].cancel /\ chunks[j] # {}

Indexed == \A j \in Slots : chunks[j] \subseteq {versions[j].parse}

\* The parse a worker indexes is the frozen one.
Working ==
  \A w \in Ingesters :
    /\ ingester[w].step # "idle" => ingester[w].job \in Versions
    /\ ingester[w].step \in {"index", "write", "stage"} =>
         ingester[w].parse \in Parses /\ versions[ingester[w].job].parse = ingester[w].parse
    /\ ingester[w].step = "stage" => ingester[w].parse \in chunks[ingester[w].job]

PublicationInv == PublicationShape /\ Numbered /\ Ahead /\ Aged /\ Shown /\ Ready /\ Indexed /\ Working

\* Versions are numbered by their jobs.
LEMMA VersionsNumbered ==
  ASSUME PublicationShape, Numbered
  PROVE  /\ Versions = 1..Len(ingestion) /\ Versions \subseteq Slots /\ Len(ingestion) \in Versions
         /\ Len(ingestion) \in Nat
         /\ \A j \in Versions : ingestion[j] \in EntryRecords
<1>1. ingestion \in Seq(EntryRecords) /\ Len(ingestion) \in Nat /\ Len(ingestion) \in 1..MaxVersions
  BY LenProperties DEF PublicationShape, Numbered, Slots
<1>2. Versions = 1..Len(ingestion)
  BY <1>1, LenProperties DEF Versions
<1>3. \A j \in Versions : ingestion[j] \in EntryRecords
  BY <1>1, <1>2, ElementOfSeq
<1>4. MaxVersions \in Nat
  BY PublicationAssumption
<1>5. 1..Len(ingestion) \subseteq Slots /\ Len(ingestion) \in 1..Len(ingestion)
  BY <1>1, <1>4 DEF Slots
<1> QED BY <1>1, <1>2, <1>3, <1>5

\* A new job is one nobody has cancelled.
LEMMA NewEntry ==
  ASSUME NEW status \in IngestionStatuses, NEW g \in 1..MaxRevisions, NEW p \in Snapshots
  PROVE  /\ Entry(status, g, p) \in EntryRecords /\ Entry(status, g, p).generation = g
         /\ Entry(status, g, p).cancel = FALSE
BY PublicationAssumption DEF Entry, EntryRecords

\* A worker that has ended is free.
LEMMA FreeIngester == Free \in IngesterRecords /\ Free.step = "idle"
BY PublicationAssumption DEF Free, IngesterRecords

\* The invariant holds at the beginning.
LEMMA PublicationInvInit == PublicationInit => PublicationInv
<1> SUFFICES ASSUME PublicationInit PROVE PublicationInv
  OBVIOUS
<1>1. 1 \in 1..MaxRevisions /\ 0 \in 0..MaxVersions /\ 1 \in Slots /\ {MaxVersions, MaxRevisions} \subseteq Nat
  BY PublicationAssumption DEF Slots
<1>2. document \in DocumentRecords
  BY <1>1 DEF PublicationInit, DocumentRecords
<1>3. PICK e : e = Entry("receiving", 1, NoParse)
  OBVIOUS
<1>4. e \in EntryRecords /\ e.generation = 1 /\ e.cancel = FALSE
  BY <1>1, <1>3, NewEntry DEF IngestionStatuses, Pending, Snapshots
<1>5. ingestion = <<e>>
  BY <1>3 DEF PublicationInit
<1>6. ingestion \in Seq(EntryRecords) /\ Len(ingestion) = 1 /\ Versions = {1} /\ ingestion[1] = e
  BY <1>4, <1>5 DEF Versions
<1>7. versions \in [Slots -> VersionRecords] /\ chunks \in [Slots -> SUBSET Parses]
  BY DEF PublicationInit, Slots, VersionRecords
<1>8. PublicationShape
  BY <1>2, <1>6, <1>7, FreeIngester DEF PublicationInit, PublicationShape
<1>a. /\ versions = [j \in Slots |-> [parse |-> NoParse, verified |-> FALSE]] /\ chunks = [j \in Slots |-> {}]
      /\ document = [revision |-> 1, active |-> 0, last |-> 0]
  BY DEF PublicationInit, Slots
<1>b. \A j \in Slots : ~versions[j].verified /\ versions[j].parse = NoParse /\ chunks[j] = {}
  BY <1>a
<1>c. Numbered /\ Ahead /\ Ready /\ Indexed
  BY <1>1, <1>6, <1>b DEF Numbered, Ahead, Ready, Indexed
<1>d. Aged /\ Shown
  BY <1>4, <1>6, <1>a DEF Aged, Shown
<1>9. Numbered /\ Ahead /\ Aged /\ Shown /\ Ready /\ Indexed
  BY <1>c, <1>d
<1>10. Working
  BY FreeIngester DEF PublicationInit, Working
<1> QED BY <1>8, <1>9, <1>10 DEF PublicationInv

-----------------------------------------------------------------------------
(* Steps of one entry *)

\* The entries after a step that makes no new one.
KeptEntries ==
  /\ ingestion' \in Seq(EntryRecords) /\ Len(ingestion') = Len(ingestion)
  /\ \A j \in Versions : /\ ingestion'[j].generation = ingestion[j].generation
                         /\ versions[j].verified => ingestion'[j].status \notin Early /\ ~ingestion'[j].cancel

\* A job that changes as jobs do, and is not reopened or cancelled once its version is ready, ...
LEMMA OneEntry ==
  ASSUME PublicationInv, NEW j \in Versions, NEW e \in EntryRecords, ingestion' = [ingestion EXCEPT ![j] = e],
         e.generation = ingestion[j].generation,
         versions[j].verified => e.status \notin Early /\ ~e.cancel
  PROVE  KeptEntries
<1>1. ingestion \in Seq(EntryRecords) /\ Versions = 1..Len(ingestion)
  BY VersionsNumbered DEF PublicationInv, PublicationShape
<1>2. /\ ingestion' \in Seq(EntryRecords) /\ Len(ingestion') = Len(ingestion)
      /\ \A i \in Versions : ingestion'[i] = IF i = j THEN e ELSE ingestion[i]
  BY <1>1, ExceptSeq
<1> QED BY <1>2 DEF KeptEntries, PublicationInv, Ready

\* ... and no change at all, keep what is said of jobs ...
LEMMA SameEntries ==
  ASSUME PublicationInv, UNCHANGED ingestion
  PROVE  KeptEntries
BY DEF PublicationInv, PublicationShape, Ready, KeptEntries

\* ... and the versions.
LEMMA KeptVersions ==
  ASSUME PublicationInv, KeptEntries
  PROVE  Versions' = Versions
BY LenProperties DEF PublicationInv, PublicationShape, KeptEntries, Versions

\* Then a step that changes jobs and workers only keeps the invariant ...
LEMMA EntriesOnly ==
  ASSUME PublicationInv, KeptEntries, UNCHANGED <<document, versions, chunks, released>>,
         ingester' \in [Ingesters -> IngesterRecords], Working'
  PROVE  PublicationInv'
<1>1. Versions' = Versions
  BY KeptVersions
<1>2. PublicationShape' /\ Numbered'
  BY <1>1 DEF PublicationInv, PublicationShape, KeptEntries, Numbered
<1>3. Ahead' /\ Shown' /\ Indexed'
  BY <1>1 DEF PublicationInv, Ahead, Shown, Indexed
<1>4. Aged' /\ Ready'
  BY <1>1 DEF PublicationInv, Aged, Ready, KeptEntries
<1> QED BY <1>2, <1>3, <1>4 DEF PublicationInv

\* A worker's step that writes at most an entry.
LEMMA WorkerKeeps ==
  ASSUME PublicationInv, KeptEntries, UNCHANGED <<document, versions, chunks, released>>,
         NEW w \in Ingesters, NEW r \in IngesterRecords, ingester' = [ingester EXCEPT ![w] = r],
         r.step # "idle" => r.job \in Versions,
         r.step \notin {"index", "write", "stage"}
  PROVE  PublicationInv'
<1>1. Versions' = Versions /\ ingester \in [Ingesters -> IngesterRecords]
  BY KeptVersions DEF PublicationInv, PublicationShape
<1>2. ingester' \in [Ingesters -> IngesterRecords] /\ ingester'[w] = r
      /\ \A v \in Ingesters \ {w} : ingester'[v] = ingester[v]
  BY <1>1
<1>3. Working'
  BY <1>1, <1>2 DEF PublicationInv, Working
<1> QED BY <1>2, <1>3, EntriesOnly

\* ... and so does one that changes jobs only.
LEMMA OthersKeep ==
  ASSUME PublicationInv, KeptEntries, UNCHANGED <<document, versions, chunks, released, ingester>>
  PROVE  PublicationInv'
<1>1. Versions' = Versions
  BY KeptVersions
<1>2. Working' /\ ingester' \in [Ingesters -> IngesterRecords]
  BY <1>1 DEF PublicationInv, PublicationShape, Working
<1> QED BY <1>2, EntriesOnly

\* Uploads, cancellations and time keep the invariant.
LEMMA EntrySteps ==
  ASSUME PublicationInv, NEW j \in Versions,
         Received(j) \/ CancelIngestion(j) \/ ExpireIngestion(j) \/ IngestionLapses(j)
  PROVE  PublicationInv'
<1>1. ingestion[j] \in EntryRecords /\ ingestion \in Seq(EntryRecords) /\ Versions = 1..Len(ingestion)
  BY VersionsNumbered DEF PublicationInv, PublicationShape
<1>2. versions[j].verified => ingestion[j].status \notin Early /\ ~ingestion[j].cancel
  BY DEF PublicationInv, Ready
<1>3. UNCHANGED <<document, versions, chunks, released, ingester>>
  BY DEF Received, CancelIngestion, ExpireIngestion, IngestionLapses
<1>4. CASE Received(j)
  <2>1. PICK e : e = [ingestion[j] EXCEPT !.status = "queued"]
    OBVIOUS
  <2>2. ingestion' = [ingestion EXCEPT ![j] = e] /\ ~versions[j].verified
    BY <1>1, <1>2, <1>4, <2>1 DEF Received, Early
  <2>3. e \in EntryRecords /\ e.generation = ingestion[j].generation
    BY <1>1, <2>1 DEF EntryRecords, IngestionStatuses, Pending
  <2> QED BY <1>3, <2>2, <2>3, OneEntry, OthersKeep
<1>5. CASE CancelIngestion(j)
  <2>1. PICK status : status = IF ingestion[j].status = "queued" THEN "cancelled" ELSE ingestion[j].status
    OBVIOUS
  <2>2. PICK e : e = [ingestion[j] EXCEPT !.cancel = TRUE, !.status = status]
    OBVIOUS
  <2>3. ingestion' = [ingestion EXCEPT ![j] = e] /\ ~versions[j].verified
    <3>1. [ingestion[j] EXCEPT !.cancel = TRUE, !.status = IF @ = "queued" THEN "cancelled" ELSE @] = e
      BY <1>1, <2>1, <2>2 DEF EntryRecords
    <3>2. ingestion' = [ingestion EXCEPT ![j] = [ingestion[j] EXCEPT !.cancel = TRUE,
                                                   !.status = IF @ = "queued" THEN "cancelled" ELSE @]]
      BY <1>1, <1>5 DEF CancelIngestion
    <3> QED BY <1>2, <1>5, <3>1, <3>2 DEF CancelIngestion, Early
  <2>4. status \in IngestionStatuses
    BY <1>1, <2>1 DEF EntryRecords, IngestionStatuses
  <2>5. e \in EntryRecords /\ e.generation = ingestion[j].generation
    BY <1>1, <2>2, <2>4 DEF EntryRecords
  <2> QED BY <1>3, <2>3, <2>5, OneEntry, OthersKeep
<1>6. CASE ExpireIngestion(j)
  <2>1. PICK e : e = [ingestion[j] EXCEPT !.status = "failed"]
    OBVIOUS
  <2>2. ingestion' = [ingestion EXCEPT ![j] = e] /\ ~versions[j].verified
    BY <1>1, <1>2, <1>6, <2>1 DEF ExpireIngestion, Early
  <2>3. e \in EntryRecords /\ e.generation = ingestion[j].generation
    BY <1>1, <2>1 DEF EntryRecords, IngestionStatuses
  <2> QED BY <1>3, <2>2, <2>3, OneEntry, OthersKeep
<1>7. CASE IngestionLapses(j)
  <2>1. PICK e : e = [ingestion[j] EXCEPT !.leased = FALSE]
    OBVIOUS
  <2>2. ingestion' = [ingestion EXCEPT ![j] = e]
    BY <1>1, <1>7, <2>1 DEF IngestionLapses
  <2>3. e \in EntryRecords /\ e.generation = ingestion[j].generation /\ e.status = ingestion[j].status
        /\ e.cancel = ingestion[j].cancel
    BY <1>1, <2>1 DEF EntryRecords
  <2>4. KeptEntries
    BY <1>2, <2>2, <2>3, OneEntry
  <2> QED BY <1>3, <2>4, OthersKeep
<1> QED BY <1>4, <1>5, <1>6, <1>7

-----------------------------------------------------------------------------
(* Steps of a worker *)

\* A worker ends its job, or finds that it has lost it.
LEMMA EndKeeps ==
  ASSUME PublicationInv, NEW w \in Ingesters, ingester[w].step # "idle",
         NEW status \in IngestionStatuses \ Early, End(w, status)
  PROVE  KeptEntries /\ ingester' = [ingester EXCEPT ![w] = Free]
<1>1. PICK j : j = ingester[w].job
  OBVIOUS
<1>2. j \in Versions /\ JobOf(w) = j /\ Job(w) = ingestion[j]
  BY <1>1 DEF PublicationInv, Working, JobOf, Job
<1>3. ingestion[j] \in EntryRecords /\ ingestion \in Seq(EntryRecords) /\ Versions = 1..Len(ingestion)
  BY <1>2, VersionsNumbered DEF PublicationInv, PublicationShape
<1>4. PICK e : e = [ingestion[j] EXCEPT !.status = status, !.leased = FALSE]
  OBVIOUS
<1>5. e \in EntryRecords /\ e.status = status /\ e.generation = ingestion[j].generation /\ e.cancel = ingestion[j].cancel
  BY <1>3, <1>4 DEF EntryRecords
<1>6. ingestion' = ingestion \/ ingestion' = [ingestion EXCEPT ![j] = e]
  BY <1>2, <1>3, <1>4 DEF End
<1>7. versions[j].verified => ~ingestion[j].cancel
  BY <1>2 DEF PublicationInv, Ready
<1>8. KeptEntries
  BY <1>2, <1>5, <1>6, <1>7, OneEntry, SameEntries
<1> QED BY <1>8 DEF End, Off

\* A worker that looks keeps it: what it takes to index is what is frozen.
LEMMA LookKeeps ==
  ASSUME PublicationInv, NEW w \in Ingesters, Look(w)
  PROVE  PublicationInv'
<1>1. PICK j : j = ingester[w].job
  OBVIOUS
<1>2. j \in Versions /\ JobOf(w) = j /\ Job(w) = ingestion[j]
  BY <1>1 DEF PublicationInv, Working, JobOf, Job, Look
<1>3. /\ ingestion[j] \in EntryRecords /\ ingestion \in Seq(EntryRecords) /\ Versions = 1..Len(ingestion)
      /\ ingester[w] \in IngesterRecords /\ ingester \in [Ingesters -> IngesterRecords]
  BY <1>2, VersionsNumbered DEF PublicationInv, PublicationShape
<1>4. UNCHANGED <<document, versions, chunks, released>>
  BY DEF Look
<1>5. CASE document.revision = Job(w).generation
  <2>1. PICK r : r = [ingester[w] EXCEPT !.step = "parse"]
    OBVIOUS
  <2>2. ingester' = [ingester EXCEPT ![w] = r] /\ ingestion' = ingestion
    BY <1>3, <1>5, <2>1 DEF Look, Turn
  <2>3. r \in IngesterRecords /\ r.step = "parse" /\ r.job = j
    BY <1>1, <1>3, <2>1 DEF IngesterRecords
  <2> QED BY <1>2, <1>4, <2>2, <2>3, SameEntries, WorkerKeeps
<1>6. CASE document.revision # Job(w).generation
  <2>1. PICK e : e = [ingestion[j] EXCEPT !.status = "failed", !.leased = FALSE]
    OBVIOUS
  <2>2. /\ e \in EntryRecords /\ e.status = "failed" /\ e.generation = ingestion[j].generation
        /\ e.cancel = ingestion[j].cancel
    BY <1>3, <2>1 DEF EntryRecords, IngestionStatuses
  <2>3. ingestion' = ingestion \/ ingestion' = [ingestion EXCEPT ![j] = e]
    BY <1>2, <1>3, <1>6, <2>1 DEF Look
  <2>4. versions[j].verified => ~ingestion[j].cancel
    BY <1>2 DEF PublicationInv, Ready
  <2>5. KeptEntries
    BY <1>2, <2>2, <2>3, <2>4, OneEntry, SameEntries DEF Early
  <2>6. ingester' = [ingester EXCEPT ![w] = Free]
    BY <1>6 DEF Look, Off
  <2> QED BY <1>4, <2>5, <2>6, FreeIngester, WorkerKeeps
<1> QED BY <1>5, <1>6

\* A claim keeps it: a version that is ready has no job to claim.
LEMMA ClaimIngestionKeeps ==
  ASSUME PublicationInv, NEW w \in Ingesters, NEW j \in Versions, ClaimIngestion(w, j)
  PROVE  PublicationInv'
<1>1. /\ ingestion[j] \in EntryRecords /\ ingestion \in Seq(EntryRecords) /\ Versions = 1..Len(ingestion)
      /\ Versions \subseteq Slots
  BY VersionsNumbered DEF PublicationInv, PublicationShape
<1>2. PICK attempt : attempt = ingestion[j].attempt + 1
  OBVIOUS
<1>3. attempt \in 0..MaxAttempts
  BY <1>1, <1>2, PublicationAssumption DEF ClaimIngestion, EntryRecords
<1>4. PICK e : e = [ingestion[j] EXCEPT !.status = "running", !.leased = TRUE, !.attempt = attempt]
  OBVIOUS
<1>5. e \in EntryRecords /\ e.generation = ingestion[j].generation
  BY <1>1, <1>3, <1>4 DEF EntryRecords, IngestionStatuses, Pending
<1>6. ingestion' = [ingestion EXCEPT ![j] = e]
  <2>1. [ingestion[j] EXCEPT !.status = "running", !.leased = TRUE, !.attempt = @ + 1] = e
    BY <1>1, <1>2, <1>4 DEF EntryRecords
  <2>2. ingestion' = [ingestion EXCEPT ![j] = [ingestion[j] EXCEPT !.status = "running", !.leased = TRUE, !.attempt = @ + 1]]
    BY <1>1 DEF ClaimIngestion
  <2> QED BY <2>1, <2>2
<1>7. ~versions[j].verified
  BY DEF PublicationInv, Ready, ClaimIngestion, Early
<1>8. PICK r : r = [step |-> "look", job |-> j, fence |-> attempt, parse |-> NoParse]
  OBVIOUS
<1>9. ingester' = [ingester EXCEPT ![w] = r]
  BY <1>2, <1>8 DEF ClaimIngestion
<1>10. j \in 0..MaxVersions
  BY <1>1, PublicationAssumption DEF Slots
<1>11. r \in IngesterRecords /\ r.step = "look" /\ r.job = j
  BY <1>3, <1>8, <1>10 DEF IngesterRecords
<1>12. KeptEntries
  BY <1>5, <1>6, <1>7, OneEntry
<1> QED BY <1>9, <1>11, <1>12, WorkerKeeps DEF ClaimIngestion

\* Freezing keeps it: a parse is frozen where there is none, or the frozen one is taken.
LEMMA FreezeKeeps ==
  ASSUME PublicationInv, NEW w \in Ingesters, Freeze(w)
  PROVE  PublicationInv'
<1>1. PICK j : j = ingester[w].job
  OBVIOUS
<1>2. j \in Versions /\ JobOf(w) = j /\ Job(w) = ingestion[j] /\ j \in Slots
  BY <1>1, VersionsNumbered DEF PublicationInv, Working, JobOf, Job, Freeze
<1>3. /\ versions \in [Slots -> VersionRecords] /\ versions[j] \in VersionRecords /\ chunks[j] \subseteq Parses
      /\ ingester[w] \in IngesterRecords /\ ingester \in [Ingesters -> IngesterRecords]
  BY <1>2 DEF PublicationInv, PublicationShape
<1>4. PICK q \in Results(w) :
        /\ versions' = [versions EXCEPT ![j].parse = Frozen(j, q)]
        /\ ingester' = [ingester EXCEPT ![w].parse = Frozen(j, q),
                                        ![w].step = IF Frozen(j, q) \in Poor THEN "quality" ELSE "index"]
  BY <1>2 DEF Freeze
<1>5. q \in Parses \cup Poor
  <2>1. Job(w).snapshot \in Snapshots
    BY <1>2, VersionsNumbered DEF PublicationInv, EntryRecords
  <2> QED BY <1>4, <2>1 DEF Results, Poor, Snapshots
<1>6. PICK p : p = Frozen(j, q)
  OBVIOUS
<1>7. p \in Parses \cup Poor /\ (versions[j].parse # NoParse => p = versions[j].parse)
  BY <1>3, <1>5, <1>6 DEF Frozen, VersionRecords
<1>8. PICK step : step = IF p \in Poor THEN "quality" ELSE "index"
  OBVIOUS
<1>9. PICK v : v = [versions[j] EXCEPT !.parse = p]
  OBVIOUS
<1>10. v \in VersionRecords /\ v.parse = p /\ v.verified = versions[j].verified
  BY <1>3, <1>7, <1>9 DEF VersionRecords
<1>11. versions' = [versions EXCEPT ![j] = v]
  BY <1>3, <1>4, <1>6, <1>9
<1>12. PICK r : r = [ingester[w] EXCEPT !.parse = p, !.step = step]
  OBVIOUS
<1>13. ingester' = [ingester EXCEPT ![w] = r]
  BY <1>3, <1>4, <1>6, <1>8, <1>12
<1>14. step \in {"quality", "index"} /\ (step = "index" => p \in Parses)
  BY <1>7, <1>8
<1>15. r \in IngesterRecords /\ r.step = step /\ r.parse = p /\ r.job = j
  BY <1>1, <1>3, <1>7, <1>12, <1>14 DEF IngesterRecords
<1>16. /\ versions' \in [Slots -> VersionRecords] /\ versions'[j] = v /\ \A i \in Slots \ {j} : versions'[i] = versions[i]
       /\ ingester' \in [Ingesters -> IngesterRecords] /\ ingester'[w] = r
       /\ \A u \in Ingesters \ {w} : ingester'[u] = ingester[u]
  BY <1>2, <1>3, <1>10, <1>11, <1>13, <1>15
<1>17. UNCHANGED <<document, ingestion, chunks, released>>
  BY DEF Freeze
<1>18. Versions' = Versions
  BY <1>17 DEF Versions
<1>19. PublicationShape' /\ Numbered' /\ Aged' /\ Shown'
  BY <1>16, <1>17, <1>18 DEF PublicationInv, PublicationShape, Numbered, Aged, Shown
<1>20. \A i \in Slots : versions'[i].verified = versions[i].verified
  BY <1>10, <1>16
<1>21. Ahead' /\ Ready'
  <2>1. Ahead'
    BY <1>2, <1>16, <1>17, <1>18 DEF PublicationInv, Ahead
  <2>2. Versions \subseteq Slots
    BY VersionsNumbered DEF PublicationInv
  <2>3. Ready'
    BY <1>17, <1>18, <1>20, <2>2 DEF PublicationInv, Ready
  <2> QED BY <2>1, <2>3
<1>22. Indexed'
  <2>1. chunks[j] \subseteq {p}
    BY <1>2, <1>3, <1>7, PublicationAssumption DEF PublicationInv, Indexed
  <2> QED BY <1>10, <1>16, <1>17, <2>1 DEF PublicationInv, Indexed
<1>23. Working'
  <2> SUFFICES ASSUME NEW u \in Ingesters
               PROVE  /\ ingester'[u].step # "idle" => ingester'[u].job \in Versions
                      /\ ingester'[u].step \in {"index", "write", "stage"} =>
                           ingester'[u].parse \in Parses /\ versions'[ingester'[u].job].parse = ingester'[u].parse
                      /\ ingester'[u].step = "stage" => ingester'[u].parse \in chunks[ingester'[u].job]
    BY <1>17, <1>18 DEF Working
  <2>1. CASE u = w
    BY <1>2, <1>10, <1>14, <1>15, <1>16, <2>1
  <2>2. CASE u # w
    <3>1. ingester'[u] = ingester[u]
      BY <1>16, <2>2
    <3>2. /\ ingester[u].step # "idle" => ingester[u].job \in Versions
          /\ ingester[u].step \in {"index", "write", "stage"} =>
               ingester[u].parse \in Parses /\ versions[ingester[u].job].parse = ingester[u].parse
          /\ ingester[u].step = "stage" => ingester[u].parse \in chunks[ingester[u].job]
      BY DEF PublicationInv, Working
    <3>3. NoParse \notin Parses /\ Versions \subseteq Slots
      BY PublicationAssumption, VersionsNumbered DEF PublicationInv
    <3>4. ASSUME ingester[u].step \in {"index", "write", "stage"} PROVE versions'[ingester[u].job].parse = ingester[u].parse
      <4>1. ingester[u].job \in Slots
        BY <3>2, <3>3, <3>4
      <4>2. CASE ingester[u].job = j
        BY <1>7, <1>10, <1>16, <3>2, <3>3, <3>4, <4>2
      <4>3. CASE ingester[u].job # j
        BY <1>16, <3>2, <3>4, <4>1, <4>3
      <4> QED BY <4>2, <4>3
    <3> QED BY <3>1, <3>2, <3>4
  <2> QED BY <2>1, <2>2
<1> QED BY <1>19, <1>21, <1>22, <1>23 DEF PublicationInv

\* The last look for a cancellation keeps it.
LEMMA PassKeeps ==
  ASSUME PublicationInv, NEW w \in Ingesters, PassCancellation(w)
  PROVE  PublicationInv'
<1>1. PICK r : r = [ingester[w] EXCEPT !.step = "write"]
  OBVIOUS
<1>2. ingester[w] \in IngesterRecords /\ ingester \in [Ingesters -> IngesterRecords] /\ ingester[w].step = "index"
  BY DEF PublicationInv, PublicationShape, PassCancellation
<1>3. ingester' = [ingester EXCEPT ![w] = r] /\ UNCHANGED <<document, ingestion, versions, chunks, released>>
  BY <1>1, <1>2 DEF PassCancellation, Turn
<1>4. r \in IngesterRecords /\ r.step = "write" /\ r.parse = ingester[w].parse /\ r.job = ingester[w].job
  BY <1>1, <1>2 DEF IngesterRecords
<1>5. KeptEntries /\ Versions' = Versions
  BY <1>3, SameEntries, KeptVersions
<1>6. /\ ingester' \in [Ingesters -> IngesterRecords] /\ ingester'[w] = r
      /\ \A u \in Ingesters \ {w} : ingester'[u] = ingester[u]
  BY <1>2, <1>3, <1>4
<1>7. Working'
  BY <1>2, <1>3, <1>4, <1>5, <1>6 DEF PublicationInv, Working
<1> QED BY <1>3, <1>5, <1>6, <1>7, EntriesOnly

\* Indexing keeps it: chunks of the frozen parse are added.
LEMMA IndexKeeps ==
  ASSUME PublicationInv, NEW w \in Ingesters, Index(w)
  PROVE  PublicationInv'
<1>1. PICK j : j = ingester[w].job
  OBVIOUS
<1>2. j \in Versions /\ JobOf(w) = j /\ j \in Slots /\ ingester[w].parse \in Parses /\ versions[j].parse = ingester[w].parse
  BY <1>1, VersionsNumbered DEF PublicationInv, Working, JobOf, Index
<1>3. /\ chunks \in [Slots -> SUBSET Parses]
      /\ ingester[w] \in IngesterRecords /\ ingester \in [Ingesters -> IngesterRecords]
  BY DEF PublicationInv, PublicationShape
<1>4. PICK r : r = [ingester[w] EXCEPT !.step = "stage"]
  OBVIOUS
<1>5. ingester' = [ingester EXCEPT ![w] = r] /\ UNCHANGED <<document, ingestion, versions, released>>
  BY <1>3, <1>4 DEF Index, Turn
<1>6. r \in IngesterRecords /\ r.step = "stage" /\ r.parse = ingester[w].parse /\ r.job = j
  BY <1>1, <1>3, <1>4 DEF IngesterRecords
<1>7. PICK c : c = chunks[j] \cup {ingester[w].parse}
  OBVIOUS
<1>8. chunks' = [chunks EXCEPT ![j] = c]
  BY <1>2, <1>3, <1>7 DEF Index
<1>9. c \subseteq Parses /\ c \subseteq {versions[j].parse} /\ ingester[w].parse \in c /\ c # {}
  BY <1>2, <1>3, <1>7 DEF PublicationInv, Indexed
<1>10. /\ chunks' \in [Slots -> SUBSET Parses] /\ chunks'[j] = c /\ \A i \in Slots \ {j} : chunks'[i] = chunks[i]
       /\ ingester' \in [Ingesters -> IngesterRecords] /\ ingester'[w] = r
       /\ \A u \in Ingesters \ {w} : ingester'[u] = ingester[u]
  BY <1>2, <1>3, <1>5, <1>6, <1>8, <1>9
<1>11. Versions' = Versions /\ Versions \subseteq Slots
  BY <1>5, VersionsNumbered DEF Versions, PublicationInv
<1>12. PublicationShape' /\ Numbered' /\ Aged' /\ Shown'
  BY <1>5, <1>10, <1>11 DEF PublicationInv, PublicationShape, Numbered, Aged, Shown
<1>13. Ahead' /\ Indexed'
  BY <1>2, <1>5, <1>9, <1>10, <1>11 DEF PublicationInv, Ahead, Indexed
<1>14. Ready'
  BY <1>5, <1>9, <1>10, <1>11 DEF PublicationInv, Ready
<1>15. Working'
  <2> SUFFICES ASSUME NEW u \in Ingesters
               PROVE  /\ ingester'[u].step # "idle" => ingester'[u].job \in Versions
                      /\ ingester'[u].step \in {"index", "write", "stage"} =>
                           ingester'[u].parse \in Parses /\ versions[ingester'[u].job].parse = ingester'[u].parse
                      /\ ingester'[u].step = "stage" => ingester'[u].parse \in chunks'[ingester'[u].job]
    BY <1>5, <1>11 DEF Working
  <2>1. CASE u = w
    BY <1>2, <1>6, <1>9, <1>10, <2>1
  <2>2. CASE u # w
    <3>1. ingester'[u] = ingester[u]
      BY <1>10, <2>2
    <3>2. /\ ingester[u].step # "idle" => ingester[u].job \in Versions
          /\ ingester[u].step \in {"index", "write", "stage"} =>
               ingester[u].parse \in Parses /\ versions[ingester[u].job].parse = ingester[u].parse
          /\ ingester[u].step = "stage" => ingester[u].parse \in chunks[ingester[u].job]
      BY DEF PublicationInv, Working
    <3>3. ASSUME ingester[u].step = "stage" PROVE ingester[u].parse \in chunks'[ingester[u].job]
      <4>1. ingester[u].job \in Slots
        BY <1>11, <3>2, <3>3
      <4> QED BY <1>7, <1>10, <3>2, <3>3, <4>1
    <3> QED BY <3>1, <3>2, <3>3
  <2> QED BY <2>1, <2>2
<1> QED BY <1>12, <1>13, <1>14, <1>15 DEF PublicationInv

\* Staging keeps it: a version becomes ready under its fence, with its chunks, uncancelled.
LEMMA StageKeeps ==
  ASSUME PublicationInv, NEW w \in Ingesters, Stage(w)
  PROVE  PublicationInv'
<1>1. PICK j : j = ingester[w].job
  OBVIOUS
<1>2. /\ j \in Versions /\ JobOf(w) = j /\ Job(w) = ingestion[j] /\ j \in Slots /\ ingester[w].parse \in chunks[j]
      /\ ingester[w].step # "idle"
  BY <1>1, VersionsNumbered DEF PublicationInv, Working, JobOf, Job, Stage
<1>3. /\ versions \in [Slots -> VersionRecords] /\ versions[j] \in VersionRecords
      /\ ingester \in [Ingesters -> IngesterRecords]
      /\ ingestion[j] \in EntryRecords /\ ingestion \in Seq(EntryRecords) /\ Versions = 1..Len(ingestion)
  BY <1>2, VersionsNumbered DEF PublicationInv, PublicationShape
<1>4. /\ ingester' = [ingester EXCEPT ![w] = Free] /\ UNCHANGED <<document, chunks, released>>
      /\ Fenced(w) /\ ~ingestion[j].cancel
  BY <1>2 DEF Stage, End, Off, MayStage
<1>5. PICK e : e = [ingestion[j] EXCEPT !.status = "staged", !.leased = FALSE]
  OBVIOUS
<1>6. ingestion' = [ingestion EXCEPT ![j] = e]
  BY <1>2, <1>3, <1>4, <1>5 DEF Stage, End
<1>7. e \in EntryRecords /\ e.status = "staged" /\ e.generation = ingestion[j].generation /\ ~e.cancel
  BY <1>3, <1>4, <1>5 DEF EntryRecords, IngestionStatuses, Pending
<1>8. /\ ingestion' \in Seq(EntryRecords) /\ Len(ingestion') = Len(ingestion)
      /\ \A i \in Versions : ingestion'[i] = IF i = j THEN e ELSE ingestion[i]
  BY <1>2, <1>3, <1>6, <1>7, ExceptSeq
<1>9. KeptEntries
  BY <1>2, <1>6, <1>7, OneEntry DEF Early
<1>10. Versions' = Versions /\ Versions \subseteq Slots
  BY <1>9, KeptVersions, VersionsNumbered DEF PublicationInv
<1>11. PICK v : v = [versions[j] EXCEPT !.verified = TRUE]
  OBVIOUS
<1>12. v \in VersionRecords /\ v.parse = versions[j].parse
  BY <1>3, <1>11 DEF VersionRecords
<1>13. versions' = [versions EXCEPT ![j] = v]
  BY <1>2, <1>3, <1>11 DEF Stage
<1>14. /\ versions' \in [Slots -> VersionRecords] /\ versions'[j] = v /\ \A i \in Slots \ {j} : versions'[i] = versions[i]
       /\ ingester' \in [Ingesters -> IngesterRecords] /\ ingester'[w] = Free
       /\ \A u \in Ingesters \ {w} : ingester'[u] = ingester[u]
  BY <1>2, <1>3, <1>4, <1>12, <1>13, FreeIngester
<1>15. PublicationShape' /\ Numbered'
  BY <1>4, <1>8, <1>10, <1>14 DEF PublicationInv, PublicationShape, Numbered
<1>16. Aged' /\ Shown'
  BY <1>4, <1>9, <1>10 DEF PublicationInv, Aged, Shown, KeptEntries
<1>17. \A i \in Slots : versions'[i].parse = versions[i].parse
  BY <1>12, <1>14
<1>18. Ahead' /\ Indexed'
  BY <1>2, <1>4, <1>10, <1>14, <1>17 DEF PublicationInv, Ahead, Indexed
<1>19. Ready'
  BY <1>2, <1>4, <1>7, <1>8, <1>10, <1>14 DEF PublicationInv, Ready, Early
<1>20. Working'
  BY <1>4, <1>10, <1>14, <1>17, FreeIngester DEF PublicationInv, Working
<1> QED BY <1>15, <1>16, <1>18, <1>19, <1>20 DEF PublicationInv

\* So every step of a worker keeps it.
LEMMA IngesterKeeps ==
  ASSUME PublicationInv, NEW w \in Ingesters,
         \/ Look(w) \/ Freeze(w) \/ QualityCheck(w) \/ PassCancellation(w) \/ Index(w) \/ Stage(w)
         \/ IngestionFails(w) \/ IngesterDies(w)
  PROVE  PublicationInv'
<1>1. ASSUME ingester[w].step # "idle", NEW status \in IngestionStatuses \ Early, End(w, status),
             UNCHANGED <<document, versions, chunks, released>>
      PROVE  PublicationInv'
  BY <1>1, EndKeeps, FreeIngester, WorkerKeeps
<1>2. {"failed", "cancelled", "needs_attention"} \subseteq IngestionStatuses \ Early
  BY DEF IngestionStatuses, Early
<1>3. CASE QualityCheck(w)
  BY <1>1, <1>2, <1>3 DEF QualityCheck
<1>4. CASE IngestionFails(w)
  BY <1>1, <1>2, <1>4 DEF IngestionFails
<1>5. CASE IngesterDies(w)
  BY <1>5, SameEntries, FreeIngester, WorkerKeeps DEF IngesterDies, Off
<1> QED BY <1>3, <1>4, <1>5, LookKeeps, FreezeKeeps, PassKeeps, IndexKeeps, StageKeeps
-----------------------------------------------------------------------------
(* Steps of managers *)

\* A decision about what is shown keeps it when it shows released versions.
LEMMA DecisionKeeps ==
  ASSUME PublicationInv, KeptEntries, UNCHANGED <<versions, chunks, ingester>>,
         document' \in DocumentRecords, document'.revision >= document.revision,
         released' \subseteq Versions, {document'.active, document'.last} \subseteq {0} \cup released'
  PROVE  PublicationInv'
<1>1. Versions' = Versions /\ document.revision \in Nat /\ document'.revision \in Nat
  BY KeptVersions, PublicationAssumption DEF PublicationInv, PublicationShape, DocumentRecords
<1>2. PublicationShape' /\ Numbered'
  BY <1>1 DEF PublicationInv, PublicationShape, KeptEntries, Numbered
<1>3. Ahead' /\ Shown' /\ Indexed' /\ Working'
  BY <1>1 DEF PublicationInv, Ahead, Shown, Indexed, Working
<1>4. Ready'
  BY <1>1 DEF PublicationInv, Ready, KeptEntries
<1>5. Aged'
  <2>1. ASSUME NEW j \in Versions PROVE ingestion'[j].generation <= document'.revision
    <3>1. ingestion[j].generation \in Nat /\ ingestion[j].generation <= document.revision
      BY VersionsNumbered, PublicationAssumption DEF PublicationInv, Aged, EntryRecords
    <3> QED BY <1>1, <3>1 DEF KeptEntries
  <2> QED BY <1>1, <2>1 DEF Aged
<1> QED BY <1>2, <1>3, <1>4, <1>5 DEF PublicationInv

\* A version that is ready is shown.
LEMMA ShowKeeps ==
  ASSUME PublicationInv, NEW v \in Versions, NEW status \in IngestionStatuses, versions[v].verified,
         status \notin Early, Show(v, status)
  PROVE  PublicationInv'
<1>1. /\ ingestion[v] \in EntryRecords /\ v \in Slots /\ v \in 0..MaxVersions /\ ~ingestion[v].cancel
      /\ document.revision \in 1..MaxRevisions /\ ingestion \in Seq(EntryRecords) /\ Versions = 1..Len(ingestion)
  BY VersionsNumbered, PublicationAssumption DEF PublicationInv, PublicationShape, Ready, Slots, DocumentRecords
<1>2. PICK e : e = [ingestion[v] EXCEPT !.status = status]
  OBVIOUS
<1>3. e \in EntryRecords /\ e.status = status /\ e.generation = ingestion[v].generation /\ e.cancel = ingestion[v].cancel
  BY <1>1, <1>2 DEF EntryRecords
<1>4. ingestion' = [ingestion EXCEPT ![v] = e]
  BY <1>1, <1>2 DEF Show
<1>5. KeptEntries
  BY <1>1, <1>3, <1>4, OneEntry
<1>6. PICK later : later = document.revision + 1
  OBVIOUS
<1>7. later \in 1..MaxRevisions /\ later >= document.revision
  BY <1>1, <1>6, PublicationAssumption DEF Show
<1>8. document' = [revision |-> later, active |-> v, last |-> v]
  BY <1>6 DEF Show
<1>9. document' \in DocumentRecords /\ document'.revision = later /\ document'.active = v /\ document'.last = v
  BY <1>1, <1>7, <1>8 DEF DocumentRecords
<1>10. released' = released \cup {v} /\ released \subseteq Versions
  BY DEF Show, PublicationInv, PublicationShape
<1> QED BY <1>5, <1>7, <1>9, <1>10, DecisionKeeps DEF Show

\* Withdrawing is such a decision.
LEMMA UnpublishKeeps ==
  ASSUME PublicationInv, Unpublish
  PROVE  PublicationInv'
<1>1. /\ ingestion \in Seq(EntryRecords) /\ Versions = 1..Len(ingestion) /\ Len(ingestion) \in Nat
      /\ \A j \in Versions : ingestion[j] \in EntryRecords
      /\ document \in DocumentRecords
  BY VersionsNumbered DEF PublicationInv, PublicationShape
<1>2. DEFINE withdrawn(j) == IF ingestion[j].status = "published"
                              THEN [ingestion[j] EXCEPT !.status = "unpublished"] ELSE ingestion[j]
<1>3. ASSUME NEW j \in Versions
      PROVE  /\ withdrawn(j) \in EntryRecords /\ withdrawn(j).generation = ingestion[j].generation
             /\ withdrawn(j).cancel = ingestion[j].cancel
             /\ ingestion[j].status \notin Early => withdrawn(j).status \notin Early
  <2>1. PICK e : e = [ingestion[j] EXCEPT !.status = "unpublished"]
    OBVIOUS
  <2>2. /\ e \in EntryRecords /\ e.generation = ingestion[j].generation /\ e.cancel = ingestion[j].cancel
        /\ e.status = "unpublished"
    BY <1>1, <2>1 DEF EntryRecords, IngestionStatuses
  <2>3. withdrawn(j) = e \/ withdrawn(j) = ingestion[j]
    BY <2>1
  <2> HIDE DEF withdrawn
  <2> QED BY <1>1, <2>2, <2>3 DEF Early
<1>4. ingestion' = [j \in 1..Len(ingestion) |-> withdrawn(j)]
  BY <1>1 DEF Unpublish
<1> HIDE DEF withdrawn
<1>5. ingestion' \in Seq(EntryRecords)
  BY <1>1, <1>3, <1>4, SeqDef
<1>6. Len(ingestion') = Len(ingestion)
  BY <1>1, <1>4, <1>5, LenProperties
<1>7. KeptEntries
  BY <1>1, <1>3, <1>4, <1>5, <1>6 DEF KeptEntries, PublicationInv, Ready
<1>8. PICK later, last : later = document.revision + 1
                         /\ last = IF document.active # 0 THEN document.active ELSE document.last
  OBVIOUS
<1>9. later \in 1..MaxRevisions /\ later >= document.revision
  BY <1>1, <1>8, PublicationAssumption DEF Unpublish, DocumentRecords
<1>10. last \in 0..MaxVersions /\ last \in {0} \cup released /\ 0 \in 0..MaxVersions
  BY <1>1, <1>8, PublicationAssumption DEF PublicationInv, Shown, DocumentRecords
<1>11. document' = [revision |-> later, active |-> 0, last |-> last]
  BY <1>8 DEF Unpublish
<1>12. document' \in DocumentRecords /\ document'.revision = later /\ document'.active = 0 /\ document'.last = last
  BY <1>9, <1>10, <1>11 DEF DocumentRecords
<1> QED BY <1>7, <1>9, <1>10, <1>12, DecisionKeeps DEF Unpublish, PublicationInv, PublicationShape

\* A new version has nothing yet and is the newest.
LEMMA NewVersionKeeps ==
  ASSUME PublicationInv, NEW status \in IngestionStatuses, NEW p \in Snapshots, NewVersion(status, p)
  PROVE  PublicationInv' /\ document'.active = document.active
<1>1. /\ ingestion \in Seq(EntryRecords) /\ Versions = 1..Len(ingestion) /\ Len(ingestion) \in Nat
      /\ Versions \subseteq Slots /\ document \in DocumentRecords
  BY VersionsNumbered DEF PublicationInv, PublicationShape
<1>2. PICK later, n : later = document.revision + 1 /\ n = Len(ingestion) + 1
  OBVIOUS
<1>3. later \in 1..MaxRevisions /\ document.revision \in Nat /\ document.revision <= later /\ n \in Slots /\ n \notin Versions
  BY <1>1, <1>2, PublicationAssumption DEF NewVersion, DocumentRecords, Slots
<1>4. document' = [document EXCEPT !.revision = later]
  BY <1>1, <1>2 DEF NewVersion, DocumentRecords
<1>5. /\ document' \in DocumentRecords /\ document'.revision = later
      /\ document'.active = document.active /\ document'.last = document.last
  BY <1>1, <1>3, <1>4 DEF DocumentRecords
<1>6. PICK e : e = Entry(status, later, p)
  OBVIOUS
<1>7. e \in EntryRecords /\ e.generation = later
  BY <1>3, <1>6, NewEntry
<1>8. ingestion' = Append(ingestion, e)
  BY <1>2, <1>6 DEF NewVersion
<1>9. /\ ingestion' \in Seq(EntryRecords) /\ Len(ingestion') = n /\ ingestion'[n] = e
      /\ \A j \in Versions : ingestion'[j] = ingestion[j]
  BY <1>1, <1>2, <1>7, <1>8, AppendProperties
<1>10. Versions' = Versions \cup {n}
  <2>1. Versions' = 1..n
    BY <1>9, LenProperties DEF Versions
  <2> QED BY <1>1, <1>2, <2>1
<1>11. UNCHANGED <<versions, chunks, released, ingester>>
  BY DEF NewVersion
<1>12. PublicationShape' /\ Numbered'
  BY <1>3, <1>5, <1>9, <1>10, <1>11 DEF PublicationInv, PublicationShape, Numbered
<1>13. Ahead' /\ Shown' /\ Indexed' /\ Working'
  BY <1>5, <1>10, <1>11 DEF PublicationInv, Ahead, Shown, Indexed, Working
<1>14. Ready'
  BY <1>3, <1>9, <1>10, <1>11 DEF PublicationInv, Ready, Ahead
<1>15. Aged'
  <2>1. ASSUME NEW j \in Versions PROVE ingestion'[j].generation <= document'.revision
    <3>1. ingestion[j].generation \in Nat /\ ingestion[j].generation <= document.revision
      BY VersionsNumbered, PublicationAssumption DEF PublicationInv, Aged, EntryRecords
    <3> QED BY <1>3, <1>5, <1>9, <3>1
  <2>2. ingestion'[n].generation <= document'.revision
    BY <1>3, <1>5, <1>7, <1>9
  <2> QED BY <1>10, <2>1, <2>2 DEF Aged
<1> QED BY <1>5, <1>12, <1>13, <1>14, <1>15 DEF PublicationInv

\* A step that makes a version, and what is shown after it.
LEMMA MakingKeeps ==
  ASSUME PublicationInv, Upload \/ Reprocess \/ Edit \/ ReviewParse
  PROVE  PublicationInv' /\ document'.active = document.active
<1>1. {"receiving", "queued"} \subseteq IngestionStatuses
  BY DEF IngestionStatuses, Pending
<1>2. CASE Upload
  BY <1>1, <1>2, NewVersionKeeps DEF Upload, Snapshots
<1>3. CASE Reprocess
  <2>1. PICK v : v = IF document.active # 0 THEN document.active ELSE Len(ingestion)
    OBVIOUS
  <2>2. v \in Versions
    BY <2>1, VersionsNumbered DEF PublicationInv, Shown, PublicationShape
  <2>3. ingestion[v].snapshot \in Snapshots
    BY <2>2, VersionsNumbered DEF PublicationInv, EntryRecords
  <2> QED BY <1>1, <1>3, <2>1, <2>3, NewVersionKeeps DEF Reprocess
<1>4. CASE Edit
  BY <1>1, <1>4, NewVersionKeeps DEF Edit, Snapshots
<1>5. CASE ReviewParse
  BY <1>1, <1>5, NewVersionKeeps DEF ReviewParse, Snapshots
<1> QED BY <1>2, <1>3, <1>4, <1>5

\* What is shown again has been shown before.
LEMMA RestoringKeeps ==
  ASSUME PublicationInv, Republish \/ \E v \in Versions : Rollback(v)
  PROVE  PublicationInv' /\ document'.active \in released
<1>1. "published" \in IngestionStatuses \ Early /\ released \subseteq Versions
  BY DEF IngestionStatuses, Early, PublicationInv, PublicationShape
<1>2. CASE Republish
  <2>1. PICK v : v = document.last
    OBVIOUS
  <2>2. v \in released /\ versions[v].verified /\ Show(v, "published")
    BY <1>2, <2>1 DEF Republish, PublicationInv, Shown
  <2> QED BY <1>1, <2>2, ShowKeeps DEF Show
<1>3. ASSUME NEW v \in Versions, Rollback(v) PROVE PublicationInv' /\ document'.active \in released
  <2>1. v \in released /\ versions[v].verified /\ Show(v, ingestion[v].status)
    BY <1>3 DEF Rollback
  <2>2. ingestion[v].status \in IngestionStatuses /\ ingestion[v].status \notin Early
    BY <2>1, VersionsNumbered DEF PublicationInv, Ready, EntryRecords
  <2> QED BY <2>1, <2>2, ShowKeeps DEF Show
<1> QED BY <1>2, <1>3

\* Publishing is a decision, too.
LEMMA PublishKeeps ==
  ASSUME PublicationInv, NEW v \in Versions, Publish(v)
  PROVE  PublicationInv' /\ document'.active = v
<1>1. "published" \in IngestionStatuses /\ "published" \notin Early
  BY DEF IngestionStatuses, Early
<1>2. versions[v].verified /\ Show(v, "published")
  BY DEF Publish, Publishable
<1>3. document'.active = v
  BY <1>2 DEF Show
<1> QED BY <1>1, <1>2, <1>3, ShowKeeps

-----------------------------------------------------------------------------
(* The theorems about versions *)

\* So every step keeps the invariant ...
LEMMA PublicationInvStep == PublicationInv /\ [PublicationNext]_publicationVars => PublicationInv'
<1> SUFFICES ASSUME PublicationInv, [PublicationNext]_publicationVars PROVE PublicationInv'
  OBVIOUS
<1>1. CASE Upload \/ Reprocess \/ Edit \/ ReviewParse
  BY <1>1, MakingKeeps
<1>2. CASE Unpublish
  BY <1>2, UnpublishKeeps
<1>3. CASE Republish \/ \E v \in Versions : Rollback(v)
  BY <1>3, RestoringKeeps
<1>4. ASSUME NEW j \in Versions, Received(j) \/ CancelIngestion(j) \/ ExpireIngestion(j) \/ IngestionLapses(j)
      PROVE  PublicationInv'
  BY <1>4, EntrySteps
<1>5. ASSUME NEW v \in Versions, Publish(v) PROVE PublicationInv'
  BY <1>5, PublishKeeps
<1>6. ASSUME NEW w \in Ingesters,
             \/ Look(w) \/ Freeze(w) \/ QualityCheck(w) \/ PassCancellation(w) \/ Index(w) \/ Stage(w)
             \/ IngestionFails(w) \/ IngesterDies(w)
      PROVE  PublicationInv'
  BY <1>6, IngesterKeeps
<1>7. ASSUME NEW w \in Ingesters, NEW j \in Versions, ClaimIngestion(w, j) PROVE PublicationInv'
  BY <1>7, ClaimIngestionKeeps
<1>8. CASE UNCHANGED publicationVars
  BY <1>8, SameEntries, OthersKeep DEF publicationVars
<1> QED BY <1>1, <1>2, <1>3, <1>4, <1>5, <1>6, <1>7, <1>8 DEF PublicationNext

\* ... and it always holds.
LEMMA PublicationInvHolds == PublicationSpec => []PublicationInv
BY PublicationInvInit, PublicationInvStep, PTL DEF PublicationSpec

\* What the versions promise follows from the invariant.
LEMMA VersionsAre == PublicationInv => PublicationTypes /\ IndexedAsFrozen /\ CancelledNeverReady
<1> SUFFICES ASSUME PublicationInv PROVE PublicationTypes /\ IndexedAsFrozen /\ CancelledNeverReady
  OBVIOUS
<1>1. Versions \subseteq Slots
  BY VersionsNumbered DEF PublicationInv
<1>2. IndexedAsFrozen
  BY <1>1 DEF PublicationInv, Ready, Indexed, IndexedAsFrozen
<1>3. CancelledNeverReady
  BY DEF PublicationInv, Ready, CancelledNeverReady
<1> QED BY <1>2, <1>3, PublicationShapes DEF PublicationInv

\* A step that shows a version for the first time publishes the newest.
LEMMA ShowsInOrder ==
  ASSUME PublicationInv, [PublicationNext]_publicationVars, document'.active \notin {document.active, 0} \cup released
  PROVE  \A j \in Versions : ingestion[j].generation <= ingestion[document'.active].generation
<1>1. ASSUME NEW v \in Versions, Publish(v)
      PROVE  \A j \in Versions : ingestion[j].generation <= ingestion[document'.active].generation
  BY <1>1, PublishKeeps DEF PublicationInv, Aged, Publish, Publishable
<1>2. CASE Upload \/ Reprocess \/ Edit \/ ReviewParse
  BY <1>2, MakingKeeps
<1>3. CASE Republish \/ \E v \in Versions : Rollback(v)
  BY <1>3, RestoringKeeps
<1>4. CASE Unpublish
  BY <1>4 DEF Unpublish
<1>5. CASE UNCHANGED document
  BY <1>5
<1>6. CASE \E j \in Versions : Received(j) \/ CancelIngestion(j) \/ ExpireIngestion(j) \/ IngestionLapses(j)
  BY <1>5, <1>6 DEF Received, CancelIngestion, ExpireIngestion, IngestionLapses
<1>7. CASE \E w \in Ingesters :
             \/ Look(w) \/ Freeze(w) \/ QualityCheck(w) \/ PassCancellation(w) \/ Index(w) \/ Stage(w)
             \/ IngestionFails(w) \/ IngesterDies(w)
             \/ \E j \in Versions : ClaimIngestion(w, j)
  BY <1>5, <1>7 DEF Look, Freeze, QualityCheck, PassCancellation, Index, Stage, IngestionFails, IngesterDies, ClaimIngestion
<1> QED BY <1>1, <1>2, <1>3, <1>4, <1>5, <1>6, <1>7 DEF PublicationNext, publicationVars

\* Whatever is published, withdrawn and restored, and in whatever order jobs end, a version
\* is shown for the first time only when nothing newer has been accepted.
THEOREM NewestIsShown == PublicationSpec => ShownInOrder
<1>1. PublicationInv /\ [PublicationNext]_publicationVars =>
        [document'.active \notin {document.active, 0} \cup released =>
           \A j \in Versions : ingestion[j].generation <= ingestion[document'.active].generation]_publicationVars
  BY ShowsInOrder
<1> QED BY <1>1, PublicationInvHolds, PTL DEF PublicationSpec, ShownInOrder

-----------------------------------------------------------------------------
(* Extracted facts: a transaction that nobody has disturbed decides by what *)
(* people have decided, and its job is as the guard found it, but for the   *)
(* lease, which may run out meanwhile.                                      *)

JobRecords == [status : JobStates, version : 0..MaxEditions, automatic : BOOLEAN, completed : 0..MaxChunks,
               attempts : 0..MaxTries, owner : Extractors \cup {Nobody}, leased : BOOLEAN]
CandidateRecords == [fact : Facts, version : Editions, job : JobIds]
ExtractorRecords == [step : {"idle", "claimed", "found", "commit"}, job : 0..MaxJobs, done : 0..MaxChunks,
                     fact : Facts \cup {NoFact}, sure : BOOLEAN, decided : SUBSET Facts, clean : BOOLEAN]

GraphShape ==
  /\ active \in 0..MaxEditions /\ enabled \in BOOLEAN /\ revision \in 0..MaxChanges
  /\ jobs \in [JobIds -> JobRecords]
  /\ pending \subseteq CandidateRecords
  /\ decided \subseteq Facts /\ edges \subseteq EdgeRecords
  /\ extractor \in [Extractors -> ExtractorRecords]

\* The types, with the records named.
LEMMA GraphShapes == GraphTypes <=> GraphShape
BY DEF GraphTypes, GraphShape, JobRecords, CandidateRecords, ExtractorRecords

\* A job has a version, and chunks left as long as it has not succeeded.
JobsSound ==
  \A j \in JobIds : /\ jobs[j].status # "absent" => jobs[j].version \in Editions
                    /\ jobs[j].status # "succeeded" => jobs[j].completed < MaxChunks

\* What a transaction has found: the guard, apart from the lease.
Found(x) ==
  LET row == jobs[extractor[x].job] IN
  /\ extractor[x].decided = decided
  /\ row.owner = x /\ row.status = "running" /\ row.version = active /\ (row.automatic => enabled)

CleanFound ==
  \A x \in Extractors :
    /\ extractor[x].step # "idle" => extractor[x].job \in JobIds
    /\ extractor[x].step = "commit" /\ extractor[x].clean => Found(x)

GraphInv == GraphShape /\ JobsSound /\ CleanFound

\* The invariant holds at the beginning.
LEMMA GraphInvInit == GraphInit => GraphInv
<1> SUFFICES ASSUME GraphInit PROVE GraphInv
  OBVIOUS
<1>1. /\ 0 \in 0..MaxEditions /\ 1 \in 0..MaxEditions /\ 0 \in 0..MaxChunks /\ 0 \in 0..MaxTries /\ 0 \in 0..MaxJobs
      /\ 0 \in 0..MaxChanges /\ 0 < MaxChunks
  BY GraphAssumption
<1>2. Absent \in JobRecords
  BY <1>1 DEF Absent, JobRecords, JobStates
<1>3. Idle \in ExtractorRecords
  BY <1>1 DEF Idle, ExtractorRecords
<1>4. GraphShape
  BY <1>1, <1>2, <1>3 DEF GraphInit, GraphShape
<1>5. JobsSound
  BY <1>1 DEF GraphInit, JobsSound, Absent
<1>6. CleanFound
  BY DEF GraphInit, CleanFound, Idle
<1> QED BY <1>4, <1>5, <1>6 DEF GraphInv

\* A worker that has ended is idle.
LEMMA IdleExtractor == Idle \in ExtractorRecords /\ Idle.step = "idle"
BY GraphAssumption DEF Idle, ExtractorRecords

\* What a write leaves of the transactions.
LEMMA AfterKeeps ==
  ASSUME GraphShape, NEW writes
  PROVE  /\ After(writes) \in [Extractors -> ExtractorRecords]
         /\ \A x \in Extractors :
              /\ After(writes)[x].step = extractor[x].step /\ After(writes)[x].job = extractor[x].job
              /\ After(writes)[x].decided = extractor[x].decided
              /\ After(writes)[x].step = "commit" /\ After(writes)[x].clean =>
                   extractor[x].clean /\ writes \cap Written(x) = {}
<1> DEFINE next(x) == IF extractor[x].step = "commit" /\ writes \cap Written(x) # {}
                      THEN [extractor[x] EXCEPT !.clean = FALSE] ELSE extractor[x]
<1>1. ASSUME NEW x \in Extractors
      PROVE  /\ next(x) \in ExtractorRecords
             /\ next(x).step = extractor[x].step /\ next(x).job = extractor[x].job
             /\ next(x).decided = extractor[x].decided
             /\ next(x).step = "commit" /\ next(x).clean => extractor[x].clean /\ writes \cap Written(x) = {}
  <2>1. extractor[x] \in ExtractorRecords
    BY DEF GraphShape
  <2>2. PICK e : e = [extractor[x] EXCEPT !.clean = FALSE]
    OBVIOUS
  <2>3. /\ e \in ExtractorRecords /\ e.step = extractor[x].step /\ e.job = extractor[x].job
        /\ e.decided = extractor[x].decided /\ e.clean = FALSE
    BY <2>1, <2>2 DEF ExtractorRecords
  <2>4. CASE extractor[x].step = "commit" /\ writes \cap Written(x) # {}
    <3>1. next(x) = e
      BY <2>2, <2>4
    <3> QED BY <2>3, <3>1
  <2>5. CASE ~(extractor[x].step = "commit" /\ writes \cap Written(x) # {})
    <3>1. next(x) = extractor[x]
      BY <2>5
    <3> HIDE DEF next
    <3>2. next(x).step = "commit" => writes \cap Written(x) = {}
      BY <2>5, <3>1
    <3> QED BY <2>1, <3>1, <3>2
  <2> QED BY <2>4, <2>5
<1>2. After(writes) = [x \in Extractors |-> next(x)]
  BY DEF After
<1> HIDE DEF next
<1>3. After(writes) \in [Extractors -> ExtractorRecords] /\ \A x \in Extractors : After(writes)[x] = next(x)
  BY <1>1, <1>2
<1> QED BY <1>1, <1>3

\* A command leaves no transaction clean.
LEMMA CommandKeeps ==
  ASSUME GraphInv, NEW writes, Command(writes)
  PROVE  /\ extractor' \in [Extractors -> ExtractorRecords] /\ revision' \in 0..MaxChanges
         /\ CleanFound'
<1>1. GraphShape /\ CleanFound
  BY DEF GraphInv
<1>2. extractor' = After(writes \cup {Graph}) /\ revision < MaxChanges /\ revision' = revision + 1
  BY DEF Command
<1>3. /\ extractor' \in [Extractors -> ExtractorRecords]
      /\ \A x \in Extractors :
           /\ extractor'[x].step = extractor[x].step /\ extractor'[x].job = extractor[x].job
           /\ extractor'[x].step = "commit" /\ extractor'[x].clean => (writes \cup {Graph}) \cap Written(x) = {}
  BY <1>1, <1>2, AfterKeeps
<1>4. \A x \in Extractors : Graph \in (writes \cup {Graph}) \cap Written(x)
  BY DEF Written
<1>5. CleanFound'
  BY <1>1, <1>3, <1>4 DEF CleanFound
<1>6. revision' \in 0..MaxChanges
  BY <1>1, <1>2, GraphAssumption DEF GraphShape
<1> QED BY <1>3, <1>5, <1>6

\* A change of some jobs that writes their rows: only transactions of other jobs stay clean.
LEMMA WriteKeeps ==
  ASSUME GraphInv, NEW writes, UNCHANGED <<active, enabled, decided>>,
         \A j \in JobIds : jobs'[j] = jobs[j] \/ JobRow(j) \in writes \/ jobs[j].status # "running"
  PROVE  \A x \in Extractors : After(writes)[x].step = "commit" /\ After(writes)[x].clean =>
           /\ After(writes)[x].decided = decided'
           /\ jobs'[extractor[x].job] = jobs[extractor[x].job] /\ extractor[x].job \in JobIds
           /\ jobs[extractor[x].job].owner = x /\ jobs[extractor[x].job].status = "running"
           /\ jobs[extractor[x].job].version = active /\ (jobs[extractor[x].job].automatic => enabled)
<1>1. GraphShape /\ CleanFound
  BY DEF GraphInv
<1> SUFFICES ASSUME NEW x \in Extractors, After(writes)[x].step = "commit", After(writes)[x].clean
             PROVE  /\ After(writes)[x].decided = decided'
                    /\ jobs'[extractor[x].job] = jobs[extractor[x].job] /\ extractor[x].job \in JobIds
                    /\ jobs[extractor[x].job].owner = x /\ jobs[extractor[x].job].status = "running"
                    /\ jobs[extractor[x].job].version = active /\ (jobs[extractor[x].job].automatic => enabled)
  OBVIOUS
<1>2. /\ extractor[x].step = "commit" /\ extractor[x].clean /\ writes \cap Written(x) = {}
      /\ After(writes)[x].decided = extractor[x].decided
  BY <1>1, AfterKeeps
<1>3. extractor[x].job \in JobIds /\ Found(x)
  BY <1>1, <1>2 DEF CleanFound
<1>4. JobRow(extractor[x].job) \in Written(x)
  BY DEF Written
<1>5. jobs'[extractor[x].job] = jobs[extractor[x].job]
  BY <1>2, <1>3, <1>4 DEF Found
<1> QED BY <1>2, <1>3, <1>5 DEF Found

\* A job that is left keeps its version and what it has done.
LEMMA LeftJob ==
  ASSUME NEW row \in JobRecords, NEW status \in JobStates
  PROVE  /\ Left(row, status) \in JobRecords /\ Left(row, status).status = status
         /\ Left(row, status).version = row.version /\ Left(row, status).completed = row.completed
<1>1. PICK l : l = [row EXCEPT !.status = status, !.owner = Nobody, !.leased = FALSE]
  OBVIOUS
<1>2. l \in JobRecords /\ l.status = status /\ l.version = row.version /\ l.completed = row.completed
  BY <1>1 DEF JobRecords
<1> QED BY <1>1, <1>2 DEF Left

\* A job that is not there has done nothing.
LEMMA AbsentJob == Absent \in JobRecords /\ Absent.completed = 0
BY GraphAssumption DEF Absent, JobRecords, JobStates

\* enqueue: the new job is queued, jobs that were live are superseded.
LEMMA EnqueueKeeps ==
  ASSUME GraphInv, NEW v \in Editions, NEW automatic \in BOOLEAN, Enqueue(v, automatic)
  PROVE  /\ jobs' \in [JobIds -> JobRecords] /\ JobsSound' /\ pending' = {}
         /\ \A i \in JobIds : jobs'[i] = jobs[i] \/ JobRow(i) \in Superseded \/ jobs[i].status # "running"
<1>1. GraphShape /\ JobsSound
  BY DEF GraphInv
<1>2. PICK j \in JobIds :
        /\ jobs[j].status = "absent" /\ pending' = {}
        /\ jobs' = [i \in JobIds |->
             IF i = j THEN [Absent EXCEPT !.status = "queued", !.version = v, !.automatic = automatic]
             ELSE IF jobs[i].status \in Live THEN Left(jobs[i], "superseded") ELSE jobs[i]]
  BY DEF Enqueue
<1>3. PICK new : new = [Absent EXCEPT !.status = "queued", !.version = v, !.automatic = automatic]
  OBVIOUS
<1>4. v \in 0..MaxEditions
  BY GraphAssumption DEF Editions
<1>5. new \in JobRecords /\ new.status = "queued" /\ new.version = v /\ new.completed = 0
  BY <1>3, <1>4, AbsentJob DEF JobRecords, JobStates, Live
<1>6. 0 < MaxChunks
  BY GraphAssumption
<1>7. ASSUME NEW i \in JobIds
      PROVE  /\ jobs'[i] \in JobRecords
             /\ jobs'[i].status # "absent" => jobs'[i].version \in Editions
             /\ jobs'[i].status # "succeeded" => jobs'[i].completed < MaxChunks
             /\ jobs'[i] = jobs[i] \/ JobRow(i) \in Superseded \/ jobs[i].status # "running"
  <2>1. jobs[i] \in JobRecords
    BY <1>1 DEF GraphShape
  <2>2. CASE i = j
    <3>1. jobs'[i] = new
      BY <1>2, <1>3, <2>2
    <3> QED BY <1>2, <1>5, <1>6, <2>2, <3>1
  <2>3. CASE i # j /\ jobs[i].status \in Live
    <3>1. jobs'[i] = Left(jobs[i], "superseded")
      BY <1>2, <2>3
    <3>2. /\ jobs'[i] \in JobRecords /\ jobs'[i].version = jobs[i].version /\ jobs'[i].completed = jobs[i].completed
      BY <2>1, <3>1, LeftJob DEF JobStates
    <3>3. jobs[i].version \in Editions /\ jobs[i].completed < MaxChunks
      BY <1>1, <2>3 DEF JobsSound, Live
    <3>4. JobRow(i) \in Superseded
      BY <2>3 DEF Superseded
    <3> QED BY <3>2, <3>3, <3>4
  <2>4. CASE i # j /\ jobs[i].status \notin Live
    <3>1. jobs'[i] = jobs[i]
      BY <1>2, <2>4
    <3> QED BY <1>1, <2>1, <3>1 DEF JobsSound
  <2> QED BY <2>2, <2>3, <2>4
<1>8. jobs' \in [JobIds -> JobRecords]
  BY <1>2, <1>7
<1> QED BY <1>2, <1>7, <1>8 DEF JobsSound

\* The scan of published versions keeps the invariant.
LEMMA ScanKeeps ==
  ASSUME GraphInv, NEW v \in Editions, ScanPublished(v)
  PROVE  GraphInv'
<1>1. GraphShape /\ CleanFound
  BY DEF GraphInv
<1>2. Enqueue(v, TRUE) /\ extractor' = After(Superseded) /\ UNCHANGED <<active, enabled, decided, edges, revision>>
  BY DEF ScanPublished
<1>3. /\ jobs' \in [JobIds -> JobRecords] /\ JobsSound' /\ pending' = {}
      /\ \A i \in JobIds : jobs'[i] = jobs[i] \/ JobRow(i) \in Superseded \/ jobs[i].status # "running"
  BY <1>2, EnqueueKeeps
<1>4. /\ extractor' \in [Extractors -> ExtractorRecords]
      /\ \A x \in Extractors : extractor'[x].step = extractor[x].step /\ extractor'[x].job = extractor[x].job
  BY <1>1, <1>2, AfterKeeps
<1>5. CleanFound'
  BY <1>1, <1>2, <1>3, <1>4, WriteKeeps DEF CleanFound, Found
<1>6. GraphShape'
  BY <1>1, <1>2, <1>3, <1>4 DEF GraphShape
<1> QED BY <1>3, <1>5, <1>6 DEF GraphInv

\* Cancelled and repeated jobs are well-formed.
LEMMA ControlJobs ==
  ASSUME GraphInv, NEW j \in JobIds, NEW action \in {"cancel", "retry"}, ControlJob(j, action)
  PROVE  jobs' \in [JobIds -> JobRecords] /\ JobsSound'
<1>1. GraphShape /\ JobsSound
  BY DEF GraphInv
<1>2. jobs[j] \in JobRecords
  BY <1>1 DEF GraphShape
<1>3. PICK status : status = IF action = "retry" THEN "queued" ELSE "cancelled"
  OBVIOUS
<1>4. status \in {"queued", "cancelled"}
  BY <1>3
<1>5. PICK row : row = [jobs[j] EXCEPT !.status = status, !.attempts = 0]
  OBVIOUS
<1>6. jobs' = [jobs EXCEPT ![j] = row]
  BY <1>1, <1>2, <1>3, <1>5 DEF ControlJob, GraphShape
<1>7. 0 \in 0..MaxTries
  BY GraphAssumption
<1>8. row \in JobRecords /\ row.version = jobs[j].version /\ row.completed = jobs[j].completed
  BY <1>2, <1>4, <1>5, <1>7 DEF JobRecords, JobStates, Live
<1>9. jobs[j].status \notin {"absent", "succeeded"}
  BY DEF ControlJob, Live
<1> QED BY <1>1, <1>6, <1>8, <1>9 DEF GraphShape, JobsSound

\* Edges that are written are well-formed ...
LEMMA EdgesStaySound ==
  ASSUME GraphShape, NEW f \in Facts, NEW v \in Editions, NEW locked \in BOOLEAN
  PROVE  WriteFact(f, v, locked) \subseteq EdgeRecords
<1>1. Fact(f, v, locked) \in EdgeRecords
  BY DEF Fact, EdgeRecords
<1> QED BY <1>1 DEF GraphShape, WriteFact

\* ... and so is what is left of them.
LEMMA WithdrawnStaySound ==
  ASSUME NEW f, NEW from, from \subseteq EdgeRecords
  PROVE  Withdrawn(f, from) \subseteq EdgeRecords
<1>1. ASSUME NEW e \in EdgeRecords PROVE [e EXCEPT !.enabled = FALSE, !.locked = TRUE] \in EdgeRecords
  BY DEF EdgeRecords
<1> QED BY <1>1 DEF Withdrawn

\* What people decide keeps the invariant: a commit under way is disturbed by it.
LEMMA ManagerKeeps == GraphInv /\ ManagerStep => GraphInv'
<1> SUFFICES ASSUME GraphInv, ManagerStep PROVE GraphInv'
  OBVIOUS
<1>1. GraphShape /\ JobsSound /\ CleanFound
  BY DEF GraphInv
<1>2. ASSUME NEW writes, Command(writes), UNCHANGED jobs, active' \in 0..MaxEditions, enabled' \in BOOLEAN,
             pending' \subseteq CandidateRecords, decided' \subseteq Facts, edges' \subseteq EdgeRecords
      PROVE  GraphInv'
  BY <1>1, <1>2, CommandKeeps DEF GraphInv, GraphShape, JobsSound
<1>3. CASE SetPolicy
  BY <1>1, <1>2, <1>3 DEF SetPolicy, GraphShape
<1>4. ASSUME NEW v \in Editions, QueueJob(v) PROVE GraphInv'
  <2>1. Enqueue(v, FALSE) /\ Command(Superseded) /\ UNCHANGED <<active, enabled, decided, edges>>
    BY <1>4 DEF QueueJob
  <2>2. jobs' \in [JobIds -> JobRecords] /\ JobsSound' /\ pending' = {}
    BY <2>1, EnqueueKeeps
  <2> QED BY <1>1, <2>1, <2>2, CommandKeeps DEF GraphInv, GraphShape
<1>5. ASSUME NEW v \in 0..MaxEditions, ChangeActive(v) PROVE GraphInv'
  <2>1. extractor' = After({Document}) /\ UNCHANGED <<enabled, jobs, pending, decided, edges, revision>> /\ active' = v
    BY <1>5 DEF ChangeActive
  <2>2. /\ extractor' \in [Extractors -> ExtractorRecords]
        /\ \A x \in Extractors : extractor'[x].step = extractor[x].step /\ extractor'[x].job = extractor[x].job
        /\ \A x \in Extractors : extractor'[x].step = "commit" /\ extractor'[x].clean => {Document} \cap Written(x) = {}
    BY <1>1, <2>1, AfterKeeps
  <2>3. \A x \in Extractors : Document \in {Document} \cap Written(x)
    BY DEF Written
  <2>4. CleanFound'
    BY <1>1, <2>2, <2>3 DEF CleanFound
  <2> QED BY <1>1, <2>1, <2>2, <2>4 DEF GraphInv, GraphShape, JobsSound
<1>6. ASSUME NEW j \in JobIds, NEW action \in {"cancel", "retry"}, ControlJob(j, action) PROVE GraphInv'
  <2>1. Command({JobRow(j)}) /\ UNCHANGED <<active, enabled, pending, decided, edges>>
    BY <1>6 DEF ControlJob
  <2> QED BY <1>1, <1>6, <2>1, ControlJobs, CommandKeeps DEF GraphInv, GraphShape
<1>7. ASSUME NEW c \in pending, Reject(c) PROVE GraphInv'
  <2>1. c.fact \in Facts
    BY <1>1 DEF GraphShape, CandidateRecords
  <2> QED BY <1>1, <1>2, <1>7, <2>1, WithdrawnStaySound DEF Reject, GraphShape
<1>8. ASSUME NEW c \in pending, NEW f \in Facts, Approve(c, f) PROVE GraphInv'
  <2>1. c.fact \in Facts /\ c.version \in Editions
    BY <1>1 DEF GraphShape, CandidateRecords
  <2>2. edges' \subseteq EdgeRecords
    BY <1>1, <1>8, <2>1, EdgesStaySound, WithdrawnStaySound DEF Approve
  <2> QED BY <1>1, <1>2, <1>8, <2>1, <2>2 DEF Approve, GraphShape
<1>9. ASSUME NEW old \in {{}} \cup {{e} : e \in edges}, NEW f \in Facts, SaveEdge(old, f) PROVE GraphInv'
  <2>1. old \subseteq EdgeRecords /\ active \in Editions
    BY <1>1, <1>9, GraphAssumption DEF GraphShape, SaveEdge, Editions
  <2>2. PICK new : new = [fact |-> f, version |-> active, origin |-> "manual", enabled |-> TRUE, locked |-> TRUE]
    OBVIOUS
  <2>3. new \in EdgeRecords
    BY <2>1, <2>2 DEF EdgeRecords
  <2>4. edges' \subseteq EdgeRecords
    BY <1>1, <1>9, <2>2, <2>3 DEF SaveEdge, GraphShape
  <2>5. decided' \subseteq Facts
    BY <1>1, <1>9, <2>1 DEF SaveEdge, GraphShape, EdgeRecords
  <2> QED BY <1>1, <1>2, <1>9, <2>4, <2>5 DEF SaveEdge, GraphShape
<1>10. ASSUME NEW e \in edges, NEW on \in BOOLEAN, ChangeEdgeState(e, on) PROVE GraphInv'
  <2>1. PICK new : new = [e EXCEPT !.enabled = on, !.locked = TRUE]
    OBVIOUS
  <2>2. e \in EdgeRecords
    BY <1>1 DEF GraphShape
  <2>3. new \in EdgeRecords /\ e.fact \in Facts
    BY <2>1, <2>2 DEF EdgeRecords
  <2>4. edges' \subseteq EdgeRecords /\ decided' \subseteq Facts
    BY <1>1, <1>10, <2>1, <2>3 DEF ChangeEdgeState, GraphShape
  <2>5. PICK writes : Command(writes)
    BY <1>10 DEF ChangeEdgeState
  <2> QED BY <1>1, <1>2, <1>10, <2>4, <2>5 DEF ChangeEdgeState, GraphShape
<1> QED BY <1>3, <1>4, <1>5, <1>6, <1>7, <1>8, <1>9, <1>10 DEF ManagerStep

\* A worker moves on; what the others have found stays found.
LEMMA ExtractorMoves ==
  ASSUME GraphInv, NEW x \in Extractors, NEW e \in ExtractorRecords,
         extractor' = [extractor EXCEPT ![x] = e],
         e.step # "idle" => e.job \in JobIds,
         e.step = "commit" /\ e.clean => e.job = extractor[x].job /\ e.decided = decided /\ Guard(x),
         UNCHANGED <<active, enabled, jobs, pending, decided, edges, revision>>
  PROVE  GraphInv'
<1>1. GraphShape /\ JobsSound /\ CleanFound
  BY DEF GraphInv
<1>2. extractor' \in [Extractors -> ExtractorRecords] /\ extractor'[x] = e
      /\ \A y \in Extractors \ {x} : extractor'[y] = extractor[y]
  BY <1>1 DEF GraphShape
<1>3. CleanFound'
  BY <1>1, <1>2 DEF CleanFound, Found, Guard
<1>4. GraphShape' /\ JobsSound'
  BY <1>1, <1>2 DEF GraphShape, JobsSound
<1> QED BY <1>3, <1>4 DEF GraphInv

\* A claim keeps it: nobody else can still commit for the job.
LEMMA ClaimExtractionKeeps ==
  ASSUME GraphInv, NEW x \in Extractors, NEW j \in JobIds, ClaimExtraction(x, j)
  PROVE  GraphInv'
<1>1. GraphShape /\ JobsSound /\ CleanFound
  BY DEF GraphInv
<1>2. jobs[j] \in JobRecords /\ jobs \in [JobIds -> JobRecords]
  BY <1>1 DEF GraphShape
<1>3. jobs[j].version \in Editions /\ jobs[j].completed < MaxChunks /\ jobs[j].status # "absent"
  BY <1>1 DEF ClaimExtraction, JobsSound
<1>4. UNCHANGED <<active, enabled, pending, decided, edges, revision>>
  BY DEF ClaimExtraction
<1> DEFINE rest == After({JobRow(j)})
<1>5. /\ rest \in [Extractors -> ExtractorRecords]
      /\ \A y \in Extractors : rest[y].step = extractor[y].step /\ rest[y].job = extractor[y].job
  BY <1>1, AfterKeeps
<1>6. ASSUME NEW row \in JobRecords, jobs' = [jobs EXCEPT ![j] = row], row.status # "absent" => row.version = jobs[j].version,
             row.completed = jobs[j].completed
      PROVE  /\ jobs' \in [JobIds -> JobRecords] /\ JobsSound'
             /\ \A y \in Extractors : rest[y].step = "commit" /\ rest[y].clean =>
                  /\ rest[y].decided = decided'
                  /\ jobs'[extractor[y].job] = jobs[extractor[y].job]
                  /\ jobs[extractor[y].job].owner = y /\ jobs[extractor[y].job].status = "running"
                  /\ jobs[extractor[y].job].version = active /\ (jobs[extractor[y].job].automatic => enabled)
  <2>1. /\ jobs' \in [JobIds -> JobRecords] /\ jobs'[j] = row
        /\ \A i \in JobIds \ {j} : jobs'[i] = jobs[i]
    BY <1>2, <1>6
  <2>2. JobsSound'
    BY <1>1, <1>3, <1>6, <2>1 DEF JobsSound
  <2>3. \A i \in JobIds : jobs'[i] = jobs[i] \/ JobRow(i) \in {JobRow(j)} \/ jobs[i].status # "running"
    BY <2>1
  <2> QED BY <1>4, <2>1, <2>2, <2>3, WriteKeeps
<1>7. CASE jobs[j].attempts >= MaxTries
  <2>1. jobs' = [jobs EXCEPT ![j] = Left(jobs[j], "failed")] /\ extractor' = rest
    BY <1>2, <1>7 DEF ClaimExtraction
  <2>2. /\ Left(jobs[j], "failed") \in JobRecords /\ Left(jobs[j], "failed").version = jobs[j].version
        /\ Left(jobs[j], "failed").completed = jobs[j].completed
    BY <1>2, LeftJob DEF JobStates
  <2> HIDE DEF rest
  <2>a. \A y \in Extractors : rest[y].step = "commit" /\ rest[y].clean =>
          /\ rest[y].decided = decided'
          /\ jobs'[extractor[y].job] = jobs[extractor[y].job]
          /\ jobs[extractor[y].job].owner = y /\ jobs[extractor[y].job].status = "running"
          /\ jobs[extractor[y].job].version = active /\ (jobs[extractor[y].job].automatic => enabled)
    BY <1>6, <2>1, <2>2
  <2>b. \A y \in Extractors : extractor'[y].step # "idle" => extractor'[y].job \in JobIds
    BY <1>1, <1>5, <2>1 DEF CleanFound
  <2>c. ASSUME NEW y \in Extractors, extractor'[y].step = "commit", extractor'[y].clean PROVE Found(y)'
    BY <1>4, <1>5, <2>1, <2>a, <2>c DEF Found
  <2>3. CleanFound'
    BY <2>b, <2>c DEF CleanFound
  <2> QED BY <1>1, <1>4, <1>5, <1>6, <2>1, <2>2, <2>3 DEF GraphInv, GraphShape
<1>8. CASE ~(jobs[j].attempts >= MaxTries)
  <2>1. PICK row : row = [jobs[j] EXCEPT !.status = "running", !.attempts = jobs[j].attempts + 1, !.owner = x, !.leased = TRUE]
    OBVIOUS
  <2>2. PICK e : e = [Idle EXCEPT !.step = "claimed", !.job = j, !.done = jobs[j].completed]
    OBVIOUS
  <2>3. jobs' = [jobs EXCEPT ![j] = row]
    <3>1. [jobs[j] EXCEPT !.status = "running", !.attempts = @ + 1, !.owner = x, !.leased = TRUE] = row
      BY <1>2, <2>1 DEF JobRecords
    <3>2. jobs' = [jobs EXCEPT ![j] = [jobs[j] EXCEPT !.status = "running", !.attempts = @ + 1, !.owner = x, !.leased = TRUE]]
      BY <1>2, <1>8 DEF ClaimExtraction
    <3> QED BY <3>1, <3>2
  <2>4. extractor' = [rest EXCEPT ![x] = e]
    BY <1>8, <2>2 DEF ClaimExtraction
  <2>5. jobs[j].attempts + 1 \in 0..MaxTries
    BY <1>2, <1>8, GraphAssumption DEF JobRecords
  <2>6. row \in JobRecords /\ row.version = jobs[j].version /\ row.completed = jobs[j].completed
    BY <1>2, <2>1, <2>5 DEF JobRecords, JobStates, Live
  <2>7. jobs[j].completed \in 0..MaxChunks /\ j \in 0..MaxJobs
    BY <1>2, GraphAssumption DEF JobRecords, JobIds
  <2>8. e \in ExtractorRecords /\ e.step = "claimed" /\ e.job = j
    BY <2>2, <2>7, IdleExtractor DEF ExtractorRecords
  <2> HIDE DEF rest
  <2>9. /\ extractor' \in [Extractors -> ExtractorRecords] /\ extractor'[x] = e
        /\ \A y \in Extractors \ {x} : extractor'[y] = rest[y]
    BY <1>5, <2>4, <2>8
  <2>a. \A y \in Extractors : rest[y].step = "commit" /\ rest[y].clean =>
          /\ rest[y].decided = decided'
          /\ jobs'[extractor[y].job] = jobs[extractor[y].job]
          /\ jobs[extractor[y].job].owner = y /\ jobs[extractor[y].job].status = "running"
          /\ jobs[extractor[y].job].version = active /\ (jobs[extractor[y].job].automatic => enabled)
    BY <1>6, <2>3, <2>6
  <2>b. \A y \in Extractors : extractor'[y].step # "idle" => extractor'[y].job \in JobIds
    BY <1>1, <1>5, <2>8, <2>9 DEF CleanFound
  <2>c. ASSUME NEW y \in Extractors, extractor'[y].step = "commit", extractor'[y].clean PROVE Found(y)'
    <3>1. y # x /\ extractor'[y] = rest[y]
      BY <2>8, <2>9, <2>c
    <3> QED BY <1>4, <1>5, <2>a, <2>c, <3>1 DEF Found
  <2>10. CleanFound'
    BY <2>b, <2>c DEF CleanFound
  <2> QED BY <1>1, <1>4, <1>6, <2>3, <2>6, <2>9, <2>10 DEF GraphInv, GraphShape
<1> QED BY <1>7, <1>8

\* A commit keeps it: only an undisturbed one writes.
LEMMA CommitKeeps ==
  ASSUME GraphInv, NEW x \in Extractors, CommitChunk(x)
  PROVE  GraphInv'
<1>1. GraphShape /\ JobsSound /\ CleanFound
  BY DEF GraphInv
<1>2. PICK j : j = extractor[x].job
  OBVIOUS
<1>3. /\ j \in JobIds /\ extractor[x].step = "commit" /\ extractor[x].clean /\ Found(x)
      /\ extractor[x] \in ExtractorRecords /\ jobs[j] \in JobRecords
  BY <1>1, <1>2 DEF CommitChunk, CleanFound, GraphShape
<1>4. jobs[j].version \in Editions /\ jobs[j].completed < MaxChunks
  BY <1>1, <1>2, <1>3 DEF Found, JobsSound
<1>5. PICK status : status = IF jobs[j].completed + 1 = MaxChunks THEN "succeeded" ELSE "queued"
  OBVIOUS
<1>6. PICK done : done = jobs[j].completed + 1
  OBVIOUS
<1>7. done \in 0..MaxChunks /\ (status # "succeeded" => done < MaxChunks) /\ status \in JobStates /\ 0 \in 0..MaxTries
  BY <1>3, <1>4, <1>5, <1>6, GraphAssumption DEF JobRecords, JobStates, Live
<1>8. PICK l : l = Left(jobs[j], status)
  OBVIOUS
<1>9. l \in JobRecords /\ l.status = status /\ l.version = jobs[j].version /\ l.completed = jobs[j].completed
  BY <1>3, <1>7, <1>8, LeftJob
<1>10. PICK row : row = [l EXCEPT !.completed = done, !.attempts = 0]
  OBVIOUS
<1>11. row \in JobRecords /\ row.status = status /\ row.version = jobs[j].version /\ row.completed = done
  BY <1>7, <1>9, <1>10 DEF JobRecords
<1>12. jobs' = [jobs EXCEPT ![j] = row]
  <2>1. jobs' = [jobs EXCEPT ![j] = [l EXCEPT !.completed = @ + 1, !.attempts = 0]]
    BY <1>2, <1>5, <1>8 DEF CommitChunk
  <2>2. [l EXCEPT !.completed = @ + 1, !.attempts = 0] = row
    BY <1>6, <1>9, <1>10 DEF JobRecords
  <2> QED BY <2>1, <2>2
<1>13. jobs' \in [JobIds -> JobRecords] /\ JobsSound'
  BY <1>1, <1>3, <1>4, <1>7, <1>11, <1>12 DEF GraphShape, JobsSound
<1>14. /\ extractor' = [After(Written(x)) EXCEPT ![x] = Idle] /\ revision < MaxChanges /\ revision' = revision + 1
       /\ UNCHANGED <<active, enabled, decided>>
  BY DEF CommitChunk
<1> DEFINE rest == After(Written(x))
<1>15. /\ rest \in [Extractors -> ExtractorRecords]
       /\ \A y \in Extractors :
            /\ rest[y].step = extractor[y].step /\ rest[y].job = extractor[y].job
            /\ rest[y].step = "commit" /\ rest[y].clean => Written(x) \cap Written(y) = {}
  BY <1>1, AfterKeeps
<1>16. \A y \in Extractors : Graph \in Written(x) \cap Written(y)
  BY DEF Written
<1>17. extractor' = [rest EXCEPT ![x] = Idle]
  BY <1>14
<1> HIDE DEF rest
<1>18. extractor' \in [Extractors -> ExtractorRecords] /\ extractor'[x] = Idle
       /\ \A y \in Extractors \ {x} : extractor'[y] = rest[y]
  BY <1>15, <1>17, IdleExtractor
<1>19. CleanFound'
  BY <1>1, <1>15, <1>16, <1>18, IdleExtractor DEF CleanFound
<1>20. edges' \subseteq EdgeRecords
  <2>1. edges' = edges \/ (extractor[x].fact \in Facts /\ edges' = WriteFact(extractor[x].fact, jobs[j].version, FALSE))
    BY <1>2, <1>3 DEF CommitChunk, ExtractorRecords
  <2> QED BY <1>1, <1>4, <2>1, EdgesStaySound DEF GraphShape
<1>21. pending' \subseteq CandidateRecords
  <2>1. PICK c : c = [fact |-> extractor[x].fact, version |-> jobs[j].version, job |-> j]
    OBVIOUS
  <2>2. pending' = pending \/ (extractor[x].fact \in Facts /\ pending' = pending \cup {c})
    BY <1>2, <1>3, <2>1 DEF CommitChunk, ExtractorRecords
  <2>3. extractor[x].fact \in Facts => c \in CandidateRecords
    BY <1>3, <1>4, <2>1 DEF CandidateRecords
  <2> QED BY <1>1, <2>2, <2>3 DEF GraphShape
<1>22. revision' \in 0..MaxChanges
  BY <1>1, <1>14, GraphAssumption DEF GraphShape
<1> QED BY <1>1, <1>13, <1>14, <1>18, <1>19, <1>20, <1>21, <1>22 DEF GraphInv, GraphShape

\* The end of an attempt keeps it.
LEMMA EndAttemptKeeps ==
  ASSUME GraphInv, NEW x \in Extractors, EndAttempt(x)
  PROVE  GraphInv'
<1>1. GraphShape /\ JobsSound /\ CleanFound
  BY DEF GraphInv
<1>2. PICK j : j = extractor[x].job
  OBVIOUS
<1>3. extractor[x].step # "idle"
  BY DEF EndAttempt
<1>4. j \in JobIds /\ jobs[j] \in JobRecords
  BY <1>1, <1>2, <1>3 DEF CleanFound, GraphShape
<1>5. UNCHANGED <<active, enabled, pending, decided, edges, revision>> /\ extractor' = [extractor EXCEPT ![x] = Idle]
  BY DEF EndAttempt
<1>6. \/ jobs' = jobs
      \/ jobs[j].owner = x /\ jobs[j].status = "running"
         /\ \E status \in {"superseded", "failed", "queued"} : jobs' = [jobs EXCEPT ![j] = Left(jobs[j], status)]
  BY <1>2 DEF EndAttempt
<1>7. CASE jobs' = jobs
  BY <1>1, <1>5, <1>7, IdleExtractor, ExtractorMoves
<1>8. CASE jobs' # jobs
  <2>1. PICK status \in {"superseded", "failed", "queued"} : jobs' = [jobs EXCEPT ![j] = Left(jobs[j], status)]
    BY <1>6, <1>8
  <2>2. jobs[j].owner = x /\ jobs[j].status = "running"
    BY <1>6, <1>8
  <2>3. /\ Left(jobs[j], status) \in JobRecords /\ Left(jobs[j], status).version = jobs[j].version
        /\ Left(jobs[j], status).completed = jobs[j].completed
    BY <1>4, LeftJob DEF JobStates, Live
  <2>4. jobs' \in [JobIds -> JobRecords] /\ JobsSound' /\ \A i \in JobIds \ {j} : jobs'[i] = jobs[i]
    BY <1>1, <1>4, <2>1, <2>2, <2>3 DEF GraphShape, JobsSound
  <2>5. /\ extractor' \in [Extractors -> ExtractorRecords] /\ extractor'[x] = Idle
        /\ \A y \in Extractors \ {x} : extractor'[y] = extractor[y]
    BY <1>1, <1>5, IdleExtractor DEF GraphShape
  <2>6. ASSUME NEW y \in Extractors, extractor'[y].step # "idle"
        PROVE  /\ extractor'[y].job \in JobIds
               /\ extractor'[y].step = "commit" /\ extractor'[y].clean => Found(y)'
    <3>1. extractor'[y] = extractor[y] /\ y # x
      BY <2>5, <2>6, IdleExtractor
    <3>2. extractor[y].job \in JobIds /\ (extractor[y].step = "commit" /\ extractor[y].clean => Found(y))
      BY <1>1, <2>6, <3>1 DEF CleanFound
    <3>3. ASSUME Found(y) PROVE Found(y)'
      BY <1>5, <2>2, <2>4, <3>1, <3>2, <3>3 DEF Found
    <3> QED BY <3>1, <3>2, <3>3
  <2>7. CleanFound'
    BY <2>6 DEF CleanFound
  <2> QED BY <1>1, <1>5, <2>4, <2>5, <2>7 DEF GraphInv, GraphShape
<1> QED BY <1>7, <1>8

\* So every step of a worker keeps it.
LEMMA ExtractorKeeps ==
  ASSUME GraphInv, NEW x \in Extractors, ExtractorStep(x)
  PROVE  GraphInv'
<1>1. extractor \in [Extractors -> ExtractorRecords] /\ decided \subseteq Facts
      /\ (extractor[x].step # "idle" => extractor[x].job \in JobIds)
  BY DEF GraphInv, GraphShape, CleanFound
<1>2. extractor[x] \in ExtractorRecords
  BY <1>1
<1>3. ASSUME NEW f \in Facts \cup {NoFact}, NEW sure \in BOOLEAN, Extract(x, f, sure) PROVE GraphInv'
  <2>1. PICK e : e = [extractor[x] EXCEPT !.step = "found", !.fact = f, !.sure = sure]
    OBVIOUS
  <2>2. e \in ExtractorRecords /\ e.step = "found" /\ e.job = extractor[x].job
    BY <1>2, <2>1 DEF ExtractorRecords
  <2>3. extractor' = [extractor EXCEPT ![x] = e]
    BY <1>1, <1>3, <2>1 DEF Extract
  <2> QED BY <1>1, <1>3, <2>2, <2>3, ExtractorMoves DEF Extract
<1>4. CASE BeginCommit(x)
  <2>1. PICK e : e = [extractor[x] EXCEPT !.step = "commit", !.decided = decided, !.clean = TRUE]
    OBVIOUS
  <2>2. e \in ExtractorRecords /\ e.job = extractor[x].job /\ e.decided = decided
    BY <1>1, <1>2, <2>1 DEF ExtractorRecords
  <2>3. extractor' = [extractor EXCEPT ![x] = e]
    BY <1>1, <1>4, <2>1 DEF BeginCommit
  <2> QED BY <1>1, <1>4, <2>2, <2>3, ExtractorMoves DEF BeginCommit
<1>5. CASE AbortCommit(x)
  <2>1. PICK e : e = [extractor[x] EXCEPT !.step = "found", !.decided = {}, !.clean = TRUE]
    OBVIOUS
  <2>2. e \in ExtractorRecords /\ e.step = "found" /\ e.job = extractor[x].job
    BY <1>2, <2>1 DEF ExtractorRecords
  <2>3. extractor' = [extractor EXCEPT ![x] = e]
    BY <1>1, <1>5, <2>1 DEF AbortCommit
  <2> QED BY <1>1, <1>5, <2>2, <2>3, ExtractorMoves DEF AbortCommit
<1>6. CASE CrashExtractor(x)
  BY <1>6, IdleExtractor, ExtractorMoves DEF CrashExtractor
<1> QED BY <1>3, <1>4, <1>5, <1>6, ClaimExtractionKeeps, CommitKeeps, EndAttemptKeeps DEF ExtractorStep

\* So every step keeps the invariant ...
LEMMA GraphInvStep == GraphInv /\ [GraphNext]_graphVars => GraphInv'
<1> SUFFICES ASSUME GraphInv, [GraphNext]_graphVars PROVE GraphInv'
  OBVIOUS
<1>1. GraphShape /\ JobsSound /\ CleanFound
  BY DEF GraphInv
<1>2. ASSUME NEW j \in JobIds, LapseExtraction(j) PROVE GraphInv'
  <2>1. PICK row : row = [jobs[j] EXCEPT !.leased = FALSE]
    OBVIOUS
  <2>2. /\ row \in JobRecords /\ row.status = jobs[j].status /\ row.version = jobs[j].version
        /\ row.completed = jobs[j].completed /\ row.owner = jobs[j].owner /\ row.automatic = jobs[j].automatic
    BY <1>1, <2>1 DEF GraphShape, JobRecords
  <2>3. jobs' = [jobs EXCEPT ![j] = row] /\ UNCHANGED <<active, enabled, pending, decided, edges, revision, extractor>>
    BY <1>1, <1>2, <2>1 DEF LapseExtraction, GraphShape
  <2>4. jobs' \in [JobIds -> JobRecords] /\ jobs'[j] = row /\ \A i \in JobIds \ {j} : jobs'[i] = jobs[i]
    BY <1>1, <2>2, <2>3 DEF GraphShape
  <2>5. JobsSound'
    BY <1>1, <2>2, <2>4 DEF JobsSound
  <2>6. CleanFound'
    BY <1>1, <2>2, <2>3, <2>4 DEF CleanFound, Found
  <2> QED BY <1>1, <2>3, <2>4, <2>5, <2>6 DEF GraphInv, GraphShape
<1>3. CASE UNCHANGED graphVars
  BY <1>1, <1>3 DEF graphVars, GraphInv, GraphShape, JobsSound, CleanFound, Found
<1> QED BY <1>2, <1>3, ExtractorKeeps, ManagerKeeps, ScanKeeps DEF GraphNext

\* ... and it always holds.
LEMMA GraphInvHolds == GraphSpec => []GraphInv
BY GraphInvInit, GraphInvStep, PTL DEF GraphSpec

\* What people write is not automatic any more.
LEMMA ByPeople ==
  ASSUME GraphShape, NEW f, NEW g \in Facts, NEW v \in Editions
  PROVE  /\ Automatic(Withdrawn(f, edges)) \subseteq Automatic(edges)
         /\ Automatic(WriteFact(g, v, TRUE)) \subseteq Automatic(edges)
         /\ Automatic(Withdrawn(f, WriteFact(g, v, TRUE))) \subseteq Automatic(edges)
<1>1. ASSUME NEW e \in EdgeRecords PROVE [e EXCEPT !.enabled = FALSE, !.locked = TRUE].locked = TRUE
  BY DEF EdgeRecords
<1>2. ASSUME NEW from, from \subseteq EdgeRecords PROVE Automatic(Withdrawn(f, from)) \subseteq Automatic(from)
  BY <1>1, <1>2 DEF Withdrawn, Automatic
<1>3. Automatic(WriteFact(g, v, TRUE)) \subseteq Automatic(edges)
  BY DEF WriteFact, Fact, Automatic
<1>4. edges \subseteq EdgeRecords /\ WriteFact(g, v, TRUE) \subseteq EdgeRecords
  BY EdgesStaySound DEF GraphShape
<1> QED BY <1>2, <1>3, <1>4

\* People add no automatic edge.
LEMMA ManagersAddNothing ==
  ASSUME GraphInv, ManagerStep
  PROVE  Automatic(edges') \subseteq Automatic(edges)
<1>1. GraphShape
  BY DEF GraphInv
<1>2. ASSUME NEW c \in pending, Reject(c) PROVE Automatic(edges') \subseteq Automatic(edges)
  <2>1. c.fact \in Facts /\ c.version \in Editions
    BY <1>1 DEF GraphShape, CandidateRecords
  <2>2. Automatic(Withdrawn(c.fact, edges)) \subseteq Automatic(edges)
    BY <1>1, <2>1, ByPeople
  <2> QED BY <1>2, <2>2 DEF Reject
<1>3. ASSUME NEW c \in pending, NEW f \in Facts, Approve(c, f) PROVE Automatic(edges') \subseteq Automatic(edges)
  <2>1. c.fact \in Facts /\ c.version \in Editions
    BY <1>1 DEF GraphShape, CandidateRecords
  <2> QED BY <1>1, <1>3, <2>1, ByPeople DEF Approve
<1>4. ASSUME NEW old \in {{}} \cup {{e} : e \in edges}, NEW f \in Facts, SaveEdge(old, f)
      PROVE  Automatic(edges') \subseteq Automatic(edges)
  BY <1>4 DEF SaveEdge, Automatic
<1>5. ASSUME NEW e \in edges, NEW on \in BOOLEAN, ChangeEdgeState(e, on)
      PROVE  Automatic(edges') \subseteq Automatic(edges)
  <2>1. PICK new : new = [e EXCEPT !.enabled = on, !.locked = TRUE]
    OBVIOUS
  <2>2. new.locked = TRUE
    BY <1>1, <2>1 DEF GraphShape, EdgeRecords
  <2>3. edges' = (edges \ {e}) \cup {new}
    BY <1>5, <2>1 DEF ChangeEdgeState
  <2> QED BY <2>2, <2>3 DEF Automatic
<1>6. SetPolicy \/ (\E v \in Editions : QueueJob(v)) \/ (\E v \in 0..MaxEditions : ChangeActive(v))
      \/ (\E j \in JobIds, action \in {"cancel", "retry"} : ControlJob(j, action)) => edges' = edges
  BY DEF SetPolicy, QueueJob, ChangeActive, ControlJob
<1> QED BY <1>2, <1>3, <1>4, <1>5, <1>6 DEF ManagerStep

\* An automatic edge is added by an undisturbed commit: nobody has decided against the fact,
\* and its job goes on by one chunk.
LEMMA FactsStep ==
  ASSUME GraphInv, [GraphNext]_graphVars, NEW e \in Automatic(edges') \ Automatic(edges)
  PROVE  /\ e.fact \notin decided /\ e.version = active
         /\ \E j \in JobIds : /\ jobs[j].status = "running" /\ jobs[j].version = e.version
                              /\ jobs'[j].completed = jobs[j].completed + 1
                              /\ jobs[j].automatic => enabled
<1>1. GraphShape /\ CleanFound
  BY DEF GraphInv
<1>2. PICK x \in Extractors : CommitChunk(x)
  <2>1. ASSUME NEW x \in Extractors, ExtractorStep(x), ~CommitChunk(x) PROVE edges' = edges
    BY <2>1 DEF ExtractorStep, ClaimExtraction, Extract, BeginCommit, AbortCommit, EndAttempt, CrashExtractor
  <2>2. ASSUME NEW v \in Editions, ScanPublished(v) PROVE edges' = edges
    BY <2>2 DEF ScanPublished
  <2>3. ASSUME NEW j \in JobIds, LapseExtraction(j) PROVE edges' = edges
    BY <2>3 DEF LapseExtraction
  <2>4. UNCHANGED graphVars => edges' = edges
    BY DEF graphVars
  <2>5. edges' # edges /\ ~ManagerStep
    BY ManagersAddNothing
  <2> QED BY <2>1, <2>2, <2>3, <2>4, <2>5 DEF GraphNext
<1>3. PICK j : j = extractor[x].job
  OBVIOUS
<1>4. j \in JobIds /\ Found(x) /\ jobs[j] \in JobRecords
  BY <1>1, <1>2, <1>3 DEF CommitChunk, CleanFound, GraphShape
<1>5. /\ extractor[x].fact # NoFact /\ extractor[x].fact \notin extractor[x].decided
      /\ edges' = WriteFact(extractor[x].fact, jobs[j].version, FALSE)
  BY <1>2, <1>3 DEF CommitChunk, Protected
<1>6. e = Fact(extractor[x].fact, jobs[j].version, FALSE)
  BY <1>5 DEF WriteFact, Automatic
<1>7. e.fact = extractor[x].fact /\ e.version = jobs[j].version
  BY <1>6 DEF Fact
<1>8. jobs'[j].completed = jobs[j].completed + 1
  <2>1. PICK status : status = IF jobs[j].completed + 1 = MaxChunks THEN "succeeded" ELSE "queued"
    OBVIOUS
  <2>2. PICK l : l = Left(jobs[j], status)
    OBVIOUS
  <2>3. status \in JobStates
    BY <2>1 DEF JobStates, Live
  <2>4. l \in JobRecords /\ l.completed = jobs[j].completed
    BY <1>4, <2>2, <2>3, LeftJob
  <2>5. jobs' = [jobs EXCEPT ![j] = [l EXCEPT !.completed = @ + 1, !.attempts = 0]]
    BY <1>2, <1>3, <2>1, <2>2 DEF CommitChunk
  <2>6. jobs'[j] = [l EXCEPT !.completed = @ + 1, !.attempts = 0]
    BY <1>1, <1>4, <2>5 DEF GraphShape
  <2> QED BY <2>4, <2>6 DEF JobRecords
<1>9. /\ extractor[x].decided = decided /\ jobs[j].status = "running" /\ jobs[j].version = active
      /\ (jobs[j].automatic => enabled)
  BY <1>3, <1>4 DEF Found
<1> QED BY <1>4, <1>5, <1>7, <1>8, <1>9

\* However old the snapshot its worker decides by, an extracted fact is never
\* published of a relation somebody has decided about, nor for a version, by a job or
\* under a policy that is not in force any more (graph_extraction.py, commit_chunk).
THEOREM FactsAreFenced == GraphSpec => FactsFenced
<1>1. GraphInv /\ [GraphNext]_graphVars =>
        [\A e \in Automatic(edges') \ Automatic(edges) : e.fact \notin decided]_graphVars
  BY FactsStep
<1>2. GraphInv /\ [GraphNext]_graphVars =>
        [\A e \in Automatic(edges') \ Automatic(edges) :
           /\ e.version = active
           /\ \E j \in JobIds : /\ jobs[j].status = "running" /\ jobs[j].version = e.version
                                /\ jobs'[j].completed = jobs[j].completed + 1
                                /\ jobs[j].automatic => enabled]_graphVars
  BY FactsStep
<1>3. GraphSpec => HumanDecisionStands
  BY <1>1, GraphInvHolds, PTL DEF GraphSpec, HumanDecisionStands
<1>4. GraphSpec => LateWritesNothing
  BY <1>2, GraphInvHolds, PTL DEF GraphSpec, LateWritesNothing
<1> QED BY <1>3, <1>4 DEF FactsFenced

-----------------------------------------------------------------------------
(* The projection: what a rebuild or Neo4j holds under the current revision *)
(* is the current topology.                                                 *)

\* What a rebuild or Neo4j holds under the current revision is the current topology:
\* the revision is read before the rows, and grows with each change of them.
Labelled ==
  /\ neo.revision <= graphState.revision
  /\ neo.revision = graphState.revision => neo.revision = 0 \/ neo.rows = topology
  /\ \A r \in Rebuilders :
       /\ rebuilder[r].revision <= graphState.revision
       /\ rebuilder[r].step = "rows" /\ rebuilder[r].revision = graphState.revision
            => rebuilder[r].rows = topology

ProjectionInv == ProjectionTypes /\ Labelled

\* The invariant holds at the beginning ...
LEMMA InitLabelled == ProjectionInit => ProjectionInv
  BY ProjectionAssumption, SMT DEF ProjectionInit, ProjectionInv, ProjectionTypes, Labelled, Resting

\* ... and is kept by every step.
LEMMA StepLabelled == ProjectionInv /\ [ProjectionNext]_projectionVars => ProjectionInv'
<1> SUFFICES ASSUME ProjectionInv, [ProjectionNext]_projectionVars PROVE ProjectionInv'
  OBVIOUS
<1> USE ProjectionAssumption DEF ProjectionInv, ProjectionTypes, Labelled
<1>1. ASSUME NEW rows \in SUBSET Topology, ChangeGraph(rows) PROVE ProjectionInv'
  <2>1. graphState'.revision = graphState.revision + 1 /\ graphState'.revision \in 0..MaxRevision
        /\ graphState'.projected = graphState.projected /\ graphState' \in [revision : 0..MaxRevision, projected : {-1} \cup 0..MaxRevision]
    BY <1>1 DEF ChangeGraph
  <2> QED BY <1>1, <2>1 DEF ChangeGraph
<1>2. ASSUME NEW r \in Rebuilders, ReadRevision(r) PROVE ProjectionInv'
  <2> DEFINE reads == [rebuilder[r] EXCEPT !.step = "read", !.revision = graphState.revision]
  <2>1. rebuilder' = [rebuilder EXCEPT ![r] = reads] /\ UNCHANGED <<topology, graphState, neo>>
    BY <1>2 DEF ReadRevision
  <2>2. reads.step = "read" /\ reads.revision = graphState.revision
        /\ reads \in [step : {"idle", "read", "rows", "mark"}, revision : 0..MaxRevision, rows : SUBSET Topology]
    OBVIOUS
  <2> HIDE DEF reads
  <2>3. ProjectionTypes'
    BY <2>1, <2>2
  <2>4. Labelled'
    BY <2>1, <2>2
  <2> QED BY <2>3, <2>4
<1>3. ASSUME NEW r \in Rebuilders, ReadRows(r) PROVE ProjectionInv'
  BY <1>3 DEF ReadRows
<1>4. ASSUME NEW r \in Rebuilders, WriteNeo(r) PROVE ProjectionInv'
  BY <1>4 DEF WriteNeo, Label
<1>5. ASSUME NEW r \in Rebuilders, MarkProjected(r) PROVE ProjectionInv'
  BY <1>5 DEF MarkProjected, Resting
<1>6. ASSUME NEW r \in Rebuilders, FailRebuild(r) PROVE ProjectionInv'
  BY <1>6 DEF FailRebuild, Resting
<1>7. CASE UNCHANGED projectionVars
  BY <1>7 DEF projectionVars
<1> QED BY <1>1, <1>2, <1>3, <1>4, <1>5, <1>6, <1>7 DEF ProjectionNext

\* Whatever rebuilds and changes overlap, rows that Neo4j holds under the current
\* revision are the current topology (graph.py:240-262).
THEOREM ProjectionStaysCurrent == ProjectionSpec => []ProjectionCurrent
<1>1. ProjectionInv => ProjectionCurrent
  BY DEF ProjectionInv, Labelled, ProjectionCurrent
<1> QED BY InitLabelled, StepLabelled, <1>1, PTL DEF ProjectionSpec

-----------------------------------------------------------------------------
(* Originals: of the sweeps that have closed a row, at most one is at the   *)
(* row's revision; the others have lost it.  What is not deleted is counted *)
(* by its set, which stays finite.                                          *)

OriginalRecords == [state : {"none", "deleted"} \cup Held, revision : 0..MaxRows,
                    leased : BOOLEAN, body : {"none", "stored", "gone"}]
SweeperRecords == [step : {"idle", "claim", "verify", "remove", "purge", "finish"},
                   on : Originals \cup {NoOriginal}, revision : 0..MaxRows]

RetentionShape ==
  /\ originals \in [Originals -> OriginalRecords]
  /\ reserved \in 0..Ceiling
  /\ reference \in [Originals -> {"active", "recent", "due"}]
  /\ reading \subseteq Originals
  /\ sweeper \in [Sweepers -> SweeperRecords]

\* Only originals are reopened too late.
LateOnes == late \subseteq Originals

\* The types, with the records named.
LEMMA RetentionShapes == RetentionTypes <=> RetentionShape /\ LateOnes
BY DEF RetentionTypes, RetentionShape, LateOnes, OriginalRecords, SweeperRecords

Closing == {"verify", "remove", "purge", "finish"}
HeldOnes == {o \in Originals : originals[o].state \in Held}

Sweeping ==
  \A w \in Sweepers : sweeper[w].step # "idle" =>
    /\ sweeper[w].on \in Originals
    /\ sweeper[w].revision <= Mine(w).revision

\* Whoever is at the revision of the row it has closed is alone with it.
Alone ==
  \A w \in Sweepers : sweeper[w].step \in Closing /\ Mine(w).revision = sweeper[w].revision =>
    /\ Mine(w).state = "deleting"
    /\ \A v \in Sweepers \ {w} : sweeper[v].step \in Closing /\ sweeper[v].on = sweeper[w].on =>
         sweeper[v].revision # sweeper[w].revision

Counted == IsFiniteSet(HeldOnes) /\ QuotaKept

RetentionInv == RetentionShape /\ Sweeping /\ Alone /\ Counted

\* The invariant holds at the beginning.
LEMMA RetentionInvInit == RetentionInit => RetentionInv
<1> SUFFICES ASSUME RetentionInit PROVE RetentionInv
  OBVIOUS
<1>1. 0 \in 0..MaxRows /\ 0 \in 0..Ceiling
  BY RetentionAssumption
<1>2. RetentionShape
  BY <1>1 DEF RetentionInit, RetentionShape, OriginalRecords, SweeperRecords, AtRest
<1>3. Sweeping /\ Alone
  BY DEF RetentionInit, Sweeping, Alone, AtRest, Closing
<1>4. HeldOnes = {}
  BY DEF RetentionInit, HeldOnes, Held
<1>5. Counted
  BY <1>4, FS_EmptySet DEF Counted, QuotaKept, HeldOnes, RetentionInit
<1> QED BY <1>2, <1>3, <1>5 DEF RetentionInv

\* A row that is kept as long as before is counted as before.
LEMMA StillCounted ==
  ASSUME Counted, reserved' = reserved,
         \A o \in Originals : originals'[o].state \in Held <=> originals[o].state \in Held
  PROVE  Counted'
<1>1. HeldOnes' = HeldOnes
  BY DEF HeldOnes
<1> QED BY <1>1 DEF Counted, QuotaKept, HeldOnes

\* Nothing of what sweeps rely on moves.
LEMMA RowsUntouched ==
  ASSUME Sweeping, Alone, UNCHANGED sweeper, RetentionShape,
         \A o \in Originals : /\ originals'[o].revision = originals[o].revision
                              /\ originals[o].state = "deleting" => originals'[o].state = "deleting"
  PROVE  Sweeping' /\ Alone'
BY DEF Sweeping, Alone, Mine, Closing

\* One row changes, the others stay.
LEMMA OneRow ==
  ASSUME RetentionShape, NEW o \in Originals, NEW r \in OriginalRecords, originals' = [originals EXCEPT ![o] = r]
  PROVE  /\ originals' \in [Originals -> OriginalRecords]
         /\ originals'[o] = r /\ \A p \in Originals \ {o} : originals'[p] = originals[p]
BY DEF RetentionShape

\* Those who use an original keep the invariant.
LEMMA UseKeeps ==
  ASSUME RetentionInv, NEW o \in Originals, UseStep(o)
  PROVE  RetentionInv'
<1>1. RetentionShape /\ Sweeping /\ Alone /\ Counted
  BY DEF RetentionInv
<1>2. originals[o] \in OriginalRecords /\ originals \in [Originals -> OriginalRecords]
  BY <1>1 DEF RetentionShape
<1>3. ASSUME ReserveOriginal(o) PROVE RetentionInv'
  <2>1. PICK r : r = [originals[o] EXCEPT !.state = "active", !.leased = TRUE]
    OBVIOUS
  <2>2. originals' = [originals EXCEPT ![o] = r]
    BY <1>2, <1>3, <2>1 DEF ReserveOriginal
  <2>3. r \in OriginalRecords /\ r.state = "active" /\ r.revision = originals[o].revision
    BY <1>2, <2>1 DEF OriginalRecords, Held
  <2>4. /\ originals' \in [Originals -> OriginalRecords]
        /\ originals'[o] = r /\ \A p \in Originals \ {o} : originals'[p] = originals[p]
    BY <1>1, <2>2, <2>3, OneRow
  <2>5. originals[o].state = "none" /\ reserved < Ceiling /\ reserved' = reserved + 1
        /\ UNCHANGED <<reference, reading, sweeper>>
    BY <1>3 DEF ReserveOriginal
  <2>6. reserved' \in 0..Ceiling
    BY <1>1, <2>5, RetentionAssumption DEF RetentionShape
  <2>7. RetentionShape'
    BY <1>1, <2>4, <2>5, <2>6 DEF RetentionShape
  <2>8. Sweeping' /\ Alone'
    BY <1>1, <2>3, <2>4, <2>5, RowsUntouched
  <2>9. Counted'
    <3>1. o \notin HeldOnes /\ HeldOnes' = HeldOnes \cup {o}
      BY <2>3, <2>4, <2>5 DEF HeldOnes, Held
    <3>2. IsFiniteSet(HeldOnes') /\ Cardinality(HeldOnes') = Cardinality(HeldOnes) + 1
      BY <1>1, <3>1, FS_AddElement DEF Counted
    <3> QED BY <1>1, <2>5, <3>2 DEF Counted, QuotaKept, HeldOnes
  <2> QED BY <2>7, <2>8, <2>9 DEF RetentionInv
<1>4. ASSUME StoreOriginal(o) PROVE RetentionInv'
  <2>1. PICK r : r = [originals[o] EXCEPT !.body = "stored"]
    OBVIOUS
  <2>2. originals' = [originals EXCEPT ![o] = r]
    BY <1>2, <1>4, <2>1 DEF StoreOriginal
  <2>3. r \in OriginalRecords /\ r.state = originals[o].state /\ r.revision = originals[o].revision
    BY <1>2, <2>1 DEF OriginalRecords
  <2>4. /\ originals' \in [Originals -> OriginalRecords]
        /\ originals'[o] = r /\ \A p \in Originals \ {o} : originals'[p] = originals[p]
    BY <1>1, <2>2, <2>3, OneRow
  <2>5. UNCHANGED <<reserved, reference, reading, sweeper>>
    BY <1>4 DEF StoreOriginal
  <2>6. RetentionShape'
    BY <1>1, <2>4, <2>5 DEF RetentionShape
  <2>7. Sweeping' /\ Alone'
    BY <1>1, <2>3, <2>4, <2>5, RowsUntouched
  <2>8. Counted'
    BY <1>1, <2>3, <2>4, <2>5, StillCounted
  <2> QED BY <2>6, <2>7, <2>8 DEF RetentionInv
<1>5. ASSUME AdmitReader(o) PROVE RetentionInv'
  <2>1. PICK r : r = [originals[o] EXCEPT !.revision = originals[o].revision + 1, !.leased = TRUE]
    OBVIOUS
  <2>2. originals' = [originals EXCEPT ![o] = r]
    BY <1>2, <1>5, <2>1 DEF AdmitReader
  <2>a. originals[o].state = "active" /\ originals[o].revision < MaxRows
    BY <1>5 DEF AdmitReader, Admits
  <2>b. originals[o].revision + 1 \in 0..MaxRows
    BY <1>2, <2>a, RetentionAssumption DEF OriginalRecords
  <2>3. r \in OriginalRecords /\ r.state = "active" /\ r.revision = originals[o].revision + 1
    BY <1>2, <2>1, <2>a, <2>b DEF OriginalRecords
  <2>4. /\ originals' \in [Originals -> OriginalRecords]
        /\ originals'[o] = r /\ \A p \in Originals \ {o} : originals'[p] = originals[p]
    BY <1>1, <2>2, <2>3, OneRow
  <2>5. UNCHANGED <<reserved, reference, sweeper>> /\ reading' = reading \cup {o}
    BY <1>5 DEF AdmitReader
  <2>6. RetentionShape'
    BY <1>1, <2>4, <2>5 DEF RetentionShape
  <2>7. Sweeping' /\ Alone'
    <3>1. \A w \in Sweepers : sweeper[w].revision \in Nat
      BY <1>1, RetentionAssumption DEF RetentionShape, SweeperRecords
    <3>2. \A p \in Originals : originals[p].revision \in Nat
      BY <1>1, RetentionAssumption DEF RetentionShape, OriginalRecords
    <3>3. Sweeping'
      BY <1>1, <2>3, <2>4, <2>5, <3>1, <3>2 DEF Sweeping, Mine
    <3>4. ASSUME NEW w \in Sweepers, (sweeper[w].step \in Closing /\ Mine(w).revision = sweeper[w].revision)'
          PROVE  sweeper[w].step \in Closing /\ Mine(w).revision = sweeper[w].revision /\ sweeper[w].on # o
                 /\ sweeper[w].on \in Originals
      BY <1>1, <2>3, <2>4, <2>5, <3>1, <3>2, <3>4 DEF Sweeping, Mine, Closing
    <3>5. Alone'
      BY <1>1, <2>4, <2>5, <3>4 DEF Alone, Mine
    <3> QED BY <3>3, <3>5
  <2>8. Counted'
    BY <1>1, <2>3, <2>4, <2>5, <2>a, StillCounted DEF Held
  <2> QED BY <2>6, <2>7, <2>8 DEF RetentionInv
<1>6. ASSUME (\E how \in {"active", "recent"} : ReferTo(o, how)) \/ EndReference(o) \/ PassDeadline(o) PROVE RetentionInv'
  <2>1. UNCHANGED <<originals, reserved, reading, sweeper>>
        /\ \E d \in {"active", "recent", "due"} : reference' = [reference EXCEPT ![o] = d]
    BY <1>6 DEF ReferTo, EndReference, PassDeadline
  <2>2. RetentionShape'
    BY <1>1, <2>1 DEF RetentionShape
  <2>3. Sweeping' /\ Alone' /\ Counted'
    BY <1>1, <2>1, RowsUntouched, StillCounted
  <2> QED BY <2>2, <2>3 DEF RetentionInv
<1>7. ASSUME LapseLease(o) PROVE RetentionInv'
  <2>1. PICK r : r = [originals[o] EXCEPT !.leased = FALSE]
    OBVIOUS
  <2>2. originals' = [originals EXCEPT ![o] = r]
    BY <1>2, <1>7, <2>1 DEF LapseLease
  <2>3. r \in OriginalRecords /\ r.state = originals[o].state /\ r.revision = originals[o].revision
    BY <1>2, <2>1 DEF OriginalRecords
  <2>4. /\ originals' \in [Originals -> OriginalRecords]
        /\ originals'[o] = r /\ \A p \in Originals \ {o} : originals'[p] = originals[p]
    BY <1>1, <2>2, <2>3, OneRow
  <2>5. UNCHANGED <<reserved, reference, sweeper>> /\ reading' \subseteq reading
    BY <1>7 DEF LapseLease
  <2>6. RetentionShape'
    BY <1>1, <2>4, <2>5 DEF RetentionShape
  <2>7. Sweeping' /\ Alone'
    BY <1>1, <2>3, <2>4, <2>5, RowsUntouched
  <2>8. Counted'
    BY <1>1, <2>3, <2>4, <2>5, StillCounted
  <2> QED BY <2>6, <2>7, <2>8 DEF RetentionInv
<1> QED BY <1>3, <1>4, <1>5, <1>6, <1>7 DEF UseStep

\* A sweep goes on or ends, and closed rows stay closed for those at their revision.
LEMMA SweepMoves ==
  ASSUME RetentionShape, Sweeping, Alone, NEW w \in Sweepers, NEW s \in SweeperRecords,
         sweeper' = [sweeper EXCEPT ![w] = s],
         \/ s.step = "idle"
         \/ /\ s.step \in Closing /\ sweeper[w].step \in Closing
            /\ s.on = sweeper[w].on /\ s.revision = sweeper[w].revision,
         \A o \in Originals : originals'[o].revision = originals[o].revision,
         \A v \in Sweepers : sweeper'[v].step \in Closing /\ Mine(v).revision = sweeper[v].revision =>
           originals'[sweeper[v].on].state = "deleting"
  PROVE  sweeper' \in [Sweepers -> SweeperRecords] /\ Sweeping' /\ Alone'
<1>1. sweeper' \in [Sweepers -> SweeperRecords] /\ sweeper'[w] = s
      /\ \A v \in Sweepers \ {w} : sweeper'[v] = sweeper[v]
  BY DEF RetentionShape
<1>2. "idle" \notin Closing
  BY DEF Closing
<1>3. ASSUME NEW v \in Sweepers, sweeper'[v].step # "idle"
      PROVE  /\ sweeper[v].step # "idle" /\ sweeper'[v].on = sweeper[v].on /\ sweeper'[v].revision = sweeper[v].revision
             /\ sweeper'[v].step \in Closing => sweeper[v].step \in Closing
  BY <1>1, <1>2, <1>3
<1>4. Sweeping'
  BY <1>3 DEF Sweeping, Mine
<1>5. Alone'
  <2> SUFFICES ASSUME NEW v \in Sweepers, sweeper'[v].step \in Closing, Mine(v)'.revision = sweeper'[v].revision
               PROVE  /\ Mine(v)'.state = "deleting"
                      /\ \A u \in Sweepers \ {v} : sweeper'[u].step \in Closing /\ sweeper'[u].on = sweeper'[v].on =>
                           sweeper'[u].revision # sweeper'[v].revision
    BY DEF Alone
  <2>1. /\ sweeper[v].step \in Closing /\ sweeper[v].on \in Originals
        /\ sweeper'[v].on = sweeper[v].on /\ sweeper'[v].revision = sweeper[v].revision
    BY <1>2, <1>3 DEF Sweeping
  <2>2. Mine(v).revision = sweeper[v].revision
    BY <2>1 DEF Mine
  <2>3. Mine(v)'.state = "deleting"
    BY <2>1, <2>2 DEF Mine
  <2>4. ASSUME NEW u \in Sweepers \ {v}, sweeper'[u].step \in Closing, sweeper'[u].on = sweeper'[v].on
        PROVE  sweeper'[u].revision # sweeper'[v].revision
    <3>1. /\ sweeper[u].step \in Closing
          /\ sweeper'[u].on = sweeper[u].on /\ sweeper'[u].revision = sweeper[u].revision
      BY <1>2, <1>3, <2>4
    <3> QED BY <2>1, <2>2, <2>4, <3>1 DEF Alone
  <2> QED BY <2>3, <2>4
<1> QED BY <1>1, <1>4, <1>5

\* A sweep that has ended is at rest.
LEMMA AtRestIsASweeper == AtRest \in SweeperRecords /\ AtRest.step = "idle"
BY RetentionAssumption DEF AtRest, SweeperRecords

\* A claim of a sweep keeps it: the revision it gives the row is new.
LEMMA ClaimKeeps ==
  ASSUME RetentionInv, NEW w \in Sweepers, ClaimOriginal(w), Unraced(w)
  PROVE  RetentionInv'
<1>1. RetentionShape /\ Sweeping /\ Alone /\ Counted
  BY DEF RetentionInv
<1>2. PICK o : o = sweeper[w].on
  OBVIOUS
<1>3. o \in Originals /\ sweeper[w] \in SweeperRecords /\ Mine(w) = originals[o]
  BY <1>1, <1>2 DEF Sweeping, RetentionShape, ClaimOriginal, Mine
<1>4. originals[o] \in OriginalRecords /\ originals \in [Originals -> OriginalRecords]
  BY <1>1, <1>3 DEF RetentionShape
<1>5. PICK next : next = originals[o].revision + 1
  OBVIOUS
<1>6. next \in 0..MaxRows /\ next > originals[o].revision /\ originals[o].revision \in Nat
  BY <1>3, <1>4, <1>5, RetentionAssumption DEF ClaimOriginal, OriginalRecords
<1>7. PICK r : r = [originals[o] EXCEPT !.state = "deleting", !.revision = next, !.leased = TRUE]
  OBVIOUS
<1>8. originals' = [originals EXCEPT ![o] = r]
  <2>1. originals' = [originals EXCEPT ![o] = [originals[o] EXCEPT !.state = "deleting", !.revision = @ + 1, !.leased = TRUE]]
    BY <1>2, <1>3 DEF ClaimOriginal
  <2>2. [originals[o] EXCEPT !.state = "deleting", !.revision = @ + 1, !.leased = TRUE] = r
    BY <1>4, <1>5, <1>7 DEF OriginalRecords
  <2> QED BY <2>1, <2>2
<1>9. r \in OriginalRecords /\ r.state = "deleting" /\ r.revision = next
  BY <1>4, <1>6, <1>7 DEF OriginalRecords, Held
<1>10. /\ originals' \in [Originals -> OriginalRecords]
       /\ originals'[o] = r /\ \A p \in Originals \ {o} : originals'[p] = originals[p]
  BY <1>1, <1>3, <1>8, <1>9, OneRow
<1>11. PICK s : s = [sweeper[w] EXCEPT !.step = "verify", !.revision = next]
  OBVIOUS
<1>12. sweeper' = [sweeper EXCEPT ![w] = s]
  BY <1>1, <1>3, <1>5, <1>11 DEF ClaimOriginal, RetentionShape
<1>13. s \in SweeperRecords /\ s.step = "verify" /\ s.on = o /\ s.revision = next
  BY <1>2, <1>3, <1>6, <1>11 DEF SweeperRecords
<1>14. sweeper' \in [Sweepers -> SweeperRecords] /\ sweeper'[w] = s
       /\ \A v \in Sweepers \ {w} : sweeper'[v] = sweeper[v]
  BY <1>1, <1>12, <1>13 DEF RetentionShape
<1>15. UNCHANGED <<reserved, reference, reading>> /\ originals[o].state \in Held
  BY <1>3 DEF ClaimOriginal, Unraced
<1>16. RetentionShape'
  BY <1>1, <1>10, <1>14, <1>15 DEF RetentionShape
<1>17. \A v \in Sweepers : sweeper[v].revision \in Nat
  BY <1>1, RetentionAssumption DEF RetentionShape, SweeperRecords
<1>18. \A p \in Originals : originals[p].revision \in Nat
  BY <1>1, RetentionAssumption DEF RetentionShape, OriginalRecords
<1>19. Sweeping'
  <2> SUFFICES ASSUME NEW v \in Sweepers, sweeper'[v].step # "idle"
               PROVE  sweeper'[v].on \in Originals /\ sweeper'[v].revision <= originals'[sweeper'[v].on].revision
    BY DEF Sweeping, Mine
  <2>1. CASE v = w
    BY <1>3, <1>6, <1>9, <1>10, <1>13, <1>14, <2>1
  <2>2. CASE v # w
    <3>1. sweeper'[v] = sweeper[v] /\ sweeper[v].on \in Originals /\ sweeper[v].revision <= originals[sweeper[v].on].revision
      BY <1>1, <1>14, <2>2 DEF Sweeping, Mine
    <3> QED BY <1>6, <1>9, <1>10, <1>17, <1>18, <3>1
  <2> QED BY <2>1, <2>2
<1>20. ASSUME NEW v \in Sweepers, v # w, sweeper[v].step \in Closing, sweeper[v].on = o PROVE sweeper[v].revision < next
  BY <1>1, <1>6, <1>17, <1>20 DEF Sweeping, Mine, Closing
<1>21. Alone'
  <2> SUFFICES ASSUME NEW v \in Sweepers, sweeper'[v].step \in Closing, originals'[sweeper'[v].on].revision = sweeper'[v].revision
               PROVE  /\ originals'[sweeper'[v].on].state = "deleting"
                      /\ \A u \in Sweepers \ {v} : sweeper'[u].step \in Closing /\ sweeper'[u].on = sweeper'[v].on =>
                           sweeper'[u].revision # sweeper'[v].revision
    BY DEF Alone, Mine
  <2>1. CASE v = w
    <3>1. originals'[sweeper'[v].on].state = "deleting"
      BY <1>9, <1>10, <1>13, <1>14, <2>1
    <3>2. \A u \in Sweepers \ {v} : sweeper'[u].step \in Closing /\ sweeper'[u].on = sweeper'[v].on =>
             sweeper'[u].revision # sweeper'[v].revision
      BY <1>6, <1>13, <1>14, <1>17, <1>20, <2>1
    <3> QED BY <3>1, <3>2
  <2>2. CASE v # w
    <3>1. sweeper'[v] = sweeper[v]
      BY <1>14, <2>2
    <3>2. sweeper[v].on \in Originals
      BY <1>1, <3>1 DEF Sweeping, Closing
    <3>3. sweeper[v].on # o
      BY <1>6, <1>9, <1>10, <1>17, <1>20, <2>2, <3>1
    <3>4. originals'[sweeper[v].on] = originals[sweeper[v].on]
      BY <1>10, <3>2, <3>3
    <3>5. /\ originals[sweeper[v].on].state = "deleting"
          /\ \A u \in Sweepers \ {v} : sweeper[u].step \in Closing /\ sweeper[u].on = sweeper[v].on =>
               sweeper[u].revision # sweeper[v].revision
      BY <1>1, <3>1, <3>4 DEF Alone, Mine
    <3>6. ASSUME NEW u \in Sweepers \ {v}, sweeper'[u].step \in Closing, sweeper'[u].on = sweeper'[v].on
          PROVE  sweeper'[u].revision # sweeper'[v].revision
      BY <1>13, <1>14, <3>1, <3>3, <3>5, <3>6
    <3> QED BY <3>1, <3>4, <3>5, <3>6
  <2> QED BY <2>1, <2>2
<1>22. Counted'
  BY <1>1, <1>9, <1>10, <1>15, StillCounted DEF Held
<1> QED BY <1>16, <1>19, <1>21, <1>22 DEF RetentionInv

\* So every step of a sweep keeps it.
LEMMA SweepKeeps ==
  ASSUME RetentionInv, NEW w \in Sweepers, SweepStep(w)
  PROVE  RetentionInv'
<1>1. RetentionShape /\ Sweeping /\ Alone /\ Counted
  BY DEF RetentionInv
<1>2. sweeper[w] \in SweeperRecords /\ sweeper \in [Sweepers -> SweeperRecords]
  BY <1>1 DEF RetentionShape
<1>3. ASSUME NEW o \in Originals, ExamineOriginal(w, o) PROVE RetentionInv'
  <2>1. PICK s : s = [step |-> "claim", on |-> o, revision |-> originals[o].revision]
    OBVIOUS
  <2>2. sweeper' = [sweeper EXCEPT ![w] = s] /\ UNCHANGED <<originals, reserved, reference, reading>>
    BY <1>3, <2>1 DEF ExamineOriginal
  <2>3. originals[o].revision \in 0..MaxRows /\ originals[o].revision <= originals[o].revision
    BY <1>1, RetentionAssumption DEF RetentionShape, OriginalRecords
  <2>4. s \in SweeperRecords /\ s.step = "claim" /\ s.on = o /\ s.revision <= originals[o].revision
    BY <2>1, <2>3 DEF SweeperRecords
  <2>5. sweeper' \in [Sweepers -> SweeperRecords] /\ sweeper'[w] = s
        /\ \A v \in Sweepers \ {w} : sweeper'[v] = sweeper[v]
    BY <1>2, <2>2, <2>4
  <2>6. RetentionShape' /\ Counted'
    BY <1>1, <2>2, <2>5, StillCounted DEF RetentionShape
  <2>7. Sweeping'
    BY <1>1, <2>2, <2>4, <2>5 DEF Sweeping, Mine
  <2>8. Alone'
    BY <1>1, <2>2, <2>4, <2>5 DEF Alone, Mine, Closing
  <2> QED BY <2>6, <2>7, <2>8 DEF RetentionInv
<1>4. ASSUME ClaimOriginal(w) PROVE RetentionInv'
  <2>1. CASE Unraced(w)
    BY <1>4, <2>1, ClaimKeeps
  <2>2. CASE ~Unraced(w)
    <3>1. sweeper' = [sweeper EXCEPT ![w] = AtRest] /\ UNCHANGED <<originals, reserved, reference, reading>>
      BY <1>4, <2>2 DEF ClaimOriginal
    <3>2. \A v \in Sweepers : sweeper'[v].step \in Closing => sweeper'[v] = sweeper[v]
      BY <1>2, <3>1, AtRestIsASweeper DEF Closing
    <3>3. sweeper' \in [Sweepers -> SweeperRecords] /\ Sweeping' /\ Alone'
      BY <1>1, <3>1, <3>2, AtRestIsASweeper, SweepMoves DEF Alone, Mine
    <3> QED BY <1>1, <3>1, <3>3, StillCounted DEF RetentionInv, RetentionShape
  <2> QED BY <2>1, <2>2
<1>5. ASSUME VerifyOriginal(w) PROVE RetentionInv'
  <2>1. PICK o : o = sweeper[w].on
    OBVIOUS
  <2>2. o \in Originals /\ Mine(w) = originals[o] /\ sweeper[w].step = "verify" /\ sweeper[w].step \in Closing
    BY <1>1, <1>5, <2>1 DEF VerifyOriginal, Sweeping, Mine, Closing
  <2>3. CASE reference[o] = "due"
    <3>1. PICK s : s = [sweeper[w] EXCEPT !.step = "remove"]
      OBVIOUS
    <3>2. sweeper' = [sweeper EXCEPT ![w] = s] /\ UNCHANGED <<originals, reserved, reference, reading>>
      BY <1>2, <1>5, <2>1, <2>3, <3>1 DEF VerifyOriginal
    <3>3. s \in SweeperRecords /\ s.step \in Closing /\ s.on = sweeper[w].on /\ s.revision = sweeper[w].revision
      BY <1>2, <3>1 DEF SweeperRecords, Closing
    <3>4. \A v \in Sweepers : sweeper'[v].step \in Closing => sweeper[v].step \in Closing
      BY <1>2, <2>2, <3>2
    <3>5. sweeper' \in [Sweepers -> SweeperRecords] /\ Sweeping' /\ Alone'
      BY <1>1, <2>2, <3>2, <3>3, <3>4, SweepMoves DEF Alone, Mine
    <3> QED BY <1>1, <3>2, <3>5, StillCounted DEF RetentionInv, RetentionShape
  <2>4. CASE reference[o] # "due" /\ originals[o].revision = sweeper[w].revision
    <3>1. PICK r : r = [originals[o] EXCEPT !.state = "active"]
      OBVIOUS
    <3>2. /\ originals' = [originals EXCEPT ![o] = r] /\ sweeper' = [sweeper EXCEPT ![w] = AtRest]
          /\ UNCHANGED <<reserved, reference, reading>>
      BY <1>1, <1>5, <2>1, <2>2, <2>4, <3>1 DEF VerifyOriginal, RetentionShape
    <3>3. r \in OriginalRecords /\ r.state = "active" /\ r.revision = originals[o].revision
      BY <1>1, <2>2, <3>1 DEF OriginalRecords, RetentionShape, Held
    <3>4. /\ originals' \in [Originals -> OriginalRecords]
          /\ originals'[o] = r /\ \A p \in Originals \ {o} : originals'[p] = originals[p]
      BY <1>1, <2>2, <3>2, <3>3, OneRow
    <3>5. originals[o].state = "deleting"
      BY <1>1, <2>2, <2>4 DEF Alone
    <3>6. ASSUME NEW v \in Sweepers, sweeper'[v].step \in Closing, Mine(v).revision = sweeper[v].revision
          PROVE  originals'[sweeper[v].on].state = "deleting"
      <4>1. v # w /\ sweeper[v].step \in Closing
        BY <1>2, <3>2, <3>6, AtRestIsASweeper DEF Closing
      <4>2. sweeper[v].on # o
        BY <1>1, <2>1, <2>2, <2>4, <3>6, <4>1 DEF Alone, Mine
      <4>3. sweeper[v].on \in Originals /\ Mine(v).state = "deleting"
        BY <1>1, <3>6, <4>1 DEF Alone, Sweeping, Closing
      <4> QED BY <3>4, <4>2, <4>3 DEF Mine
    <3>7. sweeper' \in [Sweepers -> SweeperRecords] /\ Sweeping' /\ Alone'
      BY <1>1, <3>2, <3>3, <3>4, <3>6, AtRestIsASweeper, SweepMoves
    <3>8. Counted'
      BY <1>1, <3>2, <3>3, <3>4, <3>5, StillCounted DEF Held
    <3> QED BY <1>1, <3>2, <3>4, <3>7, <3>8 DEF RetentionInv, RetentionShape
  <2>5. CASE reference[o] # "due" /\ originals[o].revision # sweeper[w].revision
    <3>1. sweeper' = [sweeper EXCEPT ![w] = AtRest] /\ UNCHANGED <<originals, reserved, reference, reading>>
      BY <1>5, <2>1, <2>2, <2>5 DEF VerifyOriginal
    <3>2. \A v \in Sweepers : sweeper'[v].step \in Closing => sweeper'[v] = sweeper[v]
      BY <1>2, <3>1, AtRestIsASweeper DEF Closing
    <3>3. sweeper' \in [Sweepers -> SweeperRecords] /\ Sweeping' /\ Alone'
      BY <1>1, <3>1, <3>2, AtRestIsASweeper, SweepMoves DEF Alone, Mine
    <3> QED BY <1>1, <3>1, <3>3, StillCounted DEF RetentionInv, RetentionShape
  <2> QED BY <2>3, <2>4, <2>5
<1>6. ASSUME RemoveOriginal(w) PROVE RetentionInv'
  <2>1. PICK o : o = sweeper[w].on
    OBVIOUS
  <2>2. o \in Originals /\ sweeper[w].step \in Closing
    BY <1>1, <1>6, <2>1 DEF RemoveOriginal, Sweeping, Closing
  <2>3. PICK b : b = IF originals[o].body = "none" THEN originals[o].body ELSE "gone"
    OBVIOUS
  <2>4. b \in {"none", "gone"}
    BY <2>3
  <2>5. PICK r : r = [originals[o] EXCEPT !.body = b]
    OBVIOUS
  <2>6. originals' = [originals EXCEPT ![o] = r]
    BY <1>1, <1>6, <2>1, <2>2, <2>3, <2>5 DEF RemoveOriginal, RetentionShape
  <2>7. r \in OriginalRecords /\ r.state = originals[o].state /\ r.revision = originals[o].revision
    BY <1>1, <2>2, <2>4, <2>5 DEF OriginalRecords, RetentionShape
  <2>8. /\ originals' \in [Originals -> OriginalRecords]
        /\ originals'[o] = r /\ \A p \in Originals \ {o} : originals'[p] = originals[p]
    BY <1>1, <2>2, <2>6, <2>7, OneRow
  <2>9. PICK s : s = [sweeper[w] EXCEPT !.step = "purge"]
    OBVIOUS
  <2>10. sweeper' = [sweeper EXCEPT ![w] = s] /\ UNCHANGED <<reserved, reference, reading>>
    BY <1>2, <1>6, <2>9 DEF RemoveOriginal
  <2>11. s \in SweeperRecords /\ s.step \in Closing /\ s.on = sweeper[w].on /\ s.revision = sweeper[w].revision
    BY <1>2, <2>9 DEF SweeperRecords, Closing
  <2>12. \A v \in Sweepers : sweeper'[v].step \in Closing => sweeper[v].step \in Closing
    BY <1>2, <2>2, <2>10
  <2>13. ASSUME NEW v \in Sweepers, sweeper'[v].step \in Closing, Mine(v).revision = sweeper[v].revision
         PROVE  originals'[sweeper[v].on].state = "deleting"
    <3>1. sweeper[v].step \in Closing /\ sweeper[v].on \in Originals /\ Mine(v).state = "deleting"
      BY <1>1, <2>12, <2>13 DEF Alone, Sweeping, Closing
    <3> QED BY <2>7, <2>8, <3>1 DEF Mine
  <2>14. sweeper' \in [Sweepers -> SweeperRecords] /\ Sweeping' /\ Alone'
    BY <1>1, <2>2, <2>7, <2>8, <2>10, <2>11, <2>13, SweepMoves
  <2>15. Counted'
    BY <1>1, <2>7, <2>8, <2>10, StillCounted
  <2> QED BY <1>1, <2>8, <2>10, <2>14, <2>15 DEF RetentionInv, RetentionShape
<1>7. ASSUME PurgeEvidence(w) PROVE RetentionInv'
  <2>1. PICK s : s = [sweeper[w] EXCEPT !.step = "finish"]
    OBVIOUS
  <2>2. sweeper' = [sweeper EXCEPT ![w] = s] /\ UNCHANGED <<originals, reserved, reference, reading>>
        /\ sweeper[w].step \in Closing
    BY <1>2, <1>7, <2>1 DEF PurgeEvidence, Closing
  <2>3. s \in SweeperRecords /\ s.step \in Closing /\ s.on = sweeper[w].on /\ s.revision = sweeper[w].revision
    BY <1>2, <2>1 DEF SweeperRecords, Closing
  <2>4. \A v \in Sweepers : sweeper'[v].step \in Closing => sweeper[v].step \in Closing
    BY <1>2, <2>2
  <2>5. sweeper' \in [Sweepers -> SweeperRecords] /\ Sweeping' /\ Alone'
    BY <1>1, <2>2, <2>3, <2>4, SweepMoves DEF Alone, Mine
  <2> QED BY <1>1, <2>2, <2>5, StillCounted DEF RetentionInv, RetentionShape
<1>8. ASSUME FinishOriginal(w) PROVE RetentionInv'
  <2>1. CASE ~Finishes(w)
    <3>1. sweeper' = [sweeper EXCEPT ![w] = AtRest] /\ UNCHANGED <<originals, reserved, reference, reading>>
      BY <1>8, <2>1 DEF FinishOriginal
    <3>2. \A v \in Sweepers : sweeper'[v].step \in Closing => sweeper'[v] = sweeper[v]
      BY <1>2, <3>1, AtRestIsASweeper DEF Closing
    <3>3. sweeper' \in [Sweepers -> SweeperRecords] /\ Sweeping' /\ Alone'
      BY <1>1, <3>1, <3>2, AtRestIsASweeper, SweepMoves DEF Alone, Mine
    <3> QED BY <1>1, <3>1, <3>3, StillCounted DEF RetentionInv, RetentionShape
  <2>2. CASE Finishes(w)
    <3>1. PICK o : o = sweeper[w].on
      OBVIOUS
    <3>2. /\ o \in Originals /\ sweeper[w].step \in Closing /\ Mine(w) = originals[o]
          /\ originals[o].state = "deleting" /\ originals[o].revision = sweeper[w].revision
      BY <1>1, <1>8, <2>2, <3>1 DEF FinishOriginal, Sweeping, Closing, Finishes, Mine
    <3>3. PICK r : r = [originals[o] EXCEPT !.state = "deleted", !.leased = FALSE]
      OBVIOUS
    <3>4. /\ originals' = [originals EXCEPT ![o] = r] /\ reserved' = reserved - 1
          /\ sweeper' = [sweeper EXCEPT ![w] = AtRest] /\ UNCHANGED <<reference, reading>>
      BY <1>1, <1>8, <2>2, <3>1, <3>2, <3>3 DEF FinishOriginal, RetentionShape
    <3>5. r \in OriginalRecords /\ r.state = "deleted" /\ r.revision = originals[o].revision
      BY <1>1, <3>2, <3>3 DEF OriginalRecords, RetentionShape
    <3>6. /\ originals' \in [Originals -> OriginalRecords]
          /\ originals'[o] = r /\ \A p \in Originals \ {o} : originals'[p] = originals[p]
      BY <1>1, <3>2, <3>4, <3>5, OneRow
    <3>7. ASSUME NEW v \in Sweepers, sweeper'[v].step \in Closing, Mine(v).revision = sweeper[v].revision
          PROVE  originals'[sweeper[v].on].state = "deleting"
      <4>1. v # w /\ sweeper[v].step \in Closing
        BY <1>2, <3>4, <3>7, AtRestIsASweeper DEF Closing
      <4>2. sweeper[v].on # o
        BY <1>1, <3>1, <3>2, <3>7, <4>1 DEF Alone, Mine
      <4>3. sweeper[v].on \in Originals /\ Mine(v).state = "deleting"
        BY <1>1, <3>7, <4>1 DEF Alone, Sweeping, Closing
      <4> QED BY <3>6, <4>2, <4>3 DEF Mine
    <3>8. sweeper' \in [Sweepers -> SweeperRecords] /\ Sweeping' /\ Alone'
      BY <1>1, <3>4, <3>5, <3>6, <3>7, AtRestIsASweeper, SweepMoves
    <3>9. o \in HeldOnes /\ HeldOnes' = HeldOnes \ {o}
      BY <3>2, <3>5, <3>6 DEF HeldOnes, Held
    <3>10. /\ IsFiniteSet(HeldOnes') /\ Cardinality(HeldOnes') = Cardinality(HeldOnes) - 1
           /\ Cardinality(HeldOnes) \in Nat /\ Cardinality(HeldOnes') \in Nat
      BY <1>1, <3>9, FS_RemoveElement, FS_CardinalityType DEF Counted
    <3>11. Counted'
      BY <1>1, <3>4, <3>10 DEF Counted, QuotaKept, HeldOnes
    <3>12. reserved' \in 0..Ceiling
      <4>1. reserved = Cardinality(HeldOnes) /\ reserved \in 0..Ceiling
        BY <1>1 DEF Counted, QuotaKept, HeldOnes, RetentionShape
      <4> QED BY <3>4, <3>10, <4>1, RetentionAssumption
    <3> QED BY <1>1, <3>4, <3>6, <3>8, <3>11, <3>12 DEF RetentionInv, RetentionShape
  <2> QED BY <2>1, <2>2
<1>9. ASSUME StopSweep(w) PROVE RetentionInv'
  <2>1. sweeper' = [sweeper EXCEPT ![w] = AtRest] /\ UNCHANGED <<originals, reserved, reference, reading>>
    BY <1>9 DEF StopSweep
  <2>2. \A v \in Sweepers : sweeper'[v].step \in Closing => sweeper'[v] = sweeper[v]
    BY <1>2, <2>1, AtRestIsASweeper DEF Closing
  <2>3. sweeper' \in [Sweepers -> SweeperRecords] /\ Sweeping' /\ Alone'
    BY <1>1, <2>1, <2>2, AtRestIsASweeper, SweepMoves DEF Alone, Mine
  <2> QED BY <1>1, <2>1, <2>3, StillCounted DEF RetentionInv, RetentionShape
<1> QED BY <1>3, <1>4, <1>5, <1>6, <1>7, <1>8, <1>9 DEF SweepStep

\* So every step keeps the invariant ...
LEMMA RetentionInvStep == RetentionInv /\ [RetentionNext]_retentionVars => RetentionInv'
<1>1. ASSUME RetentionInv, UNCHANGED retentionVars PROVE RetentionInv'
  BY <1>1 DEF retentionVars, RetentionInv, RetentionShape, Sweeping, Alone, Mine, Counted, HeldOnes, QuotaKept
<1> QED BY <1>1, UseKeeps, SweepKeeps DEF RetentionNext

\* ... and it always holds.
LEMMA RetentionInvHolds == RetentionSpec => []RetentionInv
BY RetentionInvInit, RetentionInvStep, PTL DEF RetentionSpec

\* So the types hold.
LEMMA LateOnesAre == RetentionSpec => []LateOnes
<1>1. RetentionInit => LateOnes
  BY DEF RetentionInit, LateOnes
<1>2. ASSUME RetentionInv, LateOnes, [RetentionNext]_retentionVars PROVE LateOnes'
  <2>1. ASSUME NEW w \in Sweepers, VerifyOriginal(w) PROVE LateOnes'
    <3>1. sweeper[w].on \in Originals
      BY <1>2, <2>1 DEF RetentionInv, Sweeping, VerifyOriginal
    <3>2. late' \subseteq late \cup {sweeper[w].on}
      BY <2>1 DEF VerifyOriginal
    <3> QED BY <1>2, <3>1, <3>2 DEF LateOnes
  <2>2. CASE UNCHANGED late
    BY <1>2, <2>2 DEF LateOnes
  <2>3. (\E w \in Sweepers : VerifyOriginal(w)) \/ UNCHANGED late
    BY <1>2, Zenon DEF RetentionNext, UseStep, SweepStep, retentionVars
  <2> QED BY <2>1, <2>2, <2>3
<1> QED BY <1>1, <1>2, RetentionInvHolds, PTL DEF RetentionSpec

\* What is stored is held, and whoever has removed an object at the revision the
\* row still has finds nothing stored when it gives the reservation back.
Removed ==
  \A w \in Sweepers : sweeper[w].step \in {"purge", "finish"} /\ Mine(w).revision = sweeper[w].revision
    => Mine(w).body # "stored"

\* Nothing comes to be stored, and no sweep passes the removal.
LEMMA StillPaid ==
  ASSUME RetentionInv, Removed, StoredIsPaid,
         \A o \in Originals : /\ originals'[o].body = "stored" => originals[o].body = "stored"
                              /\ originals[o].state \in Held => originals'[o].state \in Held
                              /\ originals'[o].revision = originals[o].revision,
         \A w \in Sweepers : sweeper'[w].step \in {"purge", "finish"} =>
           /\ sweeper[w].step \in {"purge", "finish"} /\ sweeper'[w].on = sweeper[w].on
           /\ sweeper'[w].revision = sweeper[w].revision
  PROVE  Removed' /\ StoredIsPaid'
<1>1. \A w \in Sweepers : sweeper[w].step \in {"purge", "finish"} => sweeper[w].on \in Originals
  BY DEF RetentionInv, Sweeping
<1>2. Removed'
  BY <1>1 DEF Removed, Mine
<1>3. StoredIsPaid'
  BY DEF StoredIsPaid
<1> QED BY <1>2, <1>3

\* The users of originals keep both ...
LEMMA UsePaid ==
  ASSUME RetentionInv, Removed, StoredIsPaid, NEW o \in Originals, UseStep(o)
  PROVE  Removed' /\ StoredIsPaid'
<1>1. originals \in [Originals -> OriginalRecords] /\ RetentionShape /\ Sweeping /\ Alone
  BY DEF RetentionInv, RetentionShape
<1>2. originals[o] \in OriginalRecords
  BY <1>1
<1>3. CASE ReserveOriginal(o)
  <2>1. /\ originals' = [originals EXCEPT ![o].state = "active", ![o].leased = TRUE] /\ UNCHANGED sweeper
        /\ originals[o].state = "none"
    BY <1>3 DEF ReserveOriginal
  <2>2. /\ originals'[o].body = originals[o].body /\ originals'[o].revision = originals[o].revision
        /\ originals'[o].state = "active" /\ \A p \in Originals \ {o} : originals'[p] = originals[p]
    BY <1>1, <1>2, <2>1 DEF OriginalRecords
  <2> QED BY <2>1, <2>2, StillPaid DEF Held
<1>4. CASE StoreOriginal(o)
  <2>1. /\ originals' = [originals EXCEPT ![o].body = "stored"] /\ UNCHANGED sweeper
        /\ originals[o].state = "active"
    BY <1>4 DEF StoreOriginal
  <2>2. /\ originals'[o].state = "active" /\ originals'[o].revision = originals[o].revision
        /\ \A p \in Originals \ {o} : originals'[p] = originals[p]
    BY <1>1, <1>2, <2>1 DEF OriginalRecords
  <2>3. StoredIsPaid'
    BY <2>2 DEF StoredIsPaid, Held
  <2>4. \A w \in Sweepers : sweeper[w].step \in {"purge", "finish"} /\ Mine(w).revision = sweeper[w].revision
          => sweeper[w].on # o /\ sweeper[w].on \in Originals
    BY <1>1, <2>1 DEF Alone, Sweeping, Mine, Closing
  <2>5. Removed'
    BY <1>1, <2>1, <2>2, <2>4 DEF Removed, Mine, Sweeping
  <2> QED BY <2>3, <2>5
<1>5. CASE AdmitReader(o)
  <2>1. /\ originals' = [originals EXCEPT ![o].revision = originals[o].revision + 1, ![o].leased = TRUE]
        /\ UNCHANGED sweeper
    BY <1>5 DEF AdmitReader
  <2>2. /\ originals'[o].state = originals[o].state /\ originals'[o].body = originals[o].body
        /\ originals'[o].revision = originals[o].revision + 1
        /\ \A p \in Originals \ {o} : originals'[p] = originals[p]
    BY <1>1, <1>2, <2>1 DEF OriginalRecords
  <2>3. StoredIsPaid'
    BY <2>2 DEF StoredIsPaid
  <2>4. originals[o].revision \in Nat /\ \A w \in Sweepers : sweeper[w].revision \in Nat
    BY <1>1, <1>2, RetentionAssumption DEF RetentionShape, OriginalRecords, SweeperRecords
  <2>5. ASSUME NEW w \in Sweepers, sweeper[w].step \in {"purge", "finish"}, originals'[sweeper[w].on].revision = sweeper[w].revision
        PROVE  originals'[sweeper[w].on].body # "stored"
    <3>1. sweeper[w].on \in Originals /\ sweeper[w].revision <= originals[sweeper[w].on].revision
      BY <1>1, <2>5 DEF Sweeping, Mine
    <3>2. sweeper[w].on # o
      BY <2>2, <2>4, <2>5, <3>1
    <3> QED BY <2>2, <2>5, <3>1, <3>2 DEF Removed, Mine
  <2>6. Removed'
    BY <2>1, <2>5 DEF Removed, Mine
  <2> QED BY <2>3, <2>6
<1>6. CASE (\E how \in {"active", "recent"} : ReferTo(o, how)) \/ EndReference(o) \/ PassDeadline(o)
  <2>1. UNCHANGED <<originals, sweeper>>
    BY <1>6 DEF ReferTo, EndReference, PassDeadline
  <2> QED BY <2>1, StillPaid
<1>7. CASE LapseLease(o)
  <2>1. originals' = [originals EXCEPT ![o].leased = FALSE] /\ UNCHANGED sweeper
    BY <1>7 DEF LapseLease
  <2>2. /\ originals'[o].body = originals[o].body /\ originals'[o].revision = originals[o].revision
        /\ originals'[o].state = originals[o].state /\ \A p \in Originals \ {o} : originals'[p] = originals[p]
    BY <1>1, <1>2, <2>1 DEF OriginalRecords
  <2> QED BY <2>1, <2>2, StillPaid
<1> QED BY <1>3, <1>4, <1>5, <1>6, <1>7 DEF UseStep

\* ... and so do the sweeps: only who has removed the object gives back what it reserved.
LEMMA SweepPaid ==
  ASSUME RetentionInv, Removed, StoredIsPaid, NEW w \in Sweepers, SweepStep(w)
  PROVE  Removed' /\ StoredIsPaid'
<1>1. /\ originals \in [Originals -> OriginalRecords] /\ sweeper \in [Sweepers -> SweeperRecords]
      /\ RetentionShape /\ Sweeping /\ Alone
  BY DEF RetentionInv, RetentionShape
<1>2. sweeper[w] \in SweeperRecords
  BY <1>1
<1>3. PICK o : o = sweeper[w].on
  OBVIOUS
<1>4. ASSUME UNCHANGED originals, NEW s, sweeper' = [sweeper EXCEPT ![w] = s], s.step \notin {"purge", "finish"}
      PROVE  Removed' /\ StoredIsPaid'
  <2>1. \A v \in Sweepers : sweeper'[v].step \in {"purge", "finish"} => sweeper'[v] = sweeper[v]
    BY <1>1, <1>4
  <2> QED BY <1>4, <2>1, StillPaid
<1>5. AtRest.step \notin {"purge", "finish"}
  BY DEF AtRest
<1>6. CASE \E p \in Originals : ExamineOriginal(w, p)
  <2>1. PICK p \in Originals : ExamineOriginal(w, p)
    BY <1>6
  <2>2. PICK s : s = [step |-> "claim", on |-> p, revision |-> originals[p].revision]
    OBVIOUS
  <2>3. UNCHANGED originals /\ sweeper' = [sweeper EXCEPT ![w] = s] /\ s.step = "claim"
    BY <2>1, <2>2 DEF ExamineOriginal
  <2> QED BY <1>4, <2>3
<1>7. CASE ClaimOriginal(w) /\ ~Unraced(w)
  BY <1>4, <1>5, <1>7 DEF ClaimOriginal
<1>8. CASE ClaimOriginal(w) /\ Unraced(w)
  <2>1. o \in Originals /\ Mine(w) = originals[o] /\ sweeper[w].step = "claim"
    BY <1>1, <1>3, <1>8 DEF Sweeping, ClaimOriginal, Mine
  <2>2. PICK s : sweeper' = [sweeper EXCEPT ![w] = s] /\ s.step = "verify"
    <3>1. PICK s : s = [sweeper[w] EXCEPT !.step = "verify", !.revision = Mine(w).revision + 1]
      OBVIOUS
    <3>2. sweeper' = [sweeper EXCEPT ![w] = s]
      BY <1>1, <1>8, <3>1 DEF ClaimOriginal
    <3>3. s.step = "verify"
      BY <1>2, <3>1 DEF SweeperRecords
    <3> QED BY <3>2, <3>3
  <2>3. originals' = [originals EXCEPT ![o] = [originals[o] EXCEPT !.state = "deleting", !.revision = originals[o].revision + 1, !.leased = TRUE]]
    BY <1>3, <1>8, <2>1 DEF ClaimOriginal
  <2>4. /\ originals'[o].state = "deleting" /\ originals'[o].body = originals[o].body
        /\ originals'[o].revision = originals[o].revision + 1
        /\ \A p \in Originals \ {o} : originals'[p] = originals[p]
    BY <1>1, <2>1, <2>3 DEF OriginalRecords
  <2>5. StoredIsPaid'
    BY <2>4 DEF StoredIsPaid, Held
  <2>6. originals[o].revision \in Nat /\ \A v \in Sweepers : sweeper[v].revision \in Nat
    BY <1>1, <2>1, RetentionAssumption DEF RetentionShape, OriginalRecords, SweeperRecords
  <2>7. ASSUME NEW v \in Sweepers, sweeper'[v].step \in {"purge", "finish"},
               originals'[sweeper'[v].on].revision = sweeper'[v].revision
        PROVE  originals'[sweeper'[v].on].body # "stored"
    <3>1. sweeper'[v] = sweeper[v]
      BY <1>1, <2>2, <2>7
    <3>2. sweeper[v].on \in Originals /\ sweeper[v].revision <= originals[sweeper[v].on].revision
      BY <1>1, <2>7, <3>1 DEF Sweeping, Mine
    <3>3. sweeper[v].on # o
      BY <2>4, <2>6, <2>7, <3>1, <3>2
    <3> QED BY <2>4, <2>7, <3>1, <3>2, <3>3 DEF Removed, Mine
  <2>8. Removed'
    BY <2>7 DEF Removed, Mine
  <2> QED BY <2>5, <2>8
<1>9. CASE VerifyOriginal(w)
  <2>1. o \in Originals
    BY <1>1, <1>3, <1>9 DEF VerifyOriginal, Sweeping
  <2>2. PICK s : sweeper' = [sweeper EXCEPT ![w] = s] /\ s.step \notin {"purge", "finish"}
    <3>1. CASE reference[o] = "due"
      <4>1. PICK s : s = [sweeper[w] EXCEPT !.step = "remove"]
        OBVIOUS
      <4>2. sweeper' = [sweeper EXCEPT ![w] = s]
        BY <1>1, <1>3, <1>9, <3>1, <4>1 DEF VerifyOriginal
      <4>3. s.step = "remove"
        BY <1>2, <4>1 DEF SweeperRecords
      <4> QED BY <4>2, <4>3
    <3>2. CASE reference[o] # "due"
      BY <1>3, <1>5, <1>9, <3>2 DEF VerifyOriginal
    <3> QED BY <3>1, <3>2
  <2>3. originals' = originals \/ originals' = [originals EXCEPT ![o].state = "active"]
    BY <1>3, <1>9 DEF VerifyOriginal
  <2>4. \A p \in Originals : /\ originals'[p].body = originals[p].body /\ originals'[p].revision = originals[p].revision
                             /\ originals[p].state \in Held => originals'[p].state \in Held
    BY <1>1, <2>1, <2>3 DEF OriginalRecords, Held
  <2>5. \A v \in Sweepers : sweeper'[v].step \in {"purge", "finish"} => sweeper'[v] = sweeper[v]
    BY <1>1, <2>2
  <2> QED BY <2>4, <2>5, StillPaid
<1>10. CASE RemoveOriginal(w)
  <2>1. o \in Originals /\ sweeper[w].step = "remove"
    BY <1>1, <1>3, <1>10 DEF RemoveOriginal, Sweeping
  <2>2. originals' = [originals EXCEPT ![o].body = IF originals[o].body = "none" THEN originals[o].body ELSE "gone"]
    BY <1>3, <1>10 DEF RemoveOriginal
  <2>3. /\ originals'[o].body # "stored" /\ originals'[o].state = originals[o].state
        /\ originals'[o].revision = originals[o].revision
        /\ \A p \in Originals \ {o} : originals'[p] = originals[p]
    BY <1>1, <2>1, <2>2 DEF OriginalRecords
  <2>4. sweeper' = [sweeper EXCEPT ![w].step = "purge"]
    BY <1>10 DEF RemoveOriginal
  <2>5. sweeper'[w].on = o /\ \A v \in Sweepers \ {w} : sweeper'[v] = sweeper[v]
    BY <1>1, <1>2, <1>3, <2>4 DEF SweeperRecords
  <2>6. StoredIsPaid'
    BY <2>3 DEF StoredIsPaid
  <2>7. ASSUME NEW v \in Sweepers, sweeper'[v].step \in {"purge", "finish"},
               originals'[sweeper'[v].on].revision = sweeper'[v].revision
        PROVE  originals'[sweeper'[v].on].body # "stored"
    <3>1. CASE sweeper'[v].on = o
      BY <2>3, <3>1
    <3>2. CASE sweeper'[v].on # o
      <4>1. v # w /\ sweeper'[v] = sweeper[v]
        BY <2>5, <3>2
      <4>2. sweeper[v].on \in Originals
        BY <1>1, <2>7, <4>1 DEF Sweeping
      <4> QED BY <2>3, <2>7, <3>2, <4>1, <4>2 DEF Removed, Mine
    <3> QED BY <3>1, <3>2
  <2>8. Removed'
    BY <2>7 DEF Removed, Mine
  <2> QED BY <2>6, <2>8
<1>11. CASE PurgeEvidence(w)
  <2>1. sweeper' = [sweeper EXCEPT ![w].step = "finish"] /\ UNCHANGED originals /\ sweeper[w].step = "purge"
    BY <1>11 DEF PurgeEvidence
  <2>2. /\ sweeper'[w].on = sweeper[w].on /\ sweeper'[w].revision = sweeper[w].revision
        /\ \A v \in Sweepers \ {w} : sweeper'[v] = sweeper[v]
    BY <1>1, <1>2, <2>1 DEF SweeperRecords
  <2> QED BY <2>1, <2>2, StillPaid
<1>12. CASE FinishOriginal(w) /\ ~Finishes(w)
  BY <1>4, <1>5, <1>12 DEF FinishOriginal
<1>13. CASE FinishOriginal(w) /\ Finishes(w)
  <2>1. /\ o \in Originals /\ Mine(w) = originals[o] /\ originals[o].body # "stored"
    BY <1>1, <1>3, <1>13 DEF FinishOriginal, Finishes, Sweeping, Mine, Removed
  <2>2. /\ originals' = [originals EXCEPT ![o].state = "deleted", ![o].leased = FALSE]
        /\ sweeper' = [sweeper EXCEPT ![w] = AtRest]
    BY <1>3, <1>13 DEF FinishOriginal
  <2>3. /\ originals'[o].body = originals[o].body /\ originals'[o].revision = originals[o].revision
        /\ \A p \in Originals \ {o} : originals'[p] = originals[p]
    BY <1>1, <2>1, <2>2 DEF OriginalRecords
  <2>4. StoredIsPaid'
    BY <2>1, <2>3 DEF StoredIsPaid
  <2>5. \A v \in Sweepers : sweeper'[v].step \in {"purge", "finish"} => sweeper'[v] = sweeper[v] /\ sweeper[v].on \in Originals
    BY <1>1, <1>5, <2>2 DEF Sweeping
  <2>6. Removed'
    BY <2>3, <2>5 DEF Removed, Mine
  <2> QED BY <2>4, <2>6
<1>14. CASE StopSweep(w)
  BY <1>4, <1>5, <1>14 DEF StopSweep
<1> QED BY <1>6, <1>7, <1>8, <1>9, <1>10, <1>11, <1>12, <1>13, <1>14 DEF SweepStep

\* The quota holds exactly what is not deleted yet, whatever failed half-way and
\* however many sweeps tried, and nothing is stored outside it (retention.py, finish).
THEOREM QuotaIsKept == RetentionSpec => [](QuotaKept /\ StoredIsPaid)
<1>1. RetentionInv => QuotaKept
  BY DEF RetentionInv, Counted
<1>2. RetentionInit => Removed /\ StoredIsPaid
  BY DEF RetentionInit, Removed, StoredIsPaid, AtRest
<1>3. ASSUME RetentionInv, Removed, StoredIsPaid, [RetentionNext]_retentionVars PROVE Removed' /\ StoredIsPaid'
  <2>1. CASE UNCHANGED retentionVars
    BY <1>3, <2>1, StillPaid DEF retentionVars
  <2> QED BY <1>3, <2>1, UsePaid, SweepPaid DEF RetentionNext
<1> QED BY <1>1, <1>2, <1>3, RetentionInvHolds, PTL DEF RetentionSpec

\* Unless the row was reopened too late: who is on the way to remove an original, or
\* has removed it, has shut it, and whoever is admitted to it finds it.
Shut(o) == originals[o].state \in {"deleting", "deleted"}
Nearing(w, o) == sweeper[w].on = o /\ sweeper[w].step \in {"verify", "remove"}

SafeRow(o) ==
  o \notin late =>
    /\ \A w \in Sweepers : Nearing(w, o) => Shut(o)
    /\ originals[o].body = "gone" => Shut(o)
    /\ o \in reading => originals[o].state = "active" /\ originals[o].leased /\ originals[o].body = "stored"

Undisturbed == \A o \in Originals : SafeRow(o)

\* A step at one original leaves the others alone.
LEMMA RowsApart ==
  ASSUME Undisturbed, NEW o \in Originals, SafeRow(o)', late \subseteq late',
         \A p \in Originals \ {o} :
            /\ originals'[p] = originals[p] /\ (p \in reading' => p \in reading)
            /\ \A w \in Sweepers : (Nearing(w, p))' => Nearing(w, p)
  PROVE  Undisturbed'
<1> SUFFICES ASSUME NEW p \in Originals PROVE SafeRow(p)'
  BY DEF Undisturbed
<1>1. CASE p = o
  BY <1>1
<1>2. CASE p # o
  BY <1>2 DEF Undisturbed, SafeRow, Shut
<1> QED BY <1>1, <1>2

\* Those who use originals put none in danger, whatever they refer to: whoever is
\* admitted finds it active ...
LEMMA UseUndisturbed ==
  ASSUME RetentionInv, Undisturbed, NEW o \in Originals, UseStep(o)
  PROVE  Undisturbed'
<1>1. originals \in [Originals -> OriginalRecords] /\ reading \subseteq Originals /\ originals[o] \in OriginalRecords
  BY DEF RetentionInv, RetentionShape
<1>2. SafeRow(o) /\ UNCHANGED <<late, sweeper>>
  BY DEF Undisturbed, UseStep, ReserveOriginal, StoreOriginal, AdmitReader, ReferTo, EndReference, PassDeadline, LapseLease
<1>3. \A p \in Originals, w \in Sweepers : (Nearing(w, p))' <=> Nearing(w, p)
  BY <1>2 DEF Nearing
<1>4. ASSUME \A p \in Originals \ {o} : originals'[p] = originals[p] /\ (p \in reading' => p \in reading),
             SafeRow(o)'
      PROVE  Undisturbed'
  BY <1>2, <1>3, <1>4, RowsApart
<1>5. CASE ReserveOriginal(o)
  <2>1. /\ originals' = [originals EXCEPT ![o].state = "active", ![o].leased = TRUE] /\ UNCHANGED reading
        /\ originals[o].state = "none"
    BY <1>5 DEF ReserveOriginal
  <2>2. /\ originals'[o].body = originals[o].body /\ \A p \in Originals \ {o} : originals'[p] = originals[p]
    BY <1>1, <2>1 DEF OriginalRecords
  <2>3. SafeRow(o)'
    BY <1>2, <1>3, <2>1, <2>2 DEF SafeRow, Shut
  <2> QED BY <1>4, <2>1, <2>2, <2>3
<1>6. CASE StoreOriginal(o)
  <2>1. /\ originals' = [originals EXCEPT ![o].body = "stored"] /\ UNCHANGED reading
    BY <1>6 DEF StoreOriginal
  <2>2. /\ originals'[o].body = "stored" /\ originals'[o].state = originals[o].state
        /\ originals'[o].leased = originals[o].leased
        /\ \A p \in Originals \ {o} : originals'[p] = originals[p]
    BY <1>1, <2>1 DEF OriginalRecords
  <2>3. SafeRow(o)'
    BY <1>2, <1>3, <2>1, <2>2 DEF SafeRow, Shut
  <2> QED BY <1>4, <2>1, <2>2, <2>3
<1>7. CASE AdmitReader(o)
  <2>1. /\ originals' = [originals EXCEPT ![o].revision = originals[o].revision + 1, ![o].leased = TRUE]
        /\ reading' = reading \cup {o} /\ originals[o].state = "active" /\ originals[o].body # "none"
    BY <1>7 DEF AdmitReader, Admits
  <2>2. /\ originals'[o].body = originals[o].body /\ originals'[o].state = originals[o].state
        /\ originals'[o].leased /\ \A p \in Originals \ {o} : originals'[p] = originals[p]
    BY <1>1, <2>1 DEF OriginalRecords
  <2>3. SafeRow(o)'
    BY <1>1, <1>2, <1>3, <2>1, <2>2 DEF SafeRow, Shut, OriginalRecords
  <2> QED BY <1>4, <2>1, <2>2, <2>3
<1>8. CASE (\E how \in {"active", "recent"} : ReferTo(o, how)) \/ EndReference(o) \/ PassDeadline(o)
  <2>1. UNCHANGED <<originals, reading>>
    BY <1>8 DEF ReferTo, EndReference, PassDeadline
  <2>2. SafeRow(o)'
    BY <1>2, <1>3, <2>1 DEF SafeRow, Shut
  <2> QED BY <1>4, <2>1, <2>2
<1>9. CASE LapseLease(o)
  <2>1. /\ originals' = [originals EXCEPT ![o].leased = FALSE] /\ reading' = reading \ {o}
    BY <1>9 DEF LapseLease
  <2>2. /\ originals'[o].body = originals[o].body /\ originals'[o].state = originals[o].state
        /\ \A p \in Originals \ {o} : originals'[p] = originals[p]
    BY <1>1, <2>1 DEF OriginalRecords
  <2>3. SafeRow(o)'
    BY <1>2, <1>3, <2>1, <2>2 DEF SafeRow, Shut
  <2> QED BY <1>4, <2>1, <2>2, <2>3
<1> QED BY <1>5, <1>6, <1>7, <1>8, <1>9 DEF UseStep

\* ... and a sweep removes only what is shut, or was reopened too late.
LEMMA SweepUndisturbed ==
  ASSUME RetentionInv, Undisturbed, NEW w \in Sweepers, SweepStep(w)
  PROVE  Undisturbed'
<1>1. /\ originals \in [Originals -> OriginalRecords] /\ sweeper \in [Sweepers -> SweeperRecords]
      /\ sweeper[w] \in SweeperRecords /\ RetentionShape /\ Sweeping /\ Alone
  BY DEF RetentionInv, RetentionShape
<1>2. PICK o : o = sweeper[w].on
  OBVIOUS
<1>3. \A v \in Sweepers \ {w} : sweeper'[v] = sweeper[v]
  BY <1>1 DEF SweepStep, ExamineOriginal, ClaimOriginal, VerifyOriginal, RemoveOriginal, PurgeEvidence, FinishOriginal, StopSweep
<1>4. late \subseteq late' /\ UNCHANGED reading
  BY DEF SweepStep, ExamineOriginal, ClaimOriginal, VerifyOriginal, RemoveOriginal, PurgeEvidence, FinishOriginal, StopSweep
<1>5. ASSUME UNCHANGED originals, sweeper'[w].step \notin {"verify", "remove"} PROVE Undisturbed'
  <2>1. \A p \in Originals, v \in Sweepers : (Nearing(v, p))' => Nearing(v, p)
    BY <1>3, <1>5 DEF Nearing
  <2> QED BY <1>4, <1>5, <2>1 DEF Undisturbed, SafeRow, Shut
<1>6. ASSUME o \in Originals, SafeRow(o)', \A p \in Originals \ {o} : originals'[p] = originals[p], sweeper'[w].on = o \/ sweeper'[w] = AtRest
      PROVE  Undisturbed'
  <2>1. \A p \in Originals \ {o}, v \in Sweepers : (Nearing(v, p))' => Nearing(v, p)
    BY <1>3, <1>6 DEF Nearing, AtRest
  <2> QED BY <1>4, <1>6, <2>1, RowsApart
<1>7. AtRest.step = "idle"
  BY DEF AtRest
<1>8. CASE \E p \in Originals : ExamineOriginal(w, p)
  <2>1. sweeper'[w].step = "claim" /\ UNCHANGED originals
    BY <1>1, <1>8 DEF ExamineOriginal
  <2> QED BY <1>5, <2>1
<1>9. CASE ClaimOriginal(w) /\ ~Unraced(w)
  <2>1. sweeper'[w] = AtRest /\ UNCHANGED originals
    BY <1>1, <1>9 DEF ClaimOriginal
  <2> QED BY <1>5, <1>7, <2>1
<1>10. CASE ClaimOriginal(w) /\ Unraced(w)
  <2>1. o \in Originals /\ Mine(w) = originals[o] /\ ~originals[o].leased
    BY <1>1, <1>2, <1>10 DEF Sweeping, ClaimOriginal, Mine, Unraced
  <2>2. originals' = [originals EXCEPT ![o] = [originals[o] EXCEPT !.state = "deleting", !.revision = originals[o].revision + 1, !.leased = TRUE]]
    BY <1>2, <1>10, <2>1 DEF ClaimOriginal
  <2>3. /\ originals'[o].state = "deleting" /\ originals'[o].body = originals[o].body
        /\ \A p \in Originals \ {o} : originals'[p] = originals[p]
    BY <1>1, <2>1, <2>2 DEF OriginalRecords
  <2>4. SafeRow(o)'
    BY <1>4, <2>1, <2>3 DEF Undisturbed, SafeRow, Shut
  <2>5. sweeper'[w].on = o
    BY <1>1, <1>2, <1>10 DEF ClaimOriginal, SweeperRecords
  <2> QED BY <1>6, <2>1, <2>3, <2>4, <2>5
<1>11. CASE VerifyOriginal(w)
  <2>1. o \in Originals /\ Mine(w) = originals[o] /\ sweeper[w].step = "verify" /\ Nearing(w, o) /\ SafeRow(o)
    BY <1>1, <1>2, <1>11 DEF Sweeping, VerifyOriginal, Mine, Nearing, Undisturbed
  <2>2. CASE reference[o] = "due"
    <3>1. UNCHANGED <<originals, late>>
      BY <1>2, <1>11, <2>2 DEF VerifyOriginal
    <3>2. sweeper'[w].on = o
      BY <1>1, <1>2, <1>11, <2>2 DEF VerifyOriginal, SweeperRecords
    <3>3. SafeRow(o)'
      BY <1>3, <1>4, <2>1, <3>1 DEF SafeRow, Nearing, Shut
    <3> QED BY <1>6, <2>1, <3>1, <3>2, <3>3
  <2>3. CASE reference[o] # "due" /\ originals[o].revision # sweeper[w].revision
    <3>1. UNCHANGED originals
      BY <1>2, <1>11, <2>1, <2>3 DEF VerifyOriginal
    <3>2. sweeper'[w] = AtRest
      BY <1>1, <1>2, <1>11, <2>3 DEF VerifyOriginal
    <3> QED BY <1>5, <1>7, <3>1, <3>2
  <2>4. CASE reference[o] # "due" /\ originals[o].revision = sweeper[w].revision
    <3>1. /\ originals' = [originals EXCEPT ![o].state = "active"]
          /\ late' = IF TooLate(w) THEN late \cup {o} ELSE late
      BY <1>2, <1>11, <2>1, <2>4 DEF VerifyOriginal
    <3>2. sweeper'[w] = AtRest
      BY <1>1, <1>2, <1>11, <2>4 DEF VerifyOriginal
    <3>3. /\ originals'[o].body = originals[o].body
          /\ \A p \in Originals \ {o} : originals'[p] = originals[p]
      BY <1>1, <2>1, <3>1 DEF OriginalRecords
    <3>4. SafeRow(o)'
      <4>1. CASE TooLate(w)
        BY <3>1, <4>1 DEF SafeRow
      <4>2. CASE ~TooLate(w)
        <5>1. originals[o].body # "gone" /\ \A v \in Sweepers \ {w} : ~Nearing(v, o)
          BY <1>2, <2>1, <4>2 DEF TooLate, Nearing
        <5>2. \A v \in Sweepers : ~(Nearing(v, o))'
          BY <1>3, <1>7, <3>2, <5>1 DEF Nearing
        <5>3. o \notin late => o \notin reading
          BY <2>1 DEF SafeRow, Shut
        <5> QED BY <1>4, <3>3, <5>1, <5>2, <5>3 DEF SafeRow
      <4> QED BY <4>1, <4>2
    <3> QED BY <1>6, <2>1, <3>2, <3>3, <3>4
  <2> QED BY <2>2, <2>3, <2>4
<1>12. CASE RemoveOriginal(w)
  <2>1. o \in Originals /\ Nearing(w, o) /\ SafeRow(o) /\ late' = late
    BY <1>1, <1>2, <1>12 DEF Sweeping, RemoveOriginal, Nearing, Undisturbed, SweepStep, VerifyOriginal
  <2>2. originals' = [originals EXCEPT ![o].body = IF originals[o].body = "none" THEN originals[o].body ELSE "gone"]
    BY <1>2, <1>12 DEF RemoveOriginal
  <2>3. originals'[o].state = originals[o].state /\ \A p \in Originals \ {o} : originals'[p] = originals[p]
    BY <1>1, <2>1, <2>2 DEF OriginalRecords
  <2>4. SafeRow(o)'
    BY <1>4, <2>1, <2>3 DEF SafeRow, Shut
  <2>5. sweeper'[w].on = o
    BY <1>1, <1>2, <1>12 DEF RemoveOriginal, SweeperRecords
  <2> QED BY <1>6, <2>1, <2>3, <2>4, <2>5
<1>13. CASE PurgeEvidence(w)
  <2>1. UNCHANGED originals /\ sweeper'[w].step = "finish"
    BY <1>1, <1>13 DEF PurgeEvidence, SweeperRecords
  <2> QED BY <1>5, <2>1
<1>14. CASE FinishOriginal(w) /\ ~Finishes(w)
  <2>1. UNCHANGED originals /\ sweeper'[w] = AtRest
    BY <1>1, <1>14 DEF FinishOriginal
  <2> QED BY <1>5, <1>7, <2>1
<1>15. CASE FinishOriginal(w) /\ Finishes(w)
  <2>1. o \in Originals /\ originals[o].state = "deleting" /\ SafeRow(o)
    BY <1>1, <1>2, <1>15 DEF Sweeping, FinishOriginal, Finishes, Mine, Undisturbed
  <2>2. originals' = [originals EXCEPT ![o].state = "deleted", ![o].leased = FALSE] /\ sweeper'[w] = AtRest
    BY <1>1, <1>2, <1>15 DEF FinishOriginal
  <2>3. /\ originals'[o].state = "deleted" /\ originals'[o].body = originals[o].body
        /\ \A p \in Originals \ {o} : originals'[p] = originals[p]
    BY <1>1, <2>1, <2>2 DEF OriginalRecords
  <2>4. SafeRow(o)'
    BY <1>4, <2>1, <2>3 DEF SafeRow, Shut
  <2> QED BY <1>6, <2>1, <2>2, <2>3, <2>4
<1>16. CASE StopSweep(w)
  <2>1. UNCHANGED originals /\ sweeper'[w] = AtRest
    BY <1>1, <1>16 DEF StopSweep
  <2> QED BY <1>5, <1>7, <2>1
<1> QED BY <1>8, <1>9, <1>10, <1>11, <1>12, <1>13, <1>14, <1>15, <1>16 DEF SweepStep

\* Whatever refers to an original and when, whoever was admitted finds it as long as
\* the lease lasts, and a row that admits readers has its original, unless a second
\* check has reopened the row too late (retention.py, lease and clean_one).
THEOREM OriginalsStay == RetentionSpec => []ReadUndisturbed
<1>1. RetentionInit => Undisturbed
  BY DEF RetentionInit, Undisturbed, SafeRow, Nearing, AtRest
<1>2. ASSUME RetentionInv, Undisturbed, [RetentionNext]_retentionVars PROVE Undisturbed'
  <2>1. CASE UNCHANGED retentionVars
    BY <1>2, <2>1 DEF retentionVars, Undisturbed, SafeRow, Nearing, Shut
  <2> QED BY <1>2, <2>1, UseUndisturbed, SweepUndisturbed DEF RetentionNext
<1>3. Undisturbed => ReadUndisturbed
  BY DEF Undisturbed, SafeRow, Shut, ReadUndisturbed
<1> QED BY <1>1, <1>2, <1>3, RetentionInvHolds, PTL DEF RetentionSpec

-----------------------------------------------------------------------------
(* Personal memory: every note is younger than the settings, and what a    *)
(* run has bound is unchanged while the settings are at the revision it    *)
(* was pinned to; an undisturbed publication has checked that.             *)

Recalled ==
  /\ answer.revision <= memorySettings.revision
  /\ answer.step \in {"bound", "publishing"} /\ answer.revision = memorySettings.revision
       => \A i \in answer.ids : Kept(i)
  /\ answer.step = "publishing" /\ answer.ids # {} /\ ~answer.stale
       => answer.revision = memorySettings.revision

NotesOlder == \A i \in NoteIds : notes[i].revision <= memorySettings.revision

MemoryInv == MemoryTypes /\ NotesOlder /\ SuggestedOnce /\ Recalled

SettingsRecords == [revision : 0..MaxSettings, enabled : BOOLEAN, auto : BOOLEAN, epoch : 0..MaxEpochs,
                    holder : Readers \cup {NoReader}]
NoteRecords == [status : {"none", "kept", "deleted"}, revision : 0..MaxSettings,
                says : Statements \cup {Unsaid}, source : Sources \cup {ByHand}]
SuggestionRecords == [is : Proposals, status : {"pending", "confirmed", "dismissed"}]
ReaderRecords == [step : {"idle", "claimed", "read", "finish", "failed"}, epoch : 0..MaxEpochs, runs : SUBSET Sources,
                  proposals : Batches]
AnswerRecords == [step : {"new", "pinned", "bound", "publishing", "published", "stopped"},
                  revision : 0..MaxSettings, ids : SUBSET NoteIds, stale : BOOLEAN]

\* Types, with the sets of records named.
MemoryShape ==
  /\ memorySettings \in SettingsRecords
  /\ notes \in [NoteIds -> NoteRecords]
  /\ suggestions \subseteq SuggestionRecords /\ vouched \subseteq suggestions
  /\ scanned \in [Sources -> 0..MaxEpochs] /\ failures \in [Sources -> 0..MaxFailures] /\ readable \subseteq Sources
  /\ reader \in [Readers -> ReaderRecords]
  /\ answer \in AnswerRecords

\* The types, with the records named.
LEMMA MemoryShapes == MemoryTypes <=> MemoryShape
BY DEF MemoryTypes, MemoryShape, SettingsRecords, NoteRecords, SuggestionRecords, ReaderRecords, AnswerRecords

\* The invariant holds at the beginning.
LEMMA MemoryInvInit == MemoryInit => MemoryInv
<1> SUFFICES ASSUME MemoryInit PROVE MemoryInv
  OBVIOUS
<1>0. 0 \in 0..MaxSettings /\ 0 \in 0..MaxEpochs /\ 0 \in 0..MaxFailures /\ 0 \in 0..MaxNotes
  BY MemoryAssumption
<1>1. memorySettings \in SettingsRecords
  BY <1>0 DEF MemoryInit, SettingsRecords
<1>2. NoNote \in NoteRecords /\ NoNote.revision = 0
  BY <1>0 DEF NoNote, NoteRecords
<1>3. Away \in ReaderRecords
  BY <1>0, FS_EmptySet, MemoryAssumption DEF Away, ReaderRecords, Batches
<1>4. answer \in AnswerRecords
  BY <1>0 DEF MemoryInit, AnswerRecords
<1>5. MemoryShape
  BY <1>0, <1>1, <1>2, <1>3, <1>4 DEF MemoryInit, MemoryShape
<1>6. NotesOlder /\ SuggestedOnce /\ Recalled
  BY <1>2 DEF MemoryInit, NotesOlder, SuggestedOnce, Recalled
<1> QED BY <1>5, <1>6, MemoryShapes DEF MemoryInv

\* What a write of the settings row does to the run.
LEMMA DisturbedRun ==
  ASSUME answer \in AnswerRecords
  PROVE  /\ Disturbed \in AnswerRecords
         /\ Disturbed.step = answer.step /\ Disturbed.revision = answer.revision /\ Disturbed.ids = answer.ids
         /\ answer.step = "publishing" => Disturbed.stale
BY DEF Disturbed, AnswerRecords

\* A step that raises the revision of the settings disturbs the run.
LEMMA RaisedRecall ==
  ASSUME MemoryShape, Recalled, answer' = Disturbed,
         memorySettings' \in SettingsRecords,
         \/ memorySettings'.revision = memorySettings.revision + 1
         \/ memorySettings'.revision = memorySettings.revision /\ UNCHANGED notes
  PROVE  Recalled'
<1>1. /\ answer'.step = answer.step /\ answer'.revision = answer.revision /\ answer'.ids = answer.ids
      /\ answer.step = "publishing" => answer'.stale
  BY DisturbedRun DEF MemoryShape
<1>2. memorySettings.revision \in Nat /\ answer.revision \in Nat
  BY MemoryAssumption DEF MemoryShape, SettingsRecords, AnswerRecords
<1>3. CASE memorySettings'.revision = memorySettings.revision + 1
  BY <1>1, <1>2, <1>3 DEF Recalled
<1>4. CASE memorySettings'.revision = memorySettings.revision /\ UNCHANGED notes
  BY <1>1, <1>2, <1>4 DEF Recalled, Kept
<1> QED BY <1>3, <1>4

\* The other way round: a step of the run, at the same settings and notes.
LEMMA OnlyTheRun ==
  ASSUME MemoryInv, answer' \in AnswerRecords,
         UNCHANGED <<memorySettings, notes, suggestions, vouched, scanned, failures, readable, reader>>,
         Recalled'
  PROVE  MemoryInv'
<1>1. MemoryShape'
  BY MemoryShapes DEF MemoryInv, MemoryShape
<1>2. NotesOlder' /\ SuggestedOnce'
  BY DEF MemoryInv, NotesOlder, SuggestedOnce
<1>3. (MemoryTypes <=> MemoryShape)'
  BY MemoryShapes, PTL
<1> QED BY <1>1, <1>2, <1>3 DEF MemoryInv

\* A step that writes the settings row, and what it has to show.
LEMMA SettingsWritten ==
  ASSUME MemoryInv, answer' = Disturbed, memorySettings' \in SettingsRecords,
         notes' \in [NoteIds -> NoteRecords], suggestions' \subseteq SuggestionRecords, vouched' \subseteq suggestions',
         scanned' \in [Sources -> 0..MaxEpochs], failures' \in [Sources -> 0..MaxFailures],
         readable' = readable, reader' \in [Readers -> ReaderRecords],
         \/ memorySettings'.revision = memorySettings.revision + 1
         \/ memorySettings'.revision = memorySettings.revision /\ UNCHANGED notes,
         NotesOlder', SuggestedOnce'
  PROVE  MemoryInv'
<1>1. MemoryShape
  BY MemoryShapes DEF MemoryInv
<1>2. answer' \in AnswerRecords
  BY <1>1, DisturbedRun DEF MemoryShape
<1>3. MemoryShape'
  BY <1>1, <1>2 DEF MemoryShape
<1>4. Recalled'
  BY <1>1, RaisedRecall DEF MemoryInv
<1>5. (MemoryTypes <=> MemoryShape)'
  BY MemoryShapes, PTL
<1> QED BY <1>3, <1>4, <1>5 DEF MemoryInv

\* The next revision of a note is no younger than the next one of the settings.
LEMMA NoteRaised ==
  ASSUME MemoryInv, NEW i \in NoteIds, NEW note \in NoteRecords, note.revision = notes[i].revision + 1,
         notes' = [notes EXCEPT ![i] = note],
         memorySettings'.revision = memorySettings.revision + 1
  PROVE  notes' \in [NoteIds -> NoteRecords] /\ NotesOlder'
<1>1. MemoryShape
  BY MemoryShapes DEF MemoryInv
<1>2. notes' \in [NoteIds -> NoteRecords]
  BY <1>1 DEF MemoryShape
<1>3. memorySettings.revision \in Nat /\ \A k \in NoteIds : notes[k].revision \in Nat
  BY <1>1, MemoryAssumption DEF MemoryShape, SettingsRecords, NoteRecords
<1>4. ASSUME NEW k \in NoteIds PROVE notes'[k].revision <= memorySettings'.revision
  BY <1>1, <1>3 DEF MemoryInv, NotesOlder, MemoryShape
<1> QED BY <1>2, <1>4 DEF NotesOlder

\* A command raises the revision by one.
LEMMA RecordedSettings ==
  ASSUME MemoryShape, Recorded.revision <= MaxSettings
  PROVE  Recorded \in SettingsRecords /\ Recorded.revision = memorySettings.revision + 1
<1>1. memorySettings \in SettingsRecords
  BY DEF MemoryShape
<1> QED BY <1>1, MemoryAssumption DEF SettingsRecords, Recorded

\* A saved note is as old as the new settings, and a run that has bound others is out of date.
LEMMA SaveKeeps ==
  ASSUME MemoryInv, NEW i \in NoteIds, NEW says \in Statements, Save(i, says)
  PROVE  MemoryInv'
<1>1. MemoryShape
  BY MemoryShapes DEF MemoryInv
<1>2. /\ memorySettings' = Recorded /\ Recorded.revision <= MaxSettings /\ answer' = Disturbed
      /\ UNCHANGED <<scanned, failures, readable, reader, suggestions, vouched>>
  BY DEF Save, SettingsCommand
<1>3. memorySettings' \in SettingsRecords /\ memorySettings'.revision = memorySettings.revision + 1
  BY <1>1, <1>2, RecordedSettings
<1>4. PICK note : note = [status |-> "kept", revision |-> notes[i].revision + 1, says |-> says, source |-> ByHand]
  OBVIOUS
<1>5. notes' = [notes EXCEPT ![i] = note]
  BY <1>1, <1>4 DEF Save, MemoryShape
<1>6. notes[i].revision + 1 \in 0..MaxSettings
  <2>1. notes[i].revision \in Nat /\ memorySettings.revision \in Nat /\ notes[i].revision <= memorySettings.revision
    BY <1>1, MemoryAssumption DEF MemoryShape, SettingsRecords, NoteRecords, MemoryInv, NotesOlder
  <2>2. memorySettings'.revision <= MaxSettings
    BY <1>2
  <2> QED BY <2>1, <2>2, <1>3, MemoryAssumption
<1>7. note \in NoteRecords /\ note.revision = notes[i].revision + 1
  BY <1>4, <1>6 DEF NoteRecords
<1>8. notes' \in [NoteIds -> NoteRecords] /\ NotesOlder'
  BY <1>3, <1>5, <1>7, NoteRaised
<1>9. SuggestedOnce'
  BY <1>2 DEF MemoryInv, SuggestedOnce
<1> QED BY <1>1, <1>2, <1>3, <1>8, <1>9, SettingsWritten DEF MemoryShape

\* So it is with a deleted one, ...
LEMMA RemoveKeeps ==
  ASSUME MemoryInv, NEW i \in NoteIds, Remove(i)
  PROVE  MemoryInv'
<1>1. MemoryShape
  BY MemoryShapes DEF MemoryInv
<1>2. /\ memorySettings' = Recorded /\ Recorded.revision <= MaxSettings /\ answer' = Disturbed
      /\ UNCHANGED <<scanned, failures, readable, reader, suggestions, vouched>>
  BY DEF Remove, SettingsCommand
<1>3. memorySettings' \in SettingsRecords /\ memorySettings'.revision = memorySettings.revision + 1
  BY <1>1, <1>2, RecordedSettings
<1>4. PICK note : note = [NoNote EXCEPT !.status = "deleted", !.revision = notes[i].revision + 1]
  OBVIOUS
<1>5. notes' = [notes EXCEPT ![i] = note]
  BY <1>4 DEF Remove
<1>6. notes[i].revision + 1 \in 0..MaxSettings
  <2>1. notes[i].revision \in Nat /\ memorySettings.revision \in Nat /\ notes[i].revision <= memorySettings.revision
    BY <1>1, MemoryAssumption DEF MemoryShape, SettingsRecords, NoteRecords, MemoryInv, NotesOlder
  <2>2. memorySettings'.revision <= MaxSettings
    BY <1>2
  <2> QED BY <2>1, <2>2, <1>3, MemoryAssumption
<1>7. note \in NoteRecords /\ note.revision = notes[i].revision + 1
  BY <1>4, <1>6 DEF NoNote, NoteRecords
<1>8. notes' \in [NoteIds -> NoteRecords] /\ NotesOlder'
  BY <1>3, <1>5, <1>7, NoteRaised
<1>9. SuggestedOnce'
  BY <1>2 DEF MemoryInv, SuggestedOnce
<1> QED BY <1>1, <1>2, <1>3, <1>8, <1>9, SettingsWritten DEF MemoryShape

\* ... with a switch, ...
LEMMA ConfigureKeeps ==
  ASSUME MemoryInv, NEW on \in BOOLEAN, NEW auto \in BOOLEAN, Configure(on, auto)
  PROVE  MemoryInv'
<1>1. MemoryShape
  BY MemoryShapes DEF MemoryInv
<1> DEFINE changed == memorySettings.enabled # on \/ memorySettings.auto # auto
<1>2. PICK epoch : epoch = IF changed THEN memorySettings.epoch + 1 ELSE memorySettings.epoch
  OBVIOUS
<1>3. PICK holder : holder = IF changed THEN NoReader ELSE memorySettings.holder
  OBVIOUS
<1>a. memorySettings \in SettingsRecords
  BY <1>1 DEF MemoryShape
<1>b. memorySettings.epoch \in 0..MaxEpochs /\ memorySettings.holder \in Readers \cup {NoReader}
      /\ memorySettings.revision \in 0..MaxSettings
  BY <1>a DEF SettingsRecords
<1>c. changed => memorySettings.epoch < MaxEpochs
  BY DEF Configure
<1>d. holder \in Readers \cup {NoReader}
  BY <1>3, <1>b
<1>e. epoch \in 0..MaxEpochs
  BY <1>2, <1>b, <1>c, MemoryAssumption
<1>4. PICK s : s = [Recorded EXCEPT !.enabled = on, !.auto = auto, !.epoch = epoch, !.holder = holder]
  OBVIOUS
<1>g. Recorded.epoch = memorySettings.epoch /\ Recorded.holder = memorySettings.holder
  BY <1>a DEF Recorded, SettingsRecords
<1>h. [Recorded EXCEPT !.enabled = on, !.auto = auto,
                 !.epoch = IF changed THEN @ + 1 ELSE @, !.holder = IF changed THEN NoReader ELSE @] = s
  BY <1>2, <1>3, <1>4, <1>g DEF Recorded
<1>5. memorySettings' = s /\ s.revision <= MaxSettings /\ answer' = Disturbed
  BY <1>h DEF Configure, SettingsCommand
<1>6. UNCHANGED <<scanned, failures, readable, reader, suggestions, vouched, notes>>
  BY DEF Configure, SettingsCommand
<1>f. s.revision = Recorded.revision
  BY <1>4 DEF Recorded
<1>7. Recorded \in SettingsRecords /\ s.revision = memorySettings.revision + 1
  BY <1>1, <1>5, <1>f, RecordedSettings
<1> HIDE DEF changed
<1>8. s \in SettingsRecords
  BY <1>4, <1>7, <1>d, <1>e DEF SettingsRecords
<1>9. SuggestedOnce'
  BY <1>6 DEF MemoryInv, SuggestedOnce
<1>10. NotesOlder'
  <2>1. \A k \in NoteIds : notes[k].revision \in Nat
    BY <1>1, MemoryAssumption DEF MemoryShape, NoteRecords
  <2> QED BY <2>1, <1>5, <1>6, <1>7, <1>b, MemoryAssumption DEF MemoryInv, NotesOlder
<1> QED BY <1>1, <1>5, <1>6, <1>7, <1>8, <1>9, <1>10, SettingsWritten DEF MemoryShape

\* A suggestion gets another status: what was suggested stays.
LEMMA SuggestionSettled ==
  ASSUME MemoryInv, NEW c \in suggestions, NEW s \in {"confirmed", "dismissed"},
         suggestions' = (suggestions \ {c}) \cup {[c EXCEPT !.status = s]}, vouched' = vouched \ {c}
  PROVE  /\ suggestions' \subseteq SuggestionRecords /\ SuggestedOnce' /\ Suggested' = Suggested
         /\ vouched' \subseteq suggestions'
<1>1. MemoryShape
  BY MemoryShapes DEF MemoryInv
<1>2. c \in SuggestionRecords /\ suggestions \subseteq SuggestionRecords
  BY <1>1 DEF MemoryShape
<1>3. PICK d : d = [c EXCEPT !.status = s]
  OBVIOUS
<1>4. d \in SuggestionRecords /\ d.is = c.is
  BY <1>2, <1>3 DEF SuggestionRecords
<1>5. suggestions' = (suggestions \ {c}) \cup {d}
  BY <1>3
<1>6. suggestions' \subseteq SuggestionRecords
  BY <1>2, <1>4, <1>5
<1>7. SuggestedOnce'
  BY <1>4, <1>5 DEF MemoryInv, SuggestedOnce
<1>8. Suggested' = Suggested
  <2>1. \A p : p \in Suggested' => p \in Suggested
    BY <1>4, <1>5 DEF Suggested
  <2>2. \A p : p \in Suggested => p \in Suggested'
    BY <1>4, <1>5 DEF Suggested
  <2> QED BY <2>1, <2>2
<1>9. vouched' \subseteq suggestions'
  BY <1>1, <1>5 DEF MemoryShape
<1> QED BY <1>6, <1>7, <1>8, <1>9

\* ... with a suggestion that is confirmed ...
LEMMA ConfirmKeeps ==
  ASSUME MemoryInv, NEW c \in suggestions, NEW i \in NoteIds, NEW says \in Statements, Confirm(c, i, says)
  PROVE  MemoryInv'
<1>1. MemoryShape
  BY MemoryShapes DEF MemoryInv
<1>2. /\ memorySettings' = Recorded /\ Recorded.revision <= MaxSettings /\ answer' = Disturbed
      /\ UNCHANGED <<scanned, failures, readable, reader>>
  BY DEF Confirm, SettingsCommand
<1>3. memorySettings' \in SettingsRecords /\ memorySettings'.revision = memorySettings.revision + 1
  BY <1>1, <1>2, RecordedSettings
<1>4. PICK note : note = [status |-> "kept", revision |-> notes[i].revision + 1, says |-> says, source |-> c.is.source]
  OBVIOUS
<1>5. notes' = [notes EXCEPT ![i] = note]
  BY <1>1, <1>4 DEF Confirm, MemoryShape
<1>6. notes[i].revision + 1 \in 0..MaxSettings
  <2>1. notes[i].revision \in Nat /\ memorySettings.revision \in Nat /\ notes[i].revision <= memorySettings.revision
    BY <1>1, MemoryAssumption DEF MemoryShape, SettingsRecords, NoteRecords, MemoryInv, NotesOlder
  <2>2. memorySettings'.revision <= MaxSettings
    BY <1>2
  <2> QED BY <2>1, <2>2, <1>3, MemoryAssumption
<1>a. c.is.source \in Sources
  BY <1>1 DEF MemoryShape, SuggestionRecords, Proposals
<1>7. note \in NoteRecords /\ note.revision = notes[i].revision + 1
  BY <1>4, <1>6, <1>a DEF NoteRecords
<1>8. notes' \in [NoteIds -> NoteRecords] /\ NotesOlder'
  BY <1>3, <1>5, <1>7, NoteRaised
<1>9. suggestions' \subseteq SuggestionRecords /\ SuggestedOnce' /\ vouched' \subseteq suggestions'
  BY SuggestionSettled DEF Confirm
<1> QED BY <1>1, <1>2, <1>3, <1>8, <1>9, SettingsWritten DEF MemoryShape

\* ... or refused.
LEMMA DismissKeeps ==
  ASSUME MemoryInv, NEW c \in suggestions, Dismiss(c)
  PROVE  MemoryInv'
<1>1. MemoryShape
  BY MemoryShapes DEF MemoryInv
<1>2. /\ memorySettings' = memorySettings /\ answer' = Disturbed
      /\ UNCHANGED <<scanned, failures, readable, reader, notes>>
  BY DEF Dismiss, SettingsCommand
<1>3. suggestions' \subseteq SuggestionRecords /\ SuggestedOnce' /\ vouched' \subseteq suggestions'
  BY SuggestionSettled DEF Dismiss
<1>4. NotesOlder'
  BY <1>2 DEF MemoryInv, NotesOlder
<1> QED BY <1>1, <1>2, <1>3, <1>4, SettingsWritten DEF MemoryShape

\* A step that changes a reader, a source or the lease, and nothing a run looks at.
LEMMA RunUntouched ==
  ASSUME MemoryInv, UNCHANGED <<notes, suggestions, scanned, failures, answer>>, vouched' \subseteq suggestions,
         memorySettings' \in SettingsRecords, memorySettings'.revision = memorySettings.revision,
         readable' \subseteq Sources, reader' \in [Readers -> ReaderRecords]
  PROVE  MemoryInv'
<1>1. MemoryShape
  BY MemoryShapes DEF MemoryInv
<1>2. MemoryShape'
  BY <1>1 DEF MemoryShape
<1>3. NotesOlder' /\ SuggestedOnce'
  BY DEF MemoryInv, NotesOlder, SuggestedOnce
<1>4. Recalled'
  BY DEF MemoryInv, Recalled, Kept
<1>5. (MemoryTypes <=> MemoryShape)'
  BY MemoryShapes, PTL
<1> QED BY <1>2, <1>3, <1>4, <1>5 DEF MemoryInv

\* A step that changes one reader only keeps the invariant.
LEMMA ReaderMoves ==
  ASSUME MemoryInv, NEW w \in Readers, NEW r \in ReaderRecords,
         reader' = [reader EXCEPT ![w] = r],
         UNCHANGED <<memorySettings, notes, suggestions, vouched, scanned, failures, readable, answer>>
  PROVE  MemoryInv'
<1>1. MemoryShape
  BY MemoryShapes DEF MemoryInv
<1>2. reader' \in [Readers -> ReaderRecords]
  BY <1>1 DEF MemoryShape
<1> QED BY <1>1, <1>2, RunUntouched DEF MemoryShape

\* The lease of a scan does not change the revision.
LEMMA HolderMoves ==
  ASSUME MemoryShape, NEW h \in Readers \cup {NoReader}
  PROVE  /\ [memorySettings EXCEPT !.holder = h] \in SettingsRecords
         /\ [memorySettings EXCEPT !.holder = h].revision = memorySettings.revision
BY DEF MemoryShape, SettingsRecords

\* A reader that has ended is away.
LEMMA AwayIsAReader == Away \in ReaderRecords
BY MemoryAssumption, FS_EmptySet DEF Away, ReaderRecords, Batches

\* Readers that look, look again, fail or give up keep the invariant.
LEMMA ReadersKeep ==
  ASSUME MemoryInv, NEW w \in Readers, ReadMessages(w) \/ RecheckSources(w) \/ FailScan(w) \/ AbandonScan(w)
  PROVE  MemoryInv'
<1>1. MemoryShape
  BY MemoryShapes DEF MemoryInv
<1>2. reader[w] \in ReaderRecords /\ reader \in [Readers -> ReaderRecords]
  BY <1>1 DEF MemoryShape
<1>3. CASE ReadMessages(w)
  <2>1. PICK made \in Batches : reader' = [reader EXCEPT ![w].step = "read", ![w].proposals = made]
    BY <1>3 DEF ReadMessages
  <2>2. PICK r : r = [reader[w] EXCEPT !.step = "read", !.proposals = made]
    OBVIOUS
  <2>3. r \in ReaderRecords
    BY <1>2, <2>2 DEF ReaderRecords
  <2>4. reader' = [reader EXCEPT ![w] = r]
    BY <1>2, <2>1, <2>2
  <2> QED BY <1>3, <2>3, <2>4, ReaderMoves DEF ReadMessages
<1>6. CASE RecheckSources(w)
  <2>2. PICK r : r = [reader[w] EXCEPT !.step = "finish"]
    OBVIOUS
  <2>3. r \in ReaderRecords
    BY <1>2, <2>2 DEF ReaderRecords
  <2>4. reader' = [reader EXCEPT ![w] = r]
    BY <1>2, <1>6, <2>2 DEF RecheckSources
  <2> QED BY <1>6, <2>3, <2>4, ReaderMoves DEF RecheckSources
<1>4. CASE FailScan(w)
  <2>2. PICK r : r = [reader[w] EXCEPT !.step = "failed", !.proposals = {}]
    OBVIOUS
  <2>5. {} \in Batches
    BY AwayIsAReader DEF Away, ReaderRecords
  <2>3. r \in ReaderRecords
    BY <1>2, <2>2, <2>5 DEF ReaderRecords
  <2>4. reader' = [reader EXCEPT ![w] = r]
    BY <1>2, <1>4, <2>2 DEF FailScan
  <2> QED BY <1>4, <2>3, <2>4, ReaderMoves DEF FailScan
<1>5. CASE AbandonScan(w)
  BY <1>5, AwayIsAReader, ReaderMoves DEF AbandonScan
<1> QED BY <1>3, <1>4, <1>5, <1>6

\* A claim of a scan keeps it.
LEMMA ClaimScanKeeps ==
  ASSUME MemoryInv, NEW w \in Readers, ClaimScan(w)
  PROVE  MemoryInv'
<1>1. MemoryShape
  BY MemoryShapes DEF MemoryInv
<1>2. PICK runs \in SUBSET Open \ {{}} :
        reader' = [reader EXCEPT ![w] = [Away EXCEPT !.step = "claimed", !.epoch = memorySettings.epoch, !.runs = runs]]
  BY DEF ClaimScan
<1>3. PICK r : r = [Away EXCEPT !.step = "claimed", !.epoch = memorySettings.epoch, !.runs = runs]
  OBVIOUS
<1>4. memorySettings.epoch \in 0..MaxEpochs /\ runs \in SUBSET Sources
  BY <1>1 DEF MemoryShape, SettingsRecords, Open
<1>5. r \in ReaderRecords
  BY <1>3, <1>4, AwayIsAReader DEF ReaderRecords
<1>6. reader' \in [Readers -> ReaderRecords]
  BY <1>1, <1>2, <1>3, <1>5 DEF MemoryShape
<1>7. memorySettings' = [memorySettings EXCEPT !.holder = w] /\ answer' = Disturbed
      /\ UNCHANGED <<notes, suggestions, vouched, scanned, failures, readable>>
  BY DEF ClaimScan
<1>8. memorySettings' \in SettingsRecords /\ memorySettings'.revision = memorySettings.revision
  BY <1>1, <1>7, HolderMoves
<1>9. NotesOlder' /\ SuggestedOnce'
  BY <1>7, <1>8 DEF MemoryInv, NotesOlder, SuggestedOnce
<1> QED BY <1>1, <1>6, <1>7, <1>8, <1>9, SettingsWritten DEF MemoryShape

\* The end of a scan keeps it: what is suggested has not been suggested before,
\* and no two of its suggestions say the same.
LEMMA FinishScanKeeps ==
  ASSUME MemoryInv, NEW w \in Readers, FinishScan(w)
  PROVE  MemoryInv'
<1>1. MemoryShape
  BY MemoryShapes DEF MemoryInv
<1>2. PICK local : local = reader[w]
  OBVIOUS
<1>3. local \in ReaderRecords
  BY <1>1, <1>2 DEF MemoryShape
<1>5. local.proposals \in Batches /\ local.epoch \in 0..MaxEpochs
  BY <1>3 DEF ReaderRecords
<1>4. PICK added \in SUBSET {p \in local.proposals : Wanted(p)} :
        suggestions' = suggestions \cup {[is |-> p, status |-> "pending"] : p \in added}
  BY <1>2 DEF FinishScan
<1>6. /\ memorySettings' = [memorySettings EXCEPT !.holder = NoReader] /\ answer' = Disturbed
      /\ reader' = [reader EXCEPT ![w] = Away] /\ UNCHANGED <<notes, vouched, readable>>
  BY DEF FinishScan
<1>7. failures' \in [Sources -> 0..MaxFailures]
  <2>1. ASSUME NEW n \in 0..MaxFailures PROVE OneMore(n) \in 0..MaxFailures /\ 0 \in 0..MaxFailures
    BY MemoryAssumption DEF OneMore
  <2> DEFINE more(s) == IF s \notin local.runs THEN failures[s]
                        ELSE IF local.step = "failed" THEN OneMore(failures[s]) ELSE 0
  <2>2. failures' = [s \in Sources |-> more(s)]
    BY <1>2 DEF FinishScan
  <2>3. ASSUME NEW s \in Sources PROVE more(s) \in 0..MaxFailures
    <3>1. failures[s] \in 0..MaxFailures
      BY <1>1 DEF MemoryShape
    <3>2. OneMore(failures[s]) \in 0..MaxFailures /\ 0 \in 0..MaxFailures
      BY <2>1, <3>1
    <3> HIDE <2>1
    <3> QED BY <3>1, <3>2
  <2> HIDE DEF more
  <2> QED BY <2>2, <2>3
<1>8. scanned' \in [Sources -> 0..MaxEpochs]
  <2> DEFINE read == {s \in local.runs : ~(local.step = "failed") \/ failures[s] + 1 >= MaxFailures}
  <2>1. scanned' = [s \in Sources |-> IF s \in read THEN local.epoch ELSE scanned[s]]
    BY <1>2 DEF FinishScan
  <2>2. scanned \in [Sources -> 0..MaxEpochs]
    BY <1>1 DEF MemoryShape
  <2> HIDE DEF read
  <2> QED BY <2>1, <2>2, <1>5
<1>9. memorySettings' \in SettingsRecords /\ memorySettings'.revision = memorySettings.revision
  BY <1>1, <1>6, HolderMoves
<1>10. suggestions' \subseteq SuggestionRecords /\ SuggestedOnce' /\ vouched' \subseteq suggestions'
  <2>1. PICK new : new = {[is |-> p, status |-> "pending"] : p \in added}
    OBVIOUS
  <2>2. suggestions' = suggestions \cup new
    BY <1>4, <2>1
  <2>3. \A p \in added : p \in Proposals /\ \A c \in suggestions : c.is.says # p.says
    BY <1>5 DEF Wanted, Known, Batches
  <2>4. \A p, q \in added : p.says = q.says => p = q
    BY <1>5 DEF Batches
  <2>5. \A c \in new : c \in SuggestionRecords /\ c.is \in added /\ c = [is |-> c.is, status |-> "pending"]
    BY <2>1, <2>3 DEF SuggestionRecords
  <2>6. \A c, d \in new : c.is.says = d.is.says => c = d
    <3> SUFFICES ASSUME NEW c \in new, NEW d \in new, c.is.says = d.is.says PROVE c = d
      OBVIOUS
    <3>1. c.is = d.is
      BY <2>4, <2>5
    <3> QED BY <2>5, <3>1
  <2>7. \A c \in suggestions, d \in new : c.is.says # d.is.says
    BY <2>3, <2>5
  <2>8. SuggestedOnce'
    BY <2>2, <2>6, <2>7 DEF MemoryInv, SuggestedOnce
  <2> QED BY <1>1, <1>6, <2>2, <2>5, <2>8 DEF MemoryShape
<1>11. NotesOlder'
  BY <1>6, <1>9 DEF MemoryInv, NotesOlder
<1>12. reader' \in [Readers -> ReaderRecords]
  BY <1>1, <1>6, AwayIsAReader DEF MemoryShape
<1>13. answer' = Disturbed /\ readable' = readable /\ UNCHANGED notes /\ notes' \in [NoteIds -> NoteRecords]
  BY <1>1, <1>6 DEF MemoryShape
<1> HIDE <1>6
<1> QED BY <1>7, <1>8, <1>9, <1>10, <1>11, <1>12, <1>13, SettingsWritten

\* A run keeps it: what it binds is what is kept, and it publishes under the same revision.
LEMMA RunKeeps == MemoryInv /\ RunStep => MemoryInv'
<1> SUFFICES ASSUME MemoryInv, RunStep PROVE MemoryInv'
  OBVIOUS
<1>1. MemoryShape
  BY MemoryShapes DEF MemoryInv
<1>2. answer \in AnswerRecords /\ memorySettings \in SettingsRecords
  BY <1>1 DEF MemoryShape
<1>3. memorySettings.revision \in 0..MaxSettings /\ memorySettings.enabled \in BOOLEAN
  BY <1>2 DEF SettingsRecords
<1>4. memorySettings.revision <= memorySettings.revision
  BY <1>3, MemoryAssumption
<1>5. CASE PinSettings
  <2>1. PICK a : a = [answer EXCEPT !.step = "pinned", !.revision = memorySettings.revision,
                              !.stale = ~memorySettings.enabled]
    OBVIOUS
  <2>2. answer' = a
    BY <1>5, <2>1 DEF PinSettings
  <2>3. a \in AnswerRecords
    <3>1. PICK off : off = ~memorySettings.enabled
      OBVIOUS
    <3>2. off \in BOOLEAN
      BY <1>3, <3>1
    <3>3. a = [answer EXCEPT !.step = "pinned", !.revision = memorySettings.revision, !.stale = off]
      BY <2>1, <3>1
    <3> QED BY <1>2, <1>3, <3>2, <3>3 DEF AnswerRecords
  <2>4. a.step = "pinned" /\ a.revision = memorySettings.revision
    BY <1>2, <2>1 DEF AnswerRecords
  <2>5. Recalled'
    BY <1>4, <1>5, <2>2, <2>4 DEF PinSettings, Recalled
  <2> QED BY <1>5, <2>2, <2>3, <2>5, OnlyTheRun DEF PinSettings
<1>6. CASE BindNotes
  <2>1. PICK ids \in SUBSET {i \in NoteIds : Kept(i) /\ SourceActive(i)} :
          answer' = [answer EXCEPT !.step = "bound", !.ids = ids, !.stale = FALSE]
    BY <1>6 DEF BindNotes
  <2>2. ids \in SUBSET NoteIds /\ \A i \in ids : Kept(i)
    BY <2>1
  <2>3. answer' \in AnswerRecords
    BY <1>2, <2>1, <2>2 DEF AnswerRecords
  <2>4. answer'.step = "bound" /\ answer'.revision = answer.revision /\ answer'.ids = ids
    BY <1>2, <2>1 DEF AnswerRecords
  <2>5. UNCHANGED <<memorySettings, notes, suggestions, vouched, scanned, failures, readable, reader>>
    BY <1>6 DEF BindNotes
  <2>6. Recalled'
    BY <2>2, <2>4, <2>5 DEF MemoryInv, Recalled, Kept
  <2> QED BY <2>3, <2>5, <2>6, OnlyTheRun
<1>7. CASE StopRun
  <2>1. answer' = [answer EXCEPT !.step = "stopped"]
        /\ UNCHANGED <<memorySettings, notes, suggestions, vouched, scanned, failures, readable, reader>>
    BY <1>7 DEF StopRun
  <2>2. answer' \in AnswerRecords /\ answer'.step = "stopped" /\ answer'.revision = answer.revision
    BY <1>2, <2>1 DEF AnswerRecords
  <2>3. Recalled'
    BY <2>1, <2>2 DEF MemoryInv, Recalled
  <2> QED BY <2>1, <2>2, <2>3, OnlyTheRun
<1>8. CASE BeginPublication
  <2>1. answer' = [answer EXCEPT !.step = "publishing", !.stale = FALSE] /\ answer.step = "bound" /\ Guarded
        /\ UNCHANGED <<memorySettings, notes, suggestions, vouched, scanned, failures, readable, reader>>
    BY <1>8 DEF BeginPublication
  <2>2. answer' \in AnswerRecords /\ answer'.step = "publishing" /\ answer'.revision = answer.revision
        /\ answer'.ids = answer.ids
    BY <1>2, <2>1 DEF AnswerRecords
  <2>3. Recalled'
    BY <2>1, <2>2 DEF MemoryInv, Recalled, Kept, Guarded
  <2> QED BY <2>1, <2>2, <2>3, OnlyTheRun
<1>9. CASE EndPublication
  <2>1. answer' = [answer EXCEPT !.step = "published"]
        /\ UNCHANGED <<memorySettings, notes, suggestions, vouched, scanned, failures, readable, reader>>
    BY <1>9 DEF EndPublication
  <2>2. answer' \in AnswerRecords /\ answer'.step = "published" /\ answer'.revision = answer.revision
    BY <1>2, <2>1 DEF AnswerRecords
  <2>3. Recalled'
    BY <2>1, <2>2 DEF MemoryInv, Recalled
  <2> QED BY <2>1, <2>2, <2>3, OnlyTheRun
<1>10. CASE AbortPublication
  <2>1. answer' = [answer EXCEPT !.step = "bound", !.stale = FALSE] /\ answer.step = "publishing"
        /\ UNCHANGED <<memorySettings, notes, suggestions, vouched, scanned, failures, readable, reader>>
    BY <1>10 DEF AbortPublication
  <2>2. answer' \in AnswerRecords /\ answer'.step = "bound" /\ answer'.revision = answer.revision
        /\ answer'.ids = answer.ids
    BY <1>2, <2>1 DEF AnswerRecords
  <2>3. Recalled'
    BY <2>1, <2>2 DEF MemoryInv, Recalled, Kept
  <2> QED BY <2>1, <2>2, <2>3, OnlyTheRun
<1> QED BY <1>5, <1>6, <1>7, <1>8, <1>9, <1>10 DEF RunStep

\* So every step keeps the invariant ...
LEMMA MemoryInvStep == MemoryInv /\ [MemoryNext]_memoryVars => MemoryInv'
<1> SUFFICES ASSUME MemoryInv, [MemoryNext]_memoryVars PROVE MemoryInv'
  OBVIOUS
<1>1. MemoryShape
  BY MemoryShapes DEF MemoryInv
<1>2. CASE OwnerStep
  <2>1. ASSUME NEW s \in Sources, LoseSource(s) PROVE MemoryInv'
    BY <1>1, <2>1, RunUntouched DEF LoseSource, MemoryShape
  <2>2. ASSUME NEW c \in suggestions, VouchFor(c) PROVE MemoryInv'
    <3>1. vouched' \subseteq suggestions
      BY <1>1, <2>2 DEF VouchFor, MemoryShape
    <3> QED BY <1>1, <2>2, <3>1, RunUntouched DEF VouchFor, MemoryShape
  <2> QED BY <1>2, <2>1, <2>2, SaveKeeps, RemoveKeeps, ConfigureKeeps, ConfirmKeeps, DismissKeeps DEF OwnerStep
<1>3. ASSUME NEW w \in Readers, ReaderStep(w) PROVE MemoryInv'
  BY <1>3, ClaimScanKeeps, ReadersKeep, FinishScanKeeps DEF ReaderStep
<1>4. CASE LapseScan
  <2>1. memorySettings' \in SettingsRecords /\ memorySettings'.revision = memorySettings.revision
    BY <1>1, <1>4, HolderMoves DEF LapseScan
  <2> QED BY <1>1, <1>4, <2>1, RunUntouched DEF LapseScan, MemoryShape
<1>5. CASE RunStep
  BY <1>5, RunKeeps
<1>6. CASE UNCHANGED memoryVars
  BY <1>1, <1>6, RunUntouched DEF memoryVars, MemoryShape
<1> QED BY <1>2, <1>3, <1>4, <1>5, <1>6 DEF MemoryNext

\* ... and it always holds.
LEMMA MemoryInvHolds == MemorySpec => []MemoryInv
BY MemoryInvInit, MemoryInvStep, PTL DEF MemorySpec

\* What the owner has refused, confirmed or not yet looked at is not suggested
\* again, whatever workers overlap and however often extraction is switched
\* (memory_extraction.py, finish).
THEOREM NothingSuggestedTwice == MemorySpec => []SuggestedOnce
<1>1. MemoryInv => SuggestedOnce
  BY DEF MemoryInv
<1> QED BY <1>1, MemoryInvHolds, PTL

\* What an answer recalled is unchanged when it is published.
LEMMA RecallStep ==
  ASSUME MemoryInv, [MemoryNext]_memoryVars,
         answer.step # "published", answer'.step = "published", answer.ids # {}
  PROVE  answer.revision = memorySettings.revision /\ \A i \in answer.ids : Kept(i)
<1>1. MemoryShape
  BY MemoryShapes DEF MemoryInv
<1>2. answer \in AnswerRecords
  BY <1>1 DEF MemoryShape
<1>3. Disturbed.step = answer.step
  BY <1>2, DisturbedRun
<1>4. CASE EndPublication
  BY <1>4 DEF EndPublication, Locks, MemoryInv, Recalled
<1>5. CASE RunStep /\ ~EndPublication
  BY <1>2, <1>5 DEF RunStep, PinSettings, BindNotes, StopRun, BeginPublication, AbortPublication, AnswerRecords
<1>6. CASE ~RunStep
  <2>1. answer' = Disturbed \/ answer' = answer
    BY <1>6 DEF MemoryNext, OwnerStep, ReaderStep, LapseScan, SettingsCommand, Save, Remove, Configure, VouchFor,
                Confirm, Dismiss, LoseSource, ClaimScan, ReadMessages, RecheckSources, FailScan,
                AbandonScan, FinishScan, memoryVars
  <2> QED BY <1>3, <2>1
<1> QED BY <1>4, <1>5, <1>6

\* Only the end of a scan, under the switches it began with, suggests anything.
LEMMA ScanStep ==
  ASSUME MemoryInv, [MemoryNext]_memoryVars, Suggested' # Suggested \/ scanned' # scanned
  PROVE  /\ memorySettings.enabled /\ memorySettings.auto
         /\ \E w \in Readers : /\ reader[w].step # "idle" /\ reader'[w].step = "idle"
                               /\ reader[w].epoch = memorySettings.epoch
<1>1. MemoryShape
  BY MemoryShapes DEF MemoryInv
<1>2. ASSUME NEW w \in Readers, FinishScan(w)
      PROVE  /\ memorySettings.enabled /\ memorySettings.auto
             /\ reader[w].step # "idle" /\ reader'[w].step = "idle" /\ reader[w].epoch = memorySettings.epoch
  <2>1. reader' = [reader EXCEPT ![w] = Away] /\ HoldsScan(w) /\ reader[w].step \in {"finish", "failed"}
    BY <1>2 DEF FinishScan
  <2>2. reader'[w] = Away
    BY <1>1, <2>1 DEF MemoryShape
  <2> QED BY <2>1, <2>2 DEF HoldsScan, Away
<1>3. ASSUME NEW c \in suggestions, Dismiss(c) \/ \E i \in NoteIds, says \in Statements : Confirm(c, i, says)
      PROVE  Suggested' = Suggested /\ scanned' = scanned
  BY <1>3, SuggestionSettled DEF Dismiss, Confirm, SettingsCommand
<1>4. CASE UNCHANGED <<suggestions, scanned>>
  BY <1>4 DEF Suggested
<1>5. CASE OwnerStep
  BY <1>3, <1>4, <1>5 DEF OwnerStep, Save, Remove, Configure, VouchFor, LoseSource, SettingsCommand
<1>6. ASSUME NEW w \in Readers, ReaderStep(w)
      PROVE  FinishScan(w) \/ UNCHANGED <<suggestions, scanned>>
  BY <1>6 DEF ReaderStep, ClaimScan, ReadMessages, RecheckSources, FailScan, AbandonScan
<1>7. CASE LapseScan \/ RunStep \/ UNCHANGED memoryVars
  BY <1>4, <1>7 DEF LapseScan, RunStep, PinSettings, BindNotes, StopRun, BeginPublication, EndPublication,
                    AbortPublication, memoryVars
<1> QED BY <1>2, <1>4, <1>5, <1>6, <1>7 DEF MemoryNext

\* Deleting or changing a note and publishing an answer that recalled it do not
\* both win; and a model response that comes after extraction was switched leaves
\* neither a suggestion nor a run marked as read (memory.py, memory_extraction.py).
THEOREM MemoryIsFenced == MemorySpec => MemoryFenced
<1>1. MemoryInv /\ [MemoryNext]_memoryVars =>
        [answer.step # "published" /\ answer'.step = "published" /\ answer.ids # {} =>
           answer.revision = memorySettings.revision /\ \A i \in answer.ids : Kept(i)]_memoryVars
  BY RecallStep
<1>2. MemoryInv /\ [MemoryNext]_memoryVars =>
        [Suggested' # Suggested \/ scanned' # scanned =>
           /\ memorySettings.enabled /\ memorySettings.auto
           /\ \E w \in Readers : /\ reader[w].step # "idle" /\ reader'[w].step = "idle"
                                 /\ reader[w].epoch = memorySettings.epoch]_memoryVars
  BY ScanStep
<1>3. MemorySpec => RecallCurrent
  BY <1>1, MemoryInvHolds, PTL DEF MemorySpec, RecallCurrent
<1>4. MemorySpec => LateExtractionSilent
  BY <1>2, MemoryInvHolds, PTL DEF MemorySpec, LateExtractionSilent
<1> QED BY <1>3, <1>4 DEF MemoryFenced

-----------------------------------------------------------------------------
(* The sum: each part takes its own steps or none. *)

\* The sum begins as each of its parts does ...
LEMMA PartInit ==
  SumInit => Init /\ PublicationInit /\ GraphInit /\ ProjectionInit /\ RetentionInit /\ MemoryInit
BY DEF SumInit

\* ... goes on as each, or leaves it alone ...
LEMMA PartSteps ==
  [SumNext]_sumVars =>
    /\ [Next]_vars /\ [PublicationNext]_publicationVars /\ [GraphNext]_graphVars
    /\ [ProjectionNext]_projectionVars /\ [RetentionNext]_retentionVars /\ [MemoryNext]_memoryVars
BY DEF SumNext, sumVars

\* ... and so implements the specification of each ...
LEMMA PartSpecs ==
  SumSpec => Spec /\ PublicationSpec /\ GraphSpec /\ ProjectionSpec /\ RetentionSpec /\ MemorySpec
BY PartInit, PartSteps, PTL DEF SumSpec, Spec, PublicationSpec, GraphSpec, ProjectionSpec, RetentionSpec, MemorySpec

PartNames == {"jobs", "publication", "facts", "projection", "retention", "memory"}

\* ... of which one runs.
LEMMA PartStays == SumSpec => [](part \in PartNames)
<1>1. SumInit => part \in PartNames
  BY DEF SumInit, PartNames
<1>2. part \in PartNames /\ [SumNext]_sumVars => (part \in PartNames)'
  BY DEF SumNext, sumVars
<1> QED BY <1>1, <1>2, PTL DEF SumSpec

\* Whatever workers, attempts and cancellations overlap, a version that is ready has been
\* indexed from the one parse that was frozen for it, and a job whose cancellation was
\* accepted never gives one (knowledge.py, process_one and staged); all parts keep their types.
THEOREM VersionsAreSound == SumSpec => []VersionsSound
<1>1. PublicationInv => PublicationTypes /\ IndexedAsFrozen /\ CancelledNeverReady
  BY VersionsAre
<1>2. GraphInv => GraphTypes
  BY GraphShapes DEF GraphInv
<1>3. ProjectionInv => ProjectionTypes
  BY DEF ProjectionInv
<1>4. RetentionInv /\ LateOnes => RetentionTypes
  BY RetentionShapes DEF RetentionInv
<1>5. MemoryInv => MemoryTypes
  BY DEF MemoryInv
<1>6. ASSUME part \in PartNames, TypeOK, PublicationTypes, GraphTypes, ProjectionTypes, RetentionTypes, MemoryTypes
      PROVE  SumTypes
  <2>1. CASE part = "jobs"
    BY <1>6, <2>1, Zenon DEF SumTypes
  <2>2. CASE part = "publication"
    BY <1>6, <2>2, Zenon DEF SumTypes
  <2>3. CASE part = "facts"
    BY <1>6, <2>3, Zenon DEF SumTypes
  <2>4. CASE part = "projection"
    BY <1>6, <2>4, Zenon DEF SumTypes
  <2>5. CASE part = "retention"
    BY <1>6, <2>5, Zenon DEF SumTypes
  <2>6. CASE part = "memory"
    BY <1>6, <2>6, Zenon DEF SumTypes
  <2> QED BY <1>6, <2>1, <2>2, <2>3, <2>4, <2>5, <2>6, Zenon DEF PartNames
<1>8. part \in PartNames /\ TypeOK /\ PublicationTypes /\ GraphTypes /\ ProjectionTypes /\ RetentionTypes /\ MemoryTypes
        => SumTypes
  BY <1>6
<1>9. SumTypes /\ IndexedAsFrozen /\ CancelledNeverReady => VersionsSound
  BY DEF VersionsSound
<1>7. SumSpec => []ProjectionInv
  BY PartSpecs, InitLabelled, StepLabelled, PTL DEF ProjectionSpec
<1> QED
  BY <1>1, <1>2, <1>3, <1>4, <1>5, <1>7, <1>8, <1>9, PartSpecs, PartStays, JobTypesHold, PublicationInvHolds,
     GraphInvHolds, RetentionInvHolds, LateOnesAre, MemoryInvHolds, PTL

\* Whoever was admitted to an original finds it unless the row was reopened too late,
\* and the quota holds what is not deleted and all that is stored (retention.py).
THEOREM OriginalsAreKept == SumSpec => []OriginalsKept
<1>1. ReadUndisturbed /\ QuotaKept /\ StoredIsPaid => OriginalsKept
  BY DEF OriginalsKept
<1> QED BY <1>1, OriginalsStay, QuotaIsKept, PartSpecs, PTL

\* Whatever part of the sum runs, nothing is suggested twice (memory_extraction.py), a run
\* publishes notes only as they are when it publishes (memory.py), facts are written only
\* by undisturbed commits that no person has decided against (graph_extraction.py), and a
\* newer version is not replaced by an older one that was under way (knowledge_api.py).
THEOREM PartsKeepTheirPromises ==
  SumSpec => []SuggestedOnce /\ MemoryFenced /\ FactsFenced /\ ShownInOrder
BY PartSpecs, NothingSuggestedTwice, MemoryIsFenced, FactsAreFenced, NewestIsShown, PTL

=============================================================================
