--------------------------- MODULE PersonalMemory ---------------------------
(***************************************************************************)
(* One owner's notes: written, confirmed, changed and deleted by commands  *)
(* on the owner's settings row (semibrain_agent/memory.py,                 *)
(* memory_candidates.py, through the gateway's memory.py); suggestions     *)
(* that a worker extracts from finished runs under a lease                 *)
(* (memory_extraction.py, memory_worker.py); and a run that recalls notes  *)
(* and publishes an answer.  Every transaction writes the settings row, so *)
(* two of them never overlap; a publication is split where its snapshot is *)
(* read and where it locks that row.                                       *)
(***************************************************************************)
EXTENDS Naturals, FiniteSets

CONSTANTS
  Readers,        \* workers in memory_extraction.process_one
  Statements,     \* what a note can say, up to its fingerprint
  Sources,        \* finished runs whose user message may be read
  MaxNotes,       \* bound on notes
  MaxPending,     \* suggestions waiting for the owner: 50
  MaxProposals,   \* suggestions one reading may make: 4
  MaxSettings,    \* bound on the revision of the settings
  MaxEpochs,      \* bound on the times extraction is switched
  MaxFailures     \* failures after which a run is not read again: 3

ASSUME MemoryAssumption == {MaxNotes, MaxPending, MaxProposals, MaxSettings, MaxEpochs, MaxFailures} \subseteq Nat

Unsaid == "unsaid"
ByHand == "owner"
NoReader == "none"
NoteIds == 1..MaxNotes

VARIABLES
  memorySettings,  \* revision, enabled, auto_extract, extract_epoch; the reader holding extract_lease
  notes,           \* memories
  suggestions,     \* memory_candidates, of every status
  vouched,         \* suggestions whose source a request to confirm them has found readable
  scanned,         \* runs.memory_scanned_epoch, by source
  failures,        \* runs.memory_extraction_failures
  readable,        \* the sources the owner may still read
  reader,          \* each worker
  answer           \* the run: memory_binding and the transaction that publishes it

memoryVars == <<memorySettings, notes, suggestions, vouched, scanned, failures, readable, reader, answer>>

NoNote == [status |-> "none", revision |-> 0, says |-> Unsaid, source |-> ByHand]
Away == [step |-> "idle", epoch |-> 0, runs |-> {}, proposals |-> {}]

Proposals == [says : Statements, source : Sources, target : 0..MaxNotes, revision : 0..MaxSettings]

\* What one reading may propose: no two say the same.
Batches == {made \in SUBSET Proposals : /\ Cardinality(made) <= MaxProposals
                                       /\ \A p, q \in made : p.says = q.says => p = q}

MemoryTypes ==
  /\ memorySettings \in [revision : 0..MaxSettings, enabled : BOOLEAN, auto : BOOLEAN, epoch : 0..MaxEpochs,
                         holder : Readers \cup {NoReader}]
  /\ notes \in [NoteIds -> [status : {"none", "kept", "deleted"}, revision : 0..MaxSettings,
                            says : Statements \cup {Unsaid}, source : Sources \cup {ByHand}]]
  /\ suggestions \subseteq [is : Proposals, status : {"pending", "confirmed", "dismissed"}]
  /\ vouched \subseteq suggestions
  /\ scanned \in [Sources -> 0..MaxEpochs] /\ failures \in [Sources -> 0..MaxFailures] /\ readable \subseteq Sources
  /\ reader \in [Readers -> [step : {"idle", "claimed", "read", "finish", "failed"}, epoch : 0..MaxEpochs,
                             runs : SUBSET Sources, proposals : Batches]]
  /\ answer \in [step : {"new", "pinned", "bound", "publishing", "published", "stopped"},
                 revision : 0..MaxSettings, ids : SUBSET NoteIds, stale : BOOLEAN]

MemoryInit ==
  /\ memorySettings = [revision |-> 0, enabled |-> FALSE, auto |-> FALSE, epoch |-> 0, holder |-> NoReader]
  /\ notes = [i \in NoteIds |-> NoNote] /\ suggestions = {} /\ vouched = {}
  /\ scanned = [s \in Sources |-> 0] /\ failures = [s \in Sources |-> 0] /\ readable = Sources
  /\ reader = [w \in Readers |-> Away]
  /\ answer = [step |-> "new", revision |-> 0, ids |-> {}, stale |-> FALSE]

Kept(i) == notes[i].status = "kept"
Waiting == {c \in suggestions : c.status = "pending"}

\* source_state, apart from the passing of a year.
SourceActive(i) == notes[i].source \in readable \cup {ByHand}

\* A transaction that has read this row aborts when the row is written.
Disturbed == [answer EXCEPT !.stale = @ \/ answer.step = "publishing"]

-----------------------------------------------------------------------------
(* Commands of the owner *)

SettingsCommand(changes) ==
  /\ changes.revision <= MaxSettings
  /\ memorySettings' = changes /\ answer' = Disturbed
  /\ UNCHANGED <<scanned, failures, readable, reader>>

Recorded == [memorySettings EXCEPT !.revision = @ + 1]

\* save: a new note, or the next revision of one.
Save(i, says) ==
  /\ notes[i].status # "deleted"
  /\ notes' = [notes EXCEPT ![i] = [status |-> "kept", revision |-> @.revision + 1, says |-> says, source |-> ByHand]]
  /\ SettingsCommand(Recorded) /\ UNCHANGED <<suggestions, vouched>>

\* remove: a tombstone stays.
Remove(i) ==
  /\ Kept(i)
  /\ notes' = [notes EXCEPT ![i] = [NoNote EXCEPT !.status = "deleted", !.revision = notes[i].revision + 1]]
  /\ SettingsCommand(Recorded) /\ UNCHANGED <<suggestions, vouched>>

\* configure: a change of either switch starts an epoch and ends the lease.
Configure(enabled, auto) ==
  LET changed == memorySettings.enabled # enabled \/ memorySettings.auto # auto IN
  /\ changed => memorySettings.epoch < MaxEpochs
  /\ SettingsCommand([Recorded EXCEPT !.enabled = enabled, !.auto = auto,
                 !.epoch = IF changed THEN @ + 1 ELSE @, !.holder = IF changed THEN NoReader ELSE @])
  /\ UNCHANGED <<notes, suggestions, vouched>>

\* confirm, before its transaction: a waiting suggestion needs its source.
VouchFor(c) ==
  /\ c \in Waiting \ vouched /\ c.is.source \in readable
  /\ vouched' = vouched \cup {c}
  /\ UNCHANGED <<memorySettings, notes, suggestions, scanned, failures, readable, reader, answer>>

\* confirm: the suggestion becomes a note in the owner's words, or replaces the
\* revision it was made for.
Confirm(c, i, says) ==
  LET target == c.is.target IN
  /\ c \in Waiting \cap vouched /\ memorySettings.enabled
  /\ IF target = 0 THEN notes[i].status = "none"
     ELSE i = target /\ Kept(i) /\ notes[i].revision = c.is.revision
  /\ notes' = [notes EXCEPT ![i] = [status |-> "kept", revision |-> @.revision + 1, says |-> says, source |-> c.is.source]]
  /\ suggestions' = (suggestions \ {c}) \cup {[c EXCEPT !.status = "confirmed"]} /\ vouched' = vouched \ {c}
  /\ SettingsCommand(Recorded)

Dismiss(c) ==
  /\ c \in Waiting
  /\ suggestions' = (suggestions \ {c}) \cup {[c EXCEPT !.status = "dismissed"]} /\ vouched' = vouched \ {c}
  /\ SettingsCommand(memorySettings) /\ UNCHANGED notes

\* The conversation is deleted, or the account changes.
LoseSource(s) ==
  /\ s \in readable
  /\ readable' = readable \ {s}
  /\ UNCHANGED <<memorySettings, notes, suggestions, vouched, scanned, failures, reader, answer>>

-----------------------------------------------------------------------------
(* process_one *)

Open == {s \in Sources : scanned[s] # memorySettings.epoch}

\* A claim, and the runs to read: nothing is kept when there is nothing to do.
ClaimScan(w) ==
  /\ memorySettings.enabled /\ memorySettings.auto /\ memorySettings.holder = NoReader
  /\ reader[w].step = "idle"
  /\ Cardinality(Waiting) < MaxPending /\ Open # {}
  /\ memorySettings' = [memorySettings EXCEPT !.holder = w]
  /\ answer' = Disturbed
  /\ \E runs \in SUBSET Open \ {{}} :
       reader' = [reader EXCEPT ![w] = [Away EXCEPT !.step = "claimed", !.epoch = memorySettings.epoch, !.runs = runs]]
  /\ UNCHANGED <<notes, suggestions, vouched, scanned, failures, readable>>

LapseScan ==
  /\ memorySettings.holder # NoReader
  /\ memorySettings' = [memorySettings EXCEPT !.holder = NoReader]
  /\ UNCHANGED <<notes, suggestions, vouched, scanned, failures, readable, reader, answer>>

\* lease_query: what check asks before each step, and finish once more.
HoldsSwitches(w) == memorySettings.enabled /\ memorySettings.auto
HoldsScan(w) ==
  /\ memorySettings.enabled /\ memorySettings.auto
  /\ memorySettings.epoch = reader[w].epoch /\ memorySettings.holder = w

\* What vetted lets through of the model's answer: from a message still
\* readable, not what a current note says, and for a current note if for any.
Current(p) == p.target # 0 => Kept(p.target) /\ notes[p.target].revision = p.revision
Vetted(w) ==
  {p \in Proposals :
     /\ p.source \in reader[w].runs \cap readable
     /\ \A i \in NoteIds : Kept(i) /\ SourceActive(i) => notes[i].says # p.says
     /\ IF p.target = 0 THEN p.revision = 0 ELSE Current(p) /\ SourceActive(p.target)}

ReadMessages(w) ==
  /\ reader[w].step = "claimed" /\ HoldsScan(w)
  /\ \E made \in SUBSET Vetted(w) :
       /\ made \in Batches
       /\ reader' = [reader EXCEPT ![w].step = "read", ![w].proposals = made]
  /\ UNCHANGED <<memorySettings, notes, suggestions, vouched, scanned, failures, readable, answer>>

\* After the model's answer, and before the transaction.
RecheckSources(w) ==
  /\ reader[w].step = "read" /\ HoldsScan(w)
  /\ \A p \in reader[w].proposals : p.source \in readable
  /\ reader' = [reader EXCEPT ![w].step = "finish"]
  /\ UNCHANGED <<memorySettings, notes, suggestions, vouched, scanned, failures, readable, answer>>

\* Any error, a source refused among them: the transaction has no proposals.
FailScan(w) ==
  /\ reader[w].step \in {"claimed", "read", "finish"}
  /\ reader' = [reader EXCEPT ![w].step = "failed", ![w].proposals = {}]
  /\ UNCHANGED <<memorySettings, notes, suggestions, vouched, scanned, failures, readable, answer>>

\* A run that no longer holds its claim, finds its source changed or dies, leaves nothing.
AbandonScan(w) ==
  /\ reader[w].step # "idle"
  /\ reader' = [reader EXCEPT ![w] = Away]
  /\ UNCHANGED <<memorySettings, notes, suggestions, vouched, scanned, failures, readable, answer>>

KnownWaiting(says) == \E c \in Waiting : c.is.says = says
Known(says) == \E c \in suggestions : c.is.says = says

Wanted(p) ==
  /\ ~Known(p.says) /\ Current(p)
  /\ \A i \in NoteIds : Kept(i) => notes[i].says # p.says

\* The count goes on through the epochs; past the limit it makes no difference.
OneMore(n) == IF n < MaxFailures THEN n + 1 ELSE n

\* finish: the proposals, as far as there is room for them, and the runs they
\* came from, in one transaction.
FinishScan(w) ==
  LET local == reader[w]
      wanted == {p \in local.proposals : Wanted(p)}
      room == MaxPending - Cardinality(Waiting)
      failed == local.step = "failed"
      read == {s \in local.runs : ~failed \/ failures[s] + 1 >= MaxFailures} IN
  /\ local.step \in {"finish", "failed"} /\ HoldsScan(w)
  /\ \E added \in SUBSET wanted :
       /\ added = {} \/ Cardinality(added) <= room
       /\ added = wanted \/ Cardinality(added) >= room
       /\ suggestions' = suggestions \cup {[is |-> p, status |-> "pending"] : p \in added}
  /\ failures' = [s \in Sources |-> IF s \notin local.runs THEN failures[s] ELSE IF failed THEN OneMore(failures[s]) ELSE 0]
  /\ scanned' = [s \in Sources |-> IF s \in read THEN local.epoch ELSE scanned[s]]
  /\ memorySettings' = [memorySettings EXCEPT !.holder = NoReader]
  /\ answer' = Disturbed
  /\ reader' = [reader EXCEPT ![w] = Away]
  /\ UNCHANGED <<notes, vouched, readable>>

-----------------------------------------------------------------------------
(* The run that recalls *)

\* prepare: the settings are read first, then the notes.
PinSettings ==
  /\ answer.step = "new"
  /\ answer' = [answer EXCEPT !.step = "pinned", !.revision = memorySettings.revision,
                              !.stale = ~memorySettings.enabled]
  /\ UNCHANGED <<memorySettings, notes, suggestions, vouched, scanned, failures, readable, reader>>

\* The best five, at most; none when memory was off (stale).
BindNotes ==
  /\ answer.step = "pinned"
  /\ \E ids \in SUBSET {i \in NoteIds : Kept(i) /\ SourceActive(i)} :
       /\ answer.stale => ids = {}
       /\ answer' = [answer EXCEPT !.step = "bound", !.ids = ids, !.stale = FALSE]
  /\ UNCHANGED <<memorySettings, notes, suggestions, vouched, scanned, failures, readable, reader>>

\* guard: a run that recalled nothing is not bound to anything.
Guarded == answer.ids = {} \/ memorySettings.revision = answer.revision

\* Before each model request, and again in the snapshot of the publication.
StopRun ==
  /\ answer.step = "bound"
  /\ ~Guarded \/ \E i \in answer.ids : ~Kept(i) \/ ~SourceActive(i)
  /\ answer' = [answer EXCEPT !.step = "stopped"]
  /\ UNCHANGED <<memorySettings, notes, suggestions, vouched, scanned, failures, readable, reader>>

BeginPublication ==
  /\ answer.step = "bound" /\ Guarded
  /\ answer' = [answer EXCEPT !.step = "publishing", !.stale = FALSE]
  /\ UNCHANGED <<memorySettings, notes, suggestions, vouched, scanned, failures, readable, reader>>

\* publication writes the epoch row, for the conflict.
WritesAnyway == answer.step = "publishing"
Locks == answer.step = "publishing" /\ (answer.ids # {} => ~answer.stale)

EndPublication ==
  /\ Locks
  /\ answer' = [answer EXCEPT !.step = "published"]
  /\ UNCHANGED <<memorySettings, notes, suggestions, vouched, scanned, failures, readable, reader>>

AbortPublication ==
  /\ answer.step = "publishing" /\ answer.ids # {} /\ answer.stale
  /\ answer' = [answer EXCEPT !.step = "bound", !.stale = FALSE]
  /\ UNCHANGED <<memorySettings, notes, suggestions, vouched, scanned, failures, readable, reader>>

-----------------------------------------------------------------------------

OwnerStep ==
  \/ \E i \in NoteIds : Remove(i) \/ \E says \in Statements : Save(i, says)
  \/ \E enabled, auto \in BOOLEAN : Configure(enabled, auto)
  \/ \E c \in suggestions : VouchFor(c) \/ Dismiss(c) \/ \E i \in NoteIds, says \in Statements : Confirm(c, i, says)
  \/ \E s \in Sources : LoseSource(s)

ReaderStep(w) ==
  ClaimScan(w) \/ ReadMessages(w) \/ RecheckSources(w) \/ FailScan(w) \/ AbandonScan(w) \/ FinishScan(w)

RunStep == PinSettings \/ BindNotes \/ StopRun \/ BeginPublication \/ EndPublication \/ AbortPublication

MemoryNext == OwnerStep \/ (\E w \in Readers : ReaderStep(w)) \/ LapseScan \/ RunStep

MemorySpec == MemoryInit /\ [][MemoryNext]_memoryVars

-----------------------------------------------------------------------------
(* Properties *)

Suggested == {c.is : c \in suggestions}

\* Deleting or changing a note and publishing an answer that recalled it do
\* not both win: what an answer recalled is unchanged when it is published.
RecallCurrent ==
  [][answer.step # "published" /\ answer'.step = "published" /\ answer.ids # {} =>
       answer.revision = memorySettings.revision /\ \A i \in answer.ids : Kept(i)]_memoryVars

\* A model response that comes after extraction was switched, even off and on
\* again, leaves neither a suggestion nor a run marked as read.
LateExtractionSilent ==
  [][Suggested' # Suggested \/ scanned' # scanned =>
       /\ memorySettings.enabled /\ memorySettings.auto
       /\ \E w \in Readers : /\ reader[w].step # "idle" /\ reader'[w].step = "idle"
                             /\ reader[w].epoch = memorySettings.epoch]_memoryVars

\* What the owner has refused, confirmed or not yet looked at is not suggested again.
SuggestedOnce == \A c, d \in suggestions : c.is.says = d.is.says => c = d

=============================================================================
