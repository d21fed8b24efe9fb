-------------------------- MODULE EvidenceRetention --------------------------
(***************************************************************************)
(* Originals of web pages: reserved against a quota, stored, read under a  *)
(* lease, cited by runs, and deleted by a sweep when their time is over    *)
(* (semibrain_business/retention.py, web_tools.fetch and read_snapshot,    *)
(* with the agent's word on runs and citations, semibrain_agent/           *)
(* retention.py).  A sweep checks, closes the row to readers, checks again *)
(* and deletes in several places, any of which may fail.                   *)
(***************************************************************************)
EXTENDS Naturals, FiniteSets

CONSTANTS
  Originals,     \* retention_objects
  Sweepers,      \* sweeps at the same time: the schedule's lease is ten minutes
  Ceiling,       \* originals the quota has room for
  MaxRows        \* bound on the revision of a row

ASSUME RetentionAssumption == Ceiling \in Nat /\ MaxRows \in Nat

NoOriginal == "none"
Held == {"active", "deleting"}

VARIABLES
  originals,   \* retention_objects: state, revision, lease; the stored text
  reserved,    \* retention_control quota.reserved_bytes, in originals
  reference,   \* what lifecycle says: a run is active, ended or cited lately, or long ago
  reading,     \* originals somebody was admitted to read, within the lease
  sweeper,     \* each clean_one
  late         \* history: rows a second check has reopened when their object was
               \* gone, or when another sweep was already on its way to remove it

retentionVars == <<originals, reserved, reference, reading, sweeper, late>>

AtRest == [step |-> "idle", on |-> NoOriginal, revision |-> 0]

RetentionTypes ==
  /\ originals \in [Originals -> [state : {"none", "deleted"} \cup Held, revision : 0..MaxRows,
                                  leased : BOOLEAN, body : {"none", "stored", "gone"}]]
  /\ reserved \in 0..Ceiling
  /\ reference \in [Originals -> {"active", "recent", "due"}]
  /\ reading \subseteq Originals
  /\ sweeper \in [Sweepers -> [step : {"idle", "claim", "verify", "remove", "purge", "finish"},
                               on : Originals \cup {NoOriginal}, revision : 0..MaxRows]]
  /\ late \subseteq Originals

RetentionInit ==
  /\ originals = [o \in Originals |-> [state |-> "none", revision |-> 0, leased |-> FALSE, body |-> "none"]]
  /\ reserved = 0 /\ reading = {} /\ late = {}
  /\ reference = [o \in Originals |-> "active"]
  /\ sweeper = [w \in Sweepers |-> AtRest]

-----------------------------------------------------------------------------
(* Runs and readers *)

\* reserve, in one transaction.
ReserveOriginal(o) ==
  /\ originals[o].state = "none" /\ reserved < Ceiling
  /\ reserved' = reserved + 1
  /\ originals' = [originals EXCEPT ![o].state = "active", ![o].leased = TRUE]
  /\ UNCHANGED <<reference, reading, sweeper>>

\* fetch: the file and the snapshot, while its run goes on.
StoreOriginal(o) ==
  /\ originals[o].state = "active" /\ originals[o].body = "none" /\ reference[o] = "active"
  /\ originals' = [originals EXCEPT ![o].body = "stored"]
  /\ UNCHANGED <<reserved, reference, reading, sweeper>>

\* lease: only an active row takes it.  A reader of the page or of its file, or a
\* publication that cites it, goes on from there; what it writes is a later step.
Admits(o) == originals[o].state = "active" /\ originals[o].revision < MaxRows

AdmitReader(o) ==
  /\ originals[o].body # "none" /\ Admits(o)
  /\ originals' = [originals EXCEPT ![o].revision = @ + 1, ![o].leased = TRUE]
  /\ reading' = reading \cup {o}
  /\ UNCHANGED <<reserved, reference, sweeper>>

\* A run in progress inserts evidence with the original among its lineage, or a
\* file made from it is registered: after a read whose lease may be over, or by
\* the handle of a retained query or file, which asks for no lease at all.
ReferTo(o, how) ==
  /\ originals[o].body # "none" /\ reference[o] \notin {how, "active"}
  /\ reference' = [reference EXCEPT ![o] = how]
  /\ UNCHANGED <<originals, reserved, reading, sweeper>>

EndReference(o) ==
  /\ reference[o] = "active" /\ originals[o].state # "none"
  /\ reference' = [reference EXCEPT ![o] = "recent"]
  /\ UNCHANGED <<originals, reserved, reading, sweeper>>

\* Thirty days after the run, ninety after a citation.
PassDeadline(o) ==
  /\ reference[o] = "recent"
  /\ reference' = [reference EXCEPT ![o] = "due"]
  /\ UNCHANGED <<originals, reserved, reading, sweeper>>

LapseLease(o) ==
  /\ originals[o].leased
  /\ originals' = [originals EXCEPT ![o].leased = FALSE]
  /\ reading' = reading \ {o}
  /\ UNCHANGED <<reserved, reference, sweeper>>

-----------------------------------------------------------------------------
(* clean_one *)

Mine(w) == originals[sweeper[w].on]

ExamineOriginal(w, o) ==
  /\ sweeper[w].step = "idle"
  /\ originals[o].state \in Held /\ reference[o] = "due" /\ ~originals[o].leased
  /\ sweeper' = [sweeper EXCEPT ![w] = [step |-> "claim", on |-> o, revision |-> originals[o].revision]]
  /\ UNCHANGED <<originals, reserved, reference, reading>>

\* The row is as it was read: no reader has been admitted since.
StillHeld(w) == Mine(w).state \in Held
Unraced(w) == Mine(w).state \in Held /\ Mine(w).revision = sweeper[w].revision /\ ~Mine(w).leased

ClaimOriginal(w) ==
  /\ sweeper[w].step = "claim" /\ Mine(w).revision < MaxRows
  /\ IF Unraced(w)
       THEN /\ originals' = [originals EXCEPT ![sweeper[w].on] =
                              [Mine(w) EXCEPT !.state = "deleting", !.revision = @ + 1, !.leased = TRUE]]
            /\ sweeper' = [sweeper EXCEPT ![w].step = "verify", ![w].revision = Mine(w).revision + 1]
       ELSE sweeper' = [sweeper EXCEPT ![w] = AtRest] /\ UNCHANGED originals
  /\ UNCHANGED <<reserved, reference, reading>>

\* Another sweep has removed the object, or may be about to.
TooLate(w) ==
  \/ Mine(w).body = "gone"
  \/ \E v \in Sweepers \ {w} : sweeper[v].on = sweeper[w].on /\ sweeper[v].step \in {"verify", "remove"}

\* Citations and runs once more, now that nobody is admitted: whoever is still at
\* the revision it has claimed reopens the row, and does not look for the object.
VerifyOriginal(w) ==
  LET o == sweeper[w].on
      due == reference[o] = "due"
      reopens == ~due /\ Mine(w).revision = sweeper[w].revision IN
  /\ sweeper[w].step = "verify"
  /\ originals' = IF reopens THEN [originals EXCEPT ![o].state = "active"] ELSE originals
  /\ late' = IF reopens /\ TooLate(w) THEN late \cup {o} ELSE late
  /\ sweeper' = [sweeper EXCEPT ![w] = IF due THEN [@ EXCEPT !.step = "remove"] ELSE AtRest]
  /\ UNCHANGED <<reserved, reference, reading>>

RemoveOriginal(w) ==
  /\ sweeper[w].step = "remove"
  /\ originals' = [originals EXCEPT ![sweeper[w].on].body = IF @ = "none" THEN @ ELSE "gone"]
  /\ sweeper' = [sweeper EXCEPT ![w].step = "purge"]
  /\ UNCHANGED <<reserved, reference, reading>>

\* The agent purges its copies if it finds them due as well; else it refuses.
PurgeEvidence(w) ==
  /\ sweeper[w].step = "purge" /\ reference[sweeper[w].on] = "due"
  /\ sweeper' = [sweeper EXCEPT ![w].step = "finish"]
  /\ UNCHANGED <<originals, reserved, reference, reading>>

\* finish: the reservation goes back with the last change of the row.
FinishesAnyway(w) == TRUE
Finishes(w) == Mine(w).state = "deleting" /\ Mine(w).revision = sweeper[w].revision

FinishOriginal(w) ==
  /\ sweeper[w].step = "finish"
  /\ IF Finishes(w)
       THEN /\ originals' = [originals EXCEPT ![sweeper[w].on].state = "deleted", ![sweeper[w].on].leased = FALSE]
            /\ reserved' = reserved - 1
       ELSE UNCHANGED <<originals, reserved>>
  /\ sweeper' = [sweeper EXCEPT ![w] = AtRest]
  /\ UNCHANGED <<reference, reading>>

\* An exception or a crash: a row that is `deleting` stays so until a later
\* sweep; not before an hour, which only spaces the attempts.
StopSweep(w) ==
  /\ sweeper[w].step # "idle"
  /\ sweeper' = [sweeper EXCEPT ![w] = AtRest]
  /\ UNCHANGED <<originals, reserved, reference, reading>>

-----------------------------------------------------------------------------

UseStep(o) ==
  /\ \/ ReserveOriginal(o) \/ StoreOriginal(o) \/ AdmitReader(o)
     \/ (\E how \in {"active", "recent"} : ReferTo(o, how)) \/ EndReference(o) \/ PassDeadline(o) \/ LapseLease(o)
  /\ UNCHANGED late

SweepStep(w) ==
  \/ VerifyOriginal(w)
  \/ /\ \/ \E o \in Originals : ExamineOriginal(w, o)
        \/ ClaimOriginal(w) \/ RemoveOriginal(w) \/ PurgeEvidence(w) \/ FinishOriginal(w) \/ StopSweep(w)
     /\ UNCHANGED late

RetentionNext == (\E o \in Originals : UseStep(o)) \/ (\E w \in Sweepers : SweepStep(w))

RetentionSpec == RetentionInit /\ [][RetentionNext]_retentionVars

-----------------------------------------------------------------------------
(* Properties *)

\* Somebody who was admitted to an original finds it for as long as the lease
\* lasts, and a row that admits readers has its original, whatever refers to it
\* and when, unless a second check has reopened the row too late (retention.py:116-127).
ReadUndisturbed ==
  \A o \in Originals \ late :
    /\ o \in reading => originals[o].body = "stored"
    /\ originals[o].state = "active" => originals[o].body # "gone"

\* The quota holds exactly what is not deleted yet, whatever failed half-way
\* and however many sweeps tried (finish), and nothing is stored outside it.
QuotaKept == reserved = Cardinality({o \in Originals : originals[o].state \in Held})
StoredIsPaid == \A o \in Originals : originals[o].body = "stored" => originals[o].state \in Held

=============================================================================
