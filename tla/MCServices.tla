------------------------------ MODULE MCServices ------------------------------
(***************************************************************************)
(* Durable work behind the gateway as a disjoint sum: a behaviour is one   *)
(* of tool jobs, of a document's versions, of its extracted facts, of      *)
(* their projection, of web originals, or of personal notes.  The parts    *)
(* have no state in common.                                                *)
(***************************************************************************)
EXTENDS ToolJobs, KnowledgePublication, GraphFacts, GraphProjection, EvidenceRetention, PersonalMemory, TLC

VARIABLE part

sumVars == <<part, vars, publicationVars, graphVars, projectionVars, retentionVars, memoryVars>>

SumInit ==
  /\ part \in {"jobs", "publication", "facts", "projection", "retention", "memory"}
  /\ Init /\ (part # "jobs" => job = [x \in Executors |-> CHOOSE j \in Jobs : TRUE])
  /\ PublicationInit /\ GraphInit /\ ProjectionInit /\ RetentionInit /\ MemoryInit

SumNext ==
  /\ \/ part = "jobs" /\ Next
        /\ UNCHANGED <<publicationVars, graphVars, projectionVars, retentionVars, memoryVars>>
     \/ part = "publication" /\ PublicationNext
        /\ UNCHANGED <<vars, graphVars, projectionVars, retentionVars, memoryVars>>
     \/ part = "facts" /\ GraphNext
        /\ UNCHANGED <<vars, publicationVars, projectionVars, retentionVars, memoryVars>>
     \/ part = "projection" /\ ProjectionNext
        /\ UNCHANGED <<vars, publicationVars, graphVars, retentionVars, memoryVars>>
     \/ part = "retention" /\ RetentionNext
        /\ UNCHANGED <<vars, publicationVars, graphVars, projectionVars, memoryVars>>
     \/ part = "memory" /\ MemoryNext
        /\ UNCHANGED <<vars, publicationVars, graphVars, projectionVars, retentionVars>>
  /\ UNCHANGED part

SumSpec == SumInit /\ [][SumNext]_sumVars

\* The types of the part that runs; the others keep their initial state.
SumTypes ==
  CASE part = "jobs" -> TypeOK
    [] part = "publication" -> PublicationTypes
    [] part = "facts" -> GraphTypes
    [] part = "projection" -> ProjectionTypes
    [] part = "retention" -> RetentionTypes
    [] part = "memory" -> MemoryTypes

\* A version is indexed as it was frozen, a cancelled one is never made ready.
VersionsSound == SumTypes /\ IndexedAsFrozen /\ CancelledNeverReady

\* Extraction yields to people, and ends with its job, its version and its policy.
FactsFenced == HumanDecisionStands /\ LateWritesNothing

\* Originals are there for those admitted to them unless a row is reopened too
\* late, and they are paid for once, as long as they are stored.
OriginalsKept == ReadUndisturbed /\ QuotaKept /\ StoredIsPaid

\* Neither a late publication nor a late extraction gets past the owner's settings.
MemoryFenced == RecallCurrent /\ LateExtractionSilent

\* The configuration takes the same two values for the workers of all parts, and
\* two others for statements, originals, parses and the topology.
Alike == Permutations(Executors) \cup Permutations(Statements)
=============================================================================
