--------------------------- MODULE GraphProjection ---------------------------
(***************************************************************************)
(* The copy of the graph's topology in Neo4j (graph.rebuild_projection,    *)
(* graph_projection.rebuild, graph_worker.work).  A rebuild reads the      *)
(* revision, then the edges, replaces what Neo4j holds in one transaction  *)
(* and marks the revision as projected if it is still the current one.     *)
(* Commands and commits change the edges and raise the revision.           *)
(***************************************************************************)
EXTENDS Integers

CONSTANTS
  Rebuilders,     \* worker ticks and requests that rebuild at the same time
  Topology,       \* edges, as Neo4j knows them
  MaxRevision     \* bound on graph_state.revision

ASSUME ProjectionAssumption == MaxRevision \in Nat

VARIABLES
  topology,    \* the enabled graph_edges
  graphState,  \* revision, projected (projected_revision)
  neo,         \* the edges in Neo4j, and the revision they are labelled with
  rebuilder    \* each rebuild_projection

projectionVars == <<topology, graphState, neo, rebuilder>>

Resting == [step |-> "idle", revision |-> 0, rows |-> {}]

ProjectionTypes ==
  /\ topology \subseteq Topology
  /\ graphState \in [revision : 0..MaxRevision, projected : {-1} \cup 0..MaxRevision]
  /\ neo \in [revision : 0..MaxRevision, rows : SUBSET Topology]
  /\ rebuilder \in [Rebuilders -> [step : {"idle", "read", "rows", "mark"}, revision : 0..MaxRevision,
                                   rows : SUBSET Topology]]

ProjectionInit ==
  /\ topology = {} /\ graphState = [revision |-> 0, projected |-> -1]
  /\ neo = [revision |-> 0, rows |-> {}]
  /\ rebuilder = [r \in Rebuilders |-> Resting]

-----------------------------------------------------------------------------

\* command, commit_chunk: the edges change with the revision, or not at all.
ChangeGraph(edges) ==
  /\ graphState.revision < MaxRevision
  /\ topology' = edges
  /\ graphState' = [graphState EXCEPT !.revision = @ + 1]
  /\ UNCHANGED <<neo, rebuilder>>

\* The worker's tick looks at the two revisions; a manager may ask anyway.
ReadRevision(r) ==
  /\ rebuilder[r].step = "idle"
  /\ rebuilder' = [rebuilder EXCEPT ![r].step = "read", ![r].revision = graphState.revision]
  /\ UNCHANGED <<topology, graphState, neo>>

ReadRows(r) ==
  /\ rebuilder[r].step = "read"
  /\ rebuilder' = [rebuilder EXCEPT ![r].step = "rows", ![r].rows = topology]
  /\ UNCHANGED <<topology, graphState, neo>>

\* The revision the rows are written with.
LabelNow(r) == graphState.revision
Label(r) == rebuilder[r].revision

WriteNeo(r) ==
  /\ rebuilder[r].step = "rows"
  /\ neo' = [revision |-> Label(r), rows |-> rebuilder[r].rows]
  /\ rebuilder' = [rebuilder EXCEPT ![r].step = "mark", ![r].rows = {}]
  /\ UNCHANGED <<topology, graphState>>

MarkProjected(r) ==
  /\ rebuilder[r].step = "mark"
  /\ graphState' = IF graphState.revision = rebuilder[r].revision
                     THEN [graphState EXCEPT !.projected = rebuilder[r].revision] ELSE graphState
  /\ rebuilder' = [rebuilder EXCEPT ![r] = Resting]
  /\ UNCHANGED <<topology, neo>>

\* Neo4j does not answer, or the process dies, at any point.
FailRebuild(r) ==
  /\ rebuilder[r].step # "idle"
  /\ rebuilder' = [rebuilder EXCEPT ![r] = Resting]
  /\ UNCHANGED <<topology, graphState, neo>>

ProjectionNext ==
  \/ \E edges \in SUBSET Topology : ChangeGraph(edges)
  \/ \E r \in Rebuilders : ReadRevision(r) \/ ReadRows(r) \/ WriteNeo(r) \/ MarkProjected(r) \/ FailRebuild(r)

ProjectionSpec == ProjectionInit /\ [][ProjectionNext]_projectionVars

-----------------------------------------------------------------------------

\* What a query of the current revision finds in Neo4j is the current
\* topology, however many rebuilds and changes run at the same time.
ProjectionCurrent == neo.revision = graphState.revision /\ neo.revision > 0 => neo.rows = topology

=============================================================================
