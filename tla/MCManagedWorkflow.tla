-------------------------- MODULE MCManagedWorkflow --------------------------
(***************************************************************************)
(* Small plans for ManagedWorkflow.                                        *)
(***************************************************************************)
EXTENDS ManagedWorkflow, TLC

PlanPhases  == {"p1", "p2"}
PlanTasks   == {"t1", "t2", "t3"}
PlanPhaseOf == "t1" :> "p1" @@ "t2" :> "p1" @@ "t3" :> "p2"
PlanRank    == "p1" :> 1 @@ "p2" :> 2 @@ "t1" :> 1 @@ "t2" :> 2 @@ "t3" :> 1
RuntimeP2   == {"p2"}
NoRuntime   == {}
BothVerdicts == {"yes", "hold"}
NoVerdicts   == {}
NoRecovery  == [t \in PlanTasks |-> None]

\* A chain: t1 then t2 in p1, then p2 with t3.  t2 and t3 request context and
\* the request of t3 refers to the output of t2.
ChainDependsOn   == "p1" :> {} @@ "p2" :> {"p1"} @@ "t1" :> {} @@ "t2" :> {"t1"} @@ "t3" :> {}
ChainMaxAttempts == "t1" :> 1 @@ "t2" :> 2 @@ "t3" :> 1
ChainContext     == {"t2", "t3"}
ChainBindings    == "t1" :> {} @@ "t2" :> {} @@ "t3" :> {"t2"}

\* Phases that depend on phases, no context: a closed dependency phase can be
\* reopened by phase-start while the phase that waited for it is running.
PhasesDependsOn   == "p1" :> {} @@ "p2" :> {"p1"} @@ "t1" :> {} @@ "t2" :> {} @@ "t3" :> {"t2"}
PhasesMaxAttempts == "t1" :> 2 @@ "t2" :> 1 @@ "t3" :> 1
NoContext         == {}
NoBindings        == [t \in PlanTasks |-> {}]

\* The plan of README "Task-level execution": ui-slice (t2) depends on
\* data-contract (t1) and names it as its recovery task.
ReadmeDependsOn   == "p1" :> {} @@ "p2" :> {} @@ "t1" :> {} @@ "t2" :> {"t1"} @@ "t3" :> {}
ReadmeRecovery    == "t1" :> None @@ "t2" :> "t1" @@ "t3" :> None
ReadmeMaxAttempts == "t1" :> 2 @@ "t2" :> 3 @@ "t3" :> 1
=============================================================================
