------------------------- MODULE MCWorkflowProcesses -------------------------
(***************************************************************************)
(* Two processes on a small plan: t1 and then t2, which requests           *)
(* context, in one phase.                                                  *)
(***************************************************************************)
EXTENDS WorkflowProcesses, TLC

PlanPhases   == {"p1"}
PlanTasks    == {"t1", "t2"}
PlanPhaseOf  == [t \in PlanTasks |-> "p1"]
PlanRank     == "p1" :> 1 @@ "t1" :> 1 @@ "t2" :> 2
PlanDepends  == "p1" :> {} @@ "t1" :> {} @@ "t2" :> {"t1"}
PlanRecovery == [t \in PlanTasks |-> None]
PlanAttempts == "t1" :> 2 @@ "t2" :> 1
PlanContext  == {"t2"}
PlanBindings == [t \in PlanTasks |-> {}]
PlanRuntime  == {"p1"}
BothVerdicts == {"yes", "hold"}

ProcessSymmetry == Permutations(Processes)
=============================================================================
