CONSTANTS
  None = None
  Phases <- PlanPhases
  Tasks <- PlanTasks
  PhaseOf <- PlanPhaseOf
  Rank <- PlanRank
  DependsOn <- PlanDepends
  Recovery <- PlanRecovery
  MaxAttempts <- PlanAttempts
  ContextTasks <- PlanContext
  Bindings <- PlanBindings
  RuntimePhases <- PlanRuntime
  CheckpointPhases <- PlanRuntime
  FreshVerdicts <- BothVerdicts
  Processes = {one, other}
  CommandBudget = 10
  OverlapBudget = 5
SPECIFICATION ProcessSpec
CHECK_DEADLOCK FALSE
SYMMETRY ProcessSymmetry
INVARIANT FileStaysConsistent
PROPERTY ImplementsManagedWorkflow
