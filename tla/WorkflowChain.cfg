CONSTANTS
  None = None
  Phases <- PlanPhases
  Tasks <- PlanTasks
  PhaseOf <- PlanPhaseOf
  Rank <- PlanRank
  DependsOn <- ChainDependsOn
  Recovery <- NoRecovery
  MaxAttempts <- ChainMaxAttempts
  ContextTasks <- ChainContext
  Bindings <- ChainBindings
  RuntimePhases <- RuntimeP2
  CheckpointPhases <- RuntimeP2
  FreshVerdicts <- BothVerdicts
SPECIFICATION Spec
INVARIANTS
  TypeOK
  CaptureNeverRefuses
  CompletedMeansDone
  NoDependencyDeadlock
PROPERTIES
  SettledTasksStay
  HistoryIsComplete
