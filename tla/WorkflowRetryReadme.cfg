CONSTANTS
  None = None
  Phases <- PlanPhases
  Tasks <- PlanTasks
  PhaseOf <- PlanPhaseOf
  Rank <- PlanRank
  DependsOn <- ReadmeDependsOn
  Recovery <- ReadmeRecovery
  MaxAttempts <- ReadmeMaxAttempts
  ContextTasks <- NoContext
  Bindings <- NoBindings
  RuntimePhases <- NoRuntime
  CheckpointPhases <- NoRuntime
  FreshVerdicts <- NoVerdicts
SPECIFICATION Spec
INVARIANT BlockedTaskCanBeRetried
