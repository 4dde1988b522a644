CONSTANTS
  None = None
  Phases <- PlanPhases
  Tasks <- PlanTasks
  PhaseOf <- PlanPhaseOf
  Rank <- PlanRank
  DependsOn <- PhasesDependsOn
  Recovery <- NoRecovery
  MaxAttempts <- PhasesMaxAttempts
  ContextTasks <- NoContext
  Bindings <- NoBindings
  RuntimePhases <- NoRuntime
  CheckpointPhases <- NoRuntime
  FreshVerdicts <- NoVerdicts
SPECIFICATION Spec
INVARIANTS
  SettledInOrder
  CurrentWorkIsOpen
  HistoryFitsTheBudget
