\* A single backup, and workflows of two tasks, with hooks on all levels.
CONSTANTS
  HasTimeout = TRUE
  Failing = {"stdout"}
  Tasks = {"A", "R"}
  Targets <- MCTargets
  Modes = {"normal", "faultyHistory", "dryRun", "noHistory"}
  HookCount <- MCHookCount
  SlowWait = TRUE
  MaxCancels = 2
SPECIFICATION Spec
INVARIANTS
  StatsBelongToTheirStep
  EverySuccessIsCollected
  LevelsUnwind
  RowsTellTheResult
PROPERTIES
  CommandsAreStopped
  NothingStartsAfterCancel
  CancelledExecutionEnds
CHECK_DEADLOCK FALSE
