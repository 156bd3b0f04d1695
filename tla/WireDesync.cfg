SPECIFICATION WSpec
CONSTANTS
    DriverKinds = {"postgres"}
    Tasks <- MCTasks
    MaxCalls = 3
INVARIANTS PgInStep
CHECK_DEADLOCK FALSE
