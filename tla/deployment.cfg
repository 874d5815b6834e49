SPECIFICATION Spec
CONSTANTS
    Kinds = {"postgresql", "sqlite"}
    Seeders = {"first", "second"}
    MaxCommands = 4
    MaxCrashes = 1
INVARIANTS ServedSchemaIsComplete FailuresAreExplained NoDanglingReference SeedIsComplete
CHECK_DEADLOCK FALSE
