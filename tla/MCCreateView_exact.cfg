CONSTANT Hours <- FiveHours
SPECIFICATION Spec
INVARIANTS TypeOK ViewExact ConflictsExact
CHECK_DEADLOCK FALSE
