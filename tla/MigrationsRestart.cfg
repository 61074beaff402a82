SPECIFICATION MigrationsSpec
INVARIANTS
    NoStartIsRefused
CHECK_DEADLOCK FALSE
