SPECIFICATION Spec
INVARIANTS
    SpawnFailureRefused
CHECK_DEADLOCK FALSE
