\* Killed while it writes evidence.json, then resumed.
SPECIFICATION Spec
CONSTANT Settings <- MCSingle
INVARIANTS InterruptionHealed
\* A campaign stops when it is done.
CHECK_DEADLOCK FALSE
