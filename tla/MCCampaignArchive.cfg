\* Two executions in one run directory.
SPECIFICATION Spec
CONSTANT Settings <- MCSingle
INVARIANTS SanitizerEventsOwn
\* A campaign stops when it is done.
CHECK_DEADLOCK FALSE
