\* Shutdown while a listener has not started yet.
SPECIFICATION ListenerFairSpec
INVARIANTS
    ShutdownStopsAll
CHECK_DEADLOCK FALSE
