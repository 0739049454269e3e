SPECIFICATION FairDaemonSpec
CONSTANTS
    t1 = t1
    t2 = t2
    Tasks = {t1, t2}
    MaxConns = 1
    Packets <- SomePackets
CHECK_DEADLOCK FALSE
INVARIANT ServingNeverDies
PROPERTY StopTerminates
