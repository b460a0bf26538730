SPECIFICATION FairSpec
CONSTANTS
    boot = boot w1 = w1 Monitor = Monitor Closer = Closer NoActor = NoActor
    Boots = {boot}
    Workflows = {w1}
    MaxRestarts = 2
    MaxInstances = 2
    Services = {"minio", "cloudflared"}
INVARIANTS TypeOK CleanExit
PROPERTIES Recovers ShutdownEnds
CHECK_DEADLOCK FALSE
