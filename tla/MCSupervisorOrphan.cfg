SPECIFICATION Spec
CONSTANTS
    boot = boot w1 = w1 Monitor = Monitor Closer = Closer NoActor = NoActor
    Boots = {boot}
    Workflows = {w1}
    MaxRestarts = 1
    MaxInstances = 2
    Services = {"cloudflared"}
INVARIANTS NoOrphans
CHECK_DEADLOCK FALSE
