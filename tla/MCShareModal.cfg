SPECIFICATION ShareFairSpec
CONSTANTS
    f = f g = g s1 = s1 s2 = s2
    None = None
    Files = {f, g}
    Levels = {"view", "download"}
    Slots = {s1, s2}
    MaxTimers = 2
INVARIANTS ShareTypeOK LinkOfChoice
PROPERTIES DialogAnswers
