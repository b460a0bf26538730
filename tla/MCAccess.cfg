SPECIFICATION FairSpec
CONSTANTS
    k1 = k1 k2 = k2 n1 = n1 r1 = r1
    Keys = {k1, k2}
    Nodes = {n1}
    Requests = {r1}
    Refresher = Refresher
    Cooldown = 1
    MaxTime = 2
    NoKey = NoKey NoNode = NoNode NoActor = NoActor
INVARIANTS TypeOK HonestRefusal RevokedStays 
PROPERTIES TrustSurvives Answers
