SPECIFICATION FairSpec
CONSTANTS
    d1 = d1 d2 = d2 f1 = f1 n1 = n1 g1 = g1 g2 = g2 r1 = r1 r2 = r2
    Root = Root NoOne = NoOne
    Folders = {d1, d2}
    Files = {f1}
    Names = {n1}
    Levels = {"view", "download"}
    Slugs = {g1}
    LongSlugs = {g2}
    Requests = {r1, r2}
INVARIANTS TypeOK TreeSound  ActiveBacked
PROPERTIES WholeTree LockReleased
