SPECIFICATION Spec
CONSTANTS
    u1 = u1 u2 = u2 s1 = s1 s2 = s2 m1 = m1 m2 = m2 n1 = n1 n2 = n2 r1 = r1 r2 = r2 r3 = r3
    NoUser = NoUser NoFile = NoFile NoName = NoName
    Users = {u1, u2}
    Files = {s1, m1}
    Names = {n1}
    Parts = {1}
    Requests = {r1, r2}
    Owner <- MCOwner
    Size <- MCSize
    Quota = 2
    MaxFileSize = 9
    MultipartThreshold <- MCThreshold
    Faults = {"refused", "lost", "crash"}
SYMMETRY RequestSymmetry
INVARIANTS TypeOK ActiveBacked 
PROPERTIES NoResurrection 
ACTION_CONSTRAINT EarlyFaults
CHECK_DEADLOCK FALSE
