SPECIFICATION Spec
CONSTANTS
    a = a b = b z = z NoKey = NoKey NoAnswer = NoAnswer
    ShardOf <- MCShardOf
    Capacity <- MCCapacity
    Rate <- MCRate
    Keys = {a, b, z}
    NumShards = 1
    MaxKeys = 2
    Cost = 3
    PoolThreads = {1}
    MaxTime = 3
CONSTRAINT ThreadsBound
INVARIANTS TypeOK NeverOverspends HonestRetryAfter
PROPERTIES ImplementsTokenBucket
