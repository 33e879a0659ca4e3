SPECIFICATION ShardSpec
CONSTANTS
    c1 = c1
    c2 = c2
    Calls = {c1, c2}
    Endpoints = {1, 2}
    Fallback = 0
    Points <- CallPoints
    Hashes <- HashValues
    KeyHash <- HashOfKey
    Placements <- Straight
    Limit = 1
    MaxChanges = 0
CHECK_DEADLOCK FALSE
INVARIANT SameKeySameEndpoint
