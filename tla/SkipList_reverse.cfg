\* ZREVRANGEBYSCORE: three members, nodes of one or two levels.
SPECIFICATION Spec
CONSTANTS
    Member = {0, 1, 2}
    Score = {0, 1}
    Delta = {1}
    Heights = 2
INVARIANT
    ReverseRangeComplete
