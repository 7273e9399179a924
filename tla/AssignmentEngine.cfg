\* Every snapshot of up to three operators with stakes 0..3 (ties, zero
\* stakes, one operator holding all stake), NumChunks from 1 (fewer chunks
\* than operators) to 10 (spec.md 8.3 scaled: stakes 2,1,1 give 5,3,2), and
\* a cap of 2 or 3 operators; and every GetChunkLength argument of the
\* instance of ChunkLength in MC_AssignmentEngine (16-bit word, blob lengths
\* to 1100 and powers of two to 2^15, CodingRate 1 or 8, NumChunks 0, 8 or
\* 8192); and every route list of up to three routes over MinSizes 0, 8
\* and 16 (so equal MinSizes occur), routed with sizes below, between, on
\* and above them.  A behaviour is one call, so it ends.
CONSTANTS
    o1 = o1
    o2 = o2
    o3 = o3
    t1 = t1
    t2 = t2
    MinSizes = {0, 8, 16}
    Sizes = {0, 4, 8, 12, 16, 20}
    MaxRoutes = 3
    ParsedTimeout = 10
    NilParams = NilParams
    Operators <- MCOperators
    OperatorIndex <- MCOperatorIndex
    StakeValues = {0, 1, 2, 3}
    NumChunksValues = {1, 2, 3, 4, 7, 10}
    MaxNumOperatorsValues = {2, 3}
SPECIFICATION AssignmentCalls
CHECK_DEADLOCK FALSE
INVARIANT TypeOK
INVARIANT ExactCover
INVARIANT MatchesReference
INVARIANT ChunkLengthWithinWord
 
INVARIANT RoutesToTightestPool
