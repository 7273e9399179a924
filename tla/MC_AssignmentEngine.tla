-------------------------- MODULE MC_AssignmentEngine --------------------------
(* Instantiates AssignmentEngine for TLC: three operators with indices     *)
(* 0, 1, 2; the stakes, chunk counts and operator caps are set in the cfg. *)
(* AssignmentCalls puts the two functions of src/core/v2/assignment.go    *)
(* side by side with the encoder pool manager of                          *)
(* src/disperser/encoder/pool.go, which routes blobs by the same sizes: a  *)
(* behaviour is one GetAssignments call, one GetChunkLength call          *)
(* (ChunkLength, with a 16-bit word) or one CreatePoolManagerFromConfig    *)
(* (EncoderPoolRouting).                                                   *)
EXTENDS AssignmentEngine

CONSTANTS o1, o2, o3, t1, t2,
    MinSizes, Sizes, MaxRoutes, ParsedTimeout   \* of EncoderPoolRouting

MCOperators == {o1, o2, o3}
MCOperatorIndex == (o1 :> 0) @@ (o2 :> 1) @@ (o3 :> 2)

VARIABLES
    call,           \* which function the behaviour calls
    blobLength,     \* GetChunkLength's blobLength
    chunkParams,    \* GetChunkLength's blobParams
    routes, refreshInterval, clientFails, pools, poolErr, poolPc
                    \* EncoderPoolRouting's variables

\* Every blob length up to 1100 (1000 and 1024 of spec.md 8.4 among them)
\* and the powers of two up to 2^15; CodingRate 8 and NumChunks 8192 are the
\* values of spec.md 8.4, NumChunks 0 reaches the unchecked division.
CL == INSTANCE ChunkLength
        WITH Width <- 16,
             BlobLengths <- (0..1100) \cup {2^k : k \in 11..15},
             CodingRates <- {1, 8},
             NumChunksValues <- {0, 8, 8192},
             blobParams <- chunkParams

MCTargets == {t1, t2}

PR == INSTANCE EncoderPoolRouting
        WITH Targets <- MCTargets, err <- poolErr, pc <- poolPc

poolVars == <<routes, refreshInterval, clientFails, pools, poolErr, poolPc>>

allVars == <<vars, call, blobLength, chunkParams, poolVars>>

\* A GetAssignments call that has returned the nil-params error: the
\* state of the assignment variables while GetChunkLength is called.
AssignmentReturned ==
    /\ quorumPresent = FALSE /\ members = {} /\ stake = [o \in {} |-> 0]
    /\ total = 0 /\ blobParams = NilParams /\ pc = "done"
    /\ chunkAssignments = <<>> /\ result = NoAssignments /\ err = "nilParams"

ChunkLengthReturned == blobLength = 0 /\ chunkParams = NilParams

\* A manager whose configuration file could not be read.
PoolReturned ==
    /\ routes = <<CHOOSE r \in PR!Route : TRUE>> /\ refreshInterval = "valid"
    /\ clientFails = {} /\ pools = <<>> /\ poolErr = "read" /\ poolPc = "built"

CallsInit ==
    \/ /\ call = "GetAssignments" /\ Init
       /\ ChunkLengthReturned /\ PoolReturned
    \/ /\ call = "GetChunkLength" /\ CL!Init /\ AssignmentReturned /\ PoolReturned
    \/ /\ call = "CreatePoolManager" /\ PR!Init
       /\ AssignmentReturned /\ ChunkLengthReturned

CallsNext ==
    \/ Next /\ UNCHANGED <<call, blobLength, chunkParams, poolVars>>
    \/ PR!Next /\ UNCHANGED <<vars, call, blobLength, chunkParams>>

AssignmentCalls == CallsInit /\ [][CallsNext]_allVars

\* The bit test of line 109 accepts exactly the non-zero powers of two, and
\* below the word bound the length is the rule of spec.md 4.1.
ChunkLengthWithinWord == CL!ChunkLengthWithinWord

RoutesToTightestPool == PR!RoutesToTightestPool

================================================================================
