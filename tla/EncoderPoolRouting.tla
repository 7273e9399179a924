--------------------------- MODULE EncoderPoolRouting ---------------------------
(***************************************************************************)
(* The encoder pool manager of src/disperser/encoder/pool.go: reading a   *)
(* route configuration file (ReadConfig), building the manager from it     *)
(* (CreatePoolManagerFromConfig, NewPoolManager) and routing a blob to a   *)
(* pool by size (GetEncoderForSize, EncodeBlob).                           *)
(* sort.Slice needs a strict ordering; the code's less function is        *)
(* MinSize >= MinSize, so the result is whatever the standard library     *)
(* does: for fewer than 13 elements pdqsort runs an insertion sort that   *)
(* swaps element j left while less(j, j-1).                               *)
(***************************************************************************)
EXTENDS Naturals, Sequences, SequencesExt, FiniteSets

CONSTANTS
    Targets,        \* TargetService values (model values)
    MinSizes,       \* MinSize values a route may have
    Sizes,          \* blob sizes routed
    MaxRoutes,      \* longest route list configured
    ParsedTimeout   \* the duration a well-formed timeout string parses to

ASSUME MaxRoutes \in 1..12   \* the insertion-sort regime of sort.Slice

\* Route.Timeout strings, abstracted: empty, well-formed, malformed.
TimeoutStrings == {"", "valid", "malformed"}
Route == [minSize : MinSizes, target : Targets, timeout : TimeoutStrings]

VARIABLES
    routes,             \* EncoderPoolConfig.Routes
    refreshInterval,    \* EncoderPoolConfig.RefreshInterval: "valid" or "malformed"
    clientFails,        \* targets for which NewEncoderClient returns an error
    pools,              \* PoolManager.Pools once built
    err,                \* "none" or the error ReadConfig or CreatePoolManagerFromConfig returned
    pc                  \* "read", "config" or "built"

vars == <<routes, refreshInterval, clientFails, pools, err, pc>>

Pool == [minSize : MinSizes, target : Targets, timeout : {0, ParsedTimeout}]

TypeOK ==
    /\ routes \in Seq(Route)
    /\ refreshInterval \in {"valid", "malformed"}
    /\ clientFails \subseteq Targets
    /\ pools \in Seq(Pool)
    /\ err \in {"none", "read", "parse", "timeout", "refreshInterval", "client"}
    /\ pc \in {"read", "config", "built"}

Init ==
    /\ routes \in UNION {[1..k -> Route] : k \in 1..MaxRoutes}
    /\ refreshInterval \in {"valid", "malformed"}
    /\ clientFails \in SUBSET Targets
    /\ pools = <<>>
    /\ err = "none"
    /\ pc = "read"

\* The less function of lines 49-51 and its plausible misreading.
Less_ascending(a, b) == a.minSize <= b.minSize

Less(a, b) == a.minSize >= b.minSize

\* insertionSortLessFunc of Go's sort package, element j sinking left.
RECURSIVE SinkLeft(_, _)
SinkLeft(s, j) ==
    IF j > 1 /\ Less(s[j], s[j - 1])
      THEN SinkLeft([s EXCEPT ![j] = s[j - 1], ![j - 1] = s[j]], j - 1)
      ELSE s

RECURSIVE InsertionSort(_, _)
InsertionSort(s, i) ==
    IF i > Len(s) THEN s ELSE InsertionSort(SinkLeft(s, i), i + 1)

\* Lines 79-92: the pool of a route; an empty timeout stays zero.
ToPool(r) ==
    [minSize |-> r.minSize, target |-> r.target,
     timeout |-> IF r.timeout = "" THEN 0 ELSE ParsedTimeout]

\* Lines 78-92: make([]EncoderPool, n) filled by index.  The variant
\* appends to the made slice, so n zero-valued pools come first.
ZeroPool == [minSize |-> 0, target |-> "", timeout |-> 0]

PoolsFromRoutes(rs) == [i \in 1..Len(rs) |-> ToPool(rs[i])]

(* CreatePoolManagerFromConfig (lines 77-100) with NewPoolManager (lines  *)
(* 39-57): a malformed timeout, then a malformed refresh interval, then a *)
(* failing client constructor end the call with an error; otherwise the  *)
(* pools are sorted in place and kept.                                    *)
CreatePoolManagerFromConfig ==
    /\ pc = "config"
    /\ pc' = "built"
    /\ CASE \E i \in 1..Len(routes) : routes[i].timeout = "malformed"
                -> err' = "timeout" /\ UNCHANGED pools
         [] refreshInterval = "malformed"
                -> err' = "refreshInterval" /\ UNCHANGED pools
         [] \E i \in 1..Len(routes) : routes[i].target \in clientFails
                -> err' = "client" /\ UNCHANGED pools
         [] OTHER
                -> /\ pools' = InsertionSort(PoolsFromRoutes(routes), 2)
                   /\ UNCHANGED err
    /\ UNCHANGED <<routes, refreshInterval, clientFails>>

(* ReadConfig (lines 103-118): os.ReadFile, then json.Unmarshal, may fail  *)
(* and end the call with the zero config; otherwise the parsed config is  *)
(* handed to CreatePoolManagerFromConfig.  The file's content is the      *)
(* routes and interval of Init.                                          *)
ReadConfig ==
    /\ pc = "read"
    /\ \/ err' \in {"read", "parse"} /\ pc' = "built"
       \/ pc' = "config" /\ UNCHANGED err
    /\ UNCHANGED <<routes, refreshInterval, clientFails, pools>>

\* The manager, once built, is never changed again.
Next == ReadConfig \/ CreatePoolManagerFromConfig

Spec == Init /\ [][Next]_vars

\* Lines 59-66: the first pool, in sorted order, whose MinSize the size meets.
GetEncoderForSize(size) ==
    IF \E i \in 1..Len(pools) : size >= pools[i].minSize
      THEN [found |-> TRUE,
            pool |-> pools[CHOOSE i \in 1..Len(pools) :
                              /\ size >= pools[i].minSize
                              /\ \A k \in 1..(i - 1) : size < pools[k].minSize]]
      ELSE [found |-> FALSE]

-----------------------------------------------------------------------------
(***************************************************************************)
(* Properties.                                                            *)
(***************************************************************************)

\* The route the manager picks for a blob is a pool with the largest MinSize
\* not above the blob's size, and there is no route exactly when every
\* MinSize is above it: what sorting "by MinSize in descending order" (line
\* 48) is for, even though the less function of line 50 is not strict.
RoutesToTightestPool ==
    (pc = "built" /\ err = "none") =>
        \A size \in Sizes :
            LET fits == {pools[i].minSize : i \in 1..Len(pools)} \cap 0..size
                r    == GetEncoderForSize(size)
            IN  IF fits = {} THEN ~r.found
                ELSE r.found /\ \A m \in fits : r.pool.minSize >= m

================================================================================
