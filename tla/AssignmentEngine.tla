---------------------------- MODULE AssignmentEngine ----------------------------
(***************************************************************************)
(* GetAssignments / GetAssignment of src/core/v2/assignment.go: the        *)
(* stake-proportional split of NumChunks chunk indices over the operators *)
(* of one quorum.  One behaviour is one call on one operator-state        *)
(* snapshot.  The order in which the loop of lines 36-44 visits the       *)
(* operators is Go's randomised map order (one Collect step per visit),   *)
(* and sort.Slice is not stable: it may return any order its less         *)
(* function does not contradict.  big.Int arithmetic is exact; Uint64 of  *)
(* a negative big.Int returns the low bits of its absolute value.         *)
(***************************************************************************)
EXTENDS Integers, FiniteSets, Sequences, SequencesExt, Functions, TLC

CONSTANTS
    Operators,              \* operator IDs (model values)
    OperatorIndex,          \* [Operators -> Nat], injective: OperatorInfo.Index
    StakeValues,            \* stakes an operator may have
    NumChunksValues,        \* BlobVersionParameters.NumChunks values
    MaxNumOperatorsValues,  \* BlobVersionParameters.MaxNumOperators values
    NilParams               \* model value: blobParams == nil

ASSUME IsInjective(OperatorIndex) /\ DOMAIN OperatorIndex = Operators

VARIABLES
    quorumPresent,      \* state.Operators has an entry for the quorum
    members,            \* the IDs in that entry
    stake,              \* [members -> stake]
    total,              \* state.Totals[quorum].Stake
    blobParams,         \* NilParams or [NumChunks, MaxNumOperators]
    pc,                 \* "start", "collect" or "done"
    chunkAssignments,   \* the slice built by lines 35-44
    result,             \* the returned map: [IDs -> [StartIndex, NumChunks]]
    err                 \* "none" or the error returned

vars == <<quorumPresent, members, stake, total, blobParams, pc,
          chunkAssignments, result, err>>

Params == [NumChunks : NumChunksValues, MaxNumOperators : MaxNumOperatorsValues]
Errors == {"none", "nilParams", "noOperators", "tooMany", "exceeds", "divByZero"}
NoAssignments == [o \in {} |-> 0]

AbsVal(x) == IF x < 0 THEN -x ELSE x

\* core.RoundUpDivideBig (not under src/): (a + b - 1) / b with big.Int
\* Div, which is Euclidean, hence floor division for b > 0.
RoundUpDivideBig(a, b) == (a + b - 1) \div b

Collected == {chunkAssignments[i].id : i \in 1..Len(chunkAssignments)}

TypeOK ==
    /\ quorumPresent \in BOOLEAN
    /\ members \subseteq Operators
    /\ stake \in [members -> StakeValues]
    /\ total \in Nat
    /\ blobParams \in Params \cup {NilParams}
    /\ pc \in {"start", "collect", "done"}
    /\ chunkAssignments \in Seq([id : Operators, index : Nat, chunks : Nat, stake : StakeValues])
    /\ DOMAIN result \subseteq members
    /\ err \in Errors

\* Any snapshot: a quorum absent from the map, or present with any subset
\* of the operators; Totals is the sum of the member stakes.
Init ==
    /\ quorumPresent \in BOOLEAN
    /\ members \in IF quorumPresent THEN SUBSET Operators ELSE {{}}
    /\ stake \in [members -> StakeValues]
    /\ total = SumFunction(stake)
    /\ blobParams \in Params \cup {NilParams}
    /\ pc = "start"
    /\ chunkAssignments = <<>>
    /\ result = NoAssignments
    /\ err = "none"

Fail(e) ==
    /\ err' = e
    /\ pc' = "done"
    /\ UNCHANGED <<chunkAssignments, result>>

\* Lines 12-23: the three early returns, in the code's order.
Validate ==
    /\ pc = "start"
    /\ CASE blobParams = NilParams                            -> Fail("nilParams")
         [] ~quorumPresent                                    -> Fail("noOperators")
         [] Cardinality(members) > blobParams.MaxNumOperators -> Fail("tooMany")
         [] OTHER -> pc' = "collect" /\ UNCHANGED <<chunkAssignments, result, err>>
    /\ UNCHANGED <<quorumPresent, members, stake, total, blobParams>>

(* Lines 25-44, one iteration of the range over the quorum's map: chunks  *)
(* = ceil(stake * (NumChunks - numOperators) / total), then uint32 of its *)
(* Uint64 (the absolute value; the bounded values never reach 2^32).      *)
(* big.Int Div by a zero total panics.                                   *)
Collect(id) ==
    /\ pc = "collect"
    /\ id \in members \ Collected
    /\ IF total = 0
         THEN Fail("divByZero")
         ELSE LET num == stake[id] * (blobParams.NumChunks - Cardinality(members))
              IN  /\ chunkAssignments' = Append(chunkAssignments,
                        [id |-> id, index |-> OperatorIndex[id],
                         chunks |-> AbsVal(RoundUpDivideBig(num, total)),
                         stake |-> stake[id]])
                  /\ UNCHANGED <<pc, result, err>>
    /\ UNCHANGED <<quorumPresent, members, stake, total, blobParams>>

\* The less function of lines 47-52: decreasing stake, then increasing index.
Less_noTieBreak(a, b) == a.stake > b.stake

Less(a, b) ==
    IF a.stake = b.stake THEN a.index < b.index ELSE a.stake > b.stake

\* The orders sort.Slice may leave: no later element is less than an earlier.
SortedOrders(s) ==
    {t \in SetToSeqs(Range(s)) :
        \A i, j \in 1..Len(t) : i < j => ~Less(t[j], t[i])}

(* Lines 64-76: the first delta operators of the sorted order get one     *)
(* more chunk; ranges are laid out back to back from index 0.             *)
RECURSIVE AssignFrom_byIndex(_, _, _, _)
AssignFrom_byIndex(s, i, delta, start) ==
    IF i > Len(s) THEN NoAssignments
    ELSE LET c == IF i - 1 < delta THEN s[i].chunks + 1 ELSE s[i].chunks
         IN  (s[i].index :> [StartIndex |-> start, NumChunks |-> c])
                @@ AssignFrom_byIndex(s, i + 1, delta, start + c)

RECURSIVE AssignFrom_offByOne(_, _, _, _)
AssignFrom_offByOne(s, i, delta, start) ==
    IF i > Len(s) THEN NoAssignments
    ELSE LET c == IF i - 1 <= delta THEN s[i].chunks + 1 ELSE s[i].chunks
         IN  (s[i].id :> [StartIndex |-> start, NumChunks |-> c])
                @@ AssignFrom_offByOne(s, i + 1, delta, start + c)

RECURSIVE AssignFrom(_, _, _, _)
AssignFrom(s, i, delta, start) ==
    IF i > Len(s) THEN NoAssignments
    ELSE LET c == IF i - 1 < delta THEN s[i].chunks + 1 ELSE s[i].chunks
         IN  (s[i].id :> [StartIndex |-> start, NumChunks |-> c])
                @@ AssignFrom(s, i + 1, delta, start + c)

(* Lines 46-78 once the loop has visited every operator: sort, sum the   *)
(* chunks (lines 54-57), fail if they exceed NumChunks (lines 59-62),     *)
(* assign the ranges.                                                    *)
Finish ==
    /\ pc = "collect"
    /\ Collected = members
    /\ \E sorted \in SortedOrders(chunkAssignments) :
         LET mp    == FoldLeft(LAMBDA acc, a : acc + a.chunks, 0, sorted)
             delta == blobParams.NumChunks - mp
         IN  IF delta < 0
               THEN Fail("exceeds")
               ELSE /\ result' = AssignFrom(sorted, 1, delta, 0)
                    /\ pc' = "done"
                    /\ UNCHANGED <<chunkAssignments, err>>
    /\ UNCHANGED <<quorumPresent, members, stake, total, blobParams>>

\* A behaviour ends when the call returns (pc = "done").
Next == Validate \/ (\E id \in Operators : Collect(id)) \/ Finish

Spec == Init /\ [][Next]_vars

\* Lines 82-97: GetAssignment is GetAssignments plus a map probe.
GetAssignment(id) ==
    IF err # "none" THEN err
    ELSE IF id \in DOMAIN result THEN result[id] ELSE "ErrNotFound"

-----------------------------------------------------------------------------
(***************************************************************************)
(* The algorithm as spec.md 4.1 states it, written declaratively: an      *)
(* operator's place in the order is the number of operators ahead of it, *)
(* its start is the sum of the counts of those ahead of it.               *)
(***************************************************************************)
RefN == Cardinality(members)
RefC == blobParams.NumChunks
RefBase(o) == (stake[o] * (RefC - RefN) + total - 1) \div total
Ahead(p, o) ==
    \/ stake[p] > stake[o]
    \/ stake[p] = stake[o] /\ OperatorIndex[p] < OperatorIndex[o]
RefRank(o) == Cardinality({p \in members : Ahead(p, o)})
RefDelta == RefC - MapThenSumSet(RefBase, members)
RefCount(o) == RefBase(o) + (IF RefRank(o) < RefDelta THEN 1 ELSE 0)
RefAssignment(o) ==
    [StartIndex |-> MapThenSumSet(RefCount, {p \in members : Ahead(p, o)}),
     NumChunks  |-> RefCount(o)]

\* The chunk indices a successful call gives operator o.
Owned(o) == {result[o].StartIndex + k : k \in 0..(result[o].NumChunks - 1)}

Succeeded == pc = "done" /\ err = "none"

-----------------------------------------------------------------------------
(***************************************************************************)
(* Properties.                                                            *)
(***************************************************************************)

\* spec.md 8.1, 8.2: a successful call for a quorum with operators gives
\* every operator a range, the ranges are pairwise disjoint, and together
\* they are exactly [0, NumChunks), whatever the stakes, the map order and
\* the rounding of lines 38-41 and 66-69.
ExactCover ==
    (Succeeded /\ members # {}) =>
        /\ DOMAIN result = members
        /\ UNION {Owned(o) : o \in members} = 0..(blobParams.NumChunks - 1)
        /\ \A o, p \in members : o # p => Owned(o) \cap Owned(p) = {}

\* spec.md 4.1: where NumChunks is at least the number of operators the
\* answer, as GetAssignment reports it for every operator ID, is the one the
\* stated algorithm defines: it depends on the snapshot only, not on Go's
\* map order or on what the unstable sort does with ties.
MatchesReference ==
    (Succeeded /\ members # {} /\ RefN <= RefC) =>
        \A o \in Operators :
            GetAssignment(o) = IF o \in members THEN RefAssignment(o) ELSE "ErrNotFound"

\* spec.md 4.1: a quorum with no registered operators is an error.  The code
\* only errs when the quorum is absent from the map; present but empty, the
\* loops run zero times and an empty map is returned.
NoOperatorsRejected == (pc = "done" /\ members = {}) => err # "none"

================================================================================
