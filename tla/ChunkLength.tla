------------------------------ MODULE ChunkLength ------------------------------
(***************************************************************************)
(* GetChunkLength of src/core/v2/assignment.go (lines 99-120): the number  *)
(* of symbols per chunk for a blob.  All arithmetic is uint32; the model   *)
(* keeps the wrap-around as arithmetic modulo 2^Width, Width standing for  *)
(* 32 (TLC's integers stop at 2^31, so runs use a smaller Width and blob   *)
(* lengths scaled with it).  One state is one call.                       *)
(***************************************************************************)
EXTENDS Naturals, Bitwise

CONSTANTS
    Width,              \* bit width of uint32
    BlobLengths,        \* blobLength arguments
    CodingRates,        \* BlobVersionParameters.CodingRate values
    NumChunksValues,    \* BlobVersionParameters.NumChunks values
    NilParams           \* model value: blobParams == nil

Word == 2^Width
Params == [CodingRate : CodingRates, NumChunks : NumChunksValues]
Errors == {"errZeroLength", "errNilParams", "errNotPowerOfTwo", "panicDivByZero"}

\* The (uint32, error) pair the function returns.
Fail(e)   == [length |-> 0, err |-> e]
Return(c) == [length |-> c, err |-> "none"]

VARIABLES blobLength, blobParams

vars == <<blobLength, blobParams>>

(* Lines 99-120.  The early returns in the code's order; NumChunks = 0     *)
(* makes the uint32 division panic; the product may wrap before the      *)
(* division; a zero result becomes 1.                                    *)
GetChunkLength_noPowerCheck(len, p) ==
    CASE len = 0                            -> Fail("errZeroLength")
      [] p = NilParams                      -> Fail("errNilParams")
      [] p.NumChunks = 0                    -> Fail("panicDivByZero")
      [] OTHER -> LET c == ((len * p.CodingRate) % Word) \div p.NumChunks
                  IN  Return(IF c = 0 THEN 1 ELSE c)

GetChunkLength(len, p) ==
    CASE len = 0                            -> Fail("errZeroLength")
      [] p = NilParams                      -> Fail("errNilParams")
      [] (len & (len - 1)) # 0              -> Fail("errNotPowerOfTwo")
      [] p.NumChunks = 0                    -> Fail("panicDivByZero")
      [] OTHER -> LET c == ((len * p.CodingRate) % Word) \div p.NumChunks
                  IN  Return(IF c = 0 THEN 1 ELSE c)

Init ==
    /\ blobLength \in BlobLengths
    /\ blobParams \in Params \cup {NilParams}

\* A call has no effect on any state.
Next == UNCHANGED vars

Spec == Init /\ [][Next]_vars

-----------------------------------------------------------------------------
(* The rule of spec.md 4.1 over the integers. *)
IsPowerOfTwo(n) == \E k \in 0..Width : n = 2^k
SpecChunkLength(len, p) ==
    LET c == (len * p.CodingRate) \div p.NumChunks IN IF c = 0 THEN 1 ELSE c
Accepted == GetChunkLength(blobLength, blobParams).err = "none"

\* The bit test of line 109 accepts exactly the non-zero powers of two, and
\* for those, while blobLength * CodingRate fits in a word, the result is the
\* rule of spec.md 4.1 (spec.md 8.4: 1000 is refused, a tiny quotient is 1).
ChunkLengthWithinWord ==
    /\ blobLength # 0 /\ blobParams # NilParams =>
           (blobParams.NumChunks # 0 =>
               (Accepted <=> IsPowerOfTwo(blobLength)))
    /\ Accepted /\ blobLength * blobParams.CodingRate < Word =>
           GetChunkLength(blobLength, blobParams).length = SpecChunkLength(blobLength, blobParams)

================================================================================
