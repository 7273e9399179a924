------------------------------ MODULE BenchHarness ------------------------------
(***************************************************************************)
(* The two encoding benchmarks: main of src/encoding/bench/main.go (KZG    *)
(* prover, default against icicle backend) and of                         *)
(* src/encoding/bench/rs/main.go (RS encoder).  Each sets up, sweeps the   *)
(* blob lengths min-blob-length, 2*min, 4*min, ... up to max-blob-length   *)
(* in runBenchmark, benchmarks each length whose chunk length is at least  *)
(* 1, and writes the results as JSON.  Every log.Fatal ends the process.   *)
(* The calls into the prover and the encoder (not under src/) succeed or   *)
(* fail nondeterministically; uint64 is kept as arithmetic modulo 2^Width. *)
(* One behaviour is one run of one harness, one goroutine.                 *)
(***************************************************************************)
EXTENDS Naturals, Sequences, SequencesExt

CONSTANTS
    Width,              \* bit width of uint64
    MinBlobLengths,     \* values of the min-blob-length flag
    MaxBlobLengths,     \* values of the max-blob-length flag
    NumChunksValues     \* values of the num-chunks flag

Word == 2^Width

\* runBenchmark: "Fixed coding ratio of 8".
CodingRatio == 8

VARIABLES
    harness,        \* "kzg" (bench/main.go) or "rs" (bench/rs/main.go)
    minLen,         \* config.MinBlobLength
    maxLen,         \* config.MaxBlobLength
    numChunks,      \* config.NumChunks
    enableVerify,   \* config.EnableVerify
    proverOK,       \* kzg: the default prover p is non-nil
    blobLength,     \* the loop variable of runBenchmark
    results,        \* the results slice
    pc,             \* "setup", "loop", "bench", "write", "exited"
    exit            \* how the process ended: "none", "fatal", "panic", "written"

vars == <<harness, minLen, maxLen, numChunks, enableVerify, proverOK,
          blobLength, results, pc, exit>>

Init ==
    /\ harness \in {"kzg", "rs"}
    /\ minLen \in MinBlobLengths
    /\ maxLen \in MaxBlobLengths
    /\ numChunks \in NumChunksValues
    /\ enableVerify \in BOOLEAN
    /\ proverOK = TRUE
    /\ blobLength = 0
    /\ results = <<>>
    /\ pc = "setup"
    /\ exit = "none"

Exit(how) == pc' = "exited" /\ exit' = how

\* Setup done: the sweep starts at min-blob-length.
Started(okProver) ==
    /\ pc' = "loop" /\ blobLength' = minLen /\ proverOK' = okProver
    /\ UNCHANGED exit

(* main of bench/main.go, lines 57-120: the error of the default           *)
(* NewProver (line 89) is overwritten by that of the icicle NewProver      *)
(* (line 105), which alone is checked; then the optional CPU profile.       *)
SetupKzg ==
    /\ pc = "setup" /\ harness = "kzg"
    /\ \/ Exit("fatal") /\ UNCHANGED <<proverOK, blobLength>>
       \/ \E ok \in BOOLEAN : Started(ok)
    /\ UNCHANGED <<harness, minLen, maxLen, numChunks, enableVerify, results>>

(* main of bench/rs/main.go, lines 55-89: the device choice cannot fail;  *)
(* creating or starting the CPU profile is fatal on error.                *)
SetupRs ==
    /\ pc = "setup" /\ harness = "rs"
    /\ \/ Exit("fatal") /\ UNCHANGED <<proverOK, blobLength>>
       \/ Started(TRUE)
    /\ UNCHANGED <<harness, minLen, maxLen, numChunks, enableVerify, results>>

\* Line 157 (rs: 124): chunkLen := (blobLength * codingRatio) / NumChunks.
ChunkLen(b) == ((b * CodingRatio) % Word) \div numChunks

\* The loop's post statement blobLength *= 2, run on continue as well.
Doubled(b) == (b * 2) % Word

(* runBenchmark, lines 150-165 (rs: 117-132), the loop test and the skip: *)
(* past max-blob-length the results go to main; a zero num-chunks makes   *)
(* the division panic; a chunk length below 1 continues.                  *)
LoopTest_offByOne ==
    /\ pc = "loop"
    /\ CASE blobLength >= maxLen      -> pc' = "write" /\ UNCHANGED <<blobLength, exit>>
         [] numChunks = 0             -> Exit("panic") /\ UNCHANGED blobLength
         [] ChunkLen(blobLength) < 1  -> blobLength' = Doubled(blobLength) /\ UNCHANGED <<pc, exit>>
         [] OTHER                     -> pc' = "bench" /\ UNCHANGED <<blobLength, exit>>
    /\ UNCHANGED <<harness, minLen, maxLen, numChunks, enableVerify, proverOK, results>>

LoopTest_skipNoAdvance ==
    /\ pc = "loop"
    /\ CASE blobLength > maxLen       -> pc' = "write" /\ UNCHANGED <<blobLength, exit>>
         [] numChunks = 0             -> Exit("panic") /\ UNCHANGED blobLength
         [] ChunkLen(blobLength) < 1  -> UNCHANGED <<blobLength, pc, exit>>
         [] OTHER                     -> pc' = "bench" /\ UNCHANGED <<blobLength, exit>>
    /\ UNCHANGED <<harness, minLen, maxLen, numChunks, enableVerify, proverOK, results>>

LoopTest ==
    /\ pc = "loop"
    /\ CASE blobLength > maxLen       -> pc' = "write" /\ UNCHANGED <<blobLength, exit>>
         [] numChunks = 0             -> Exit("panic") /\ UNCHANGED blobLength
         [] ChunkLen(blobLength) < 1  -> blobLength' = Doubled(blobLength) /\ UNCHANGED <<pc, exit>>
         [] OTHER                     -> pc' = "bench" /\ UNCHANGED <<blobLength, exit>>
    /\ UNCHANGED <<harness, minLen, maxLen, numChunks, enableVerify, proverOK, results>>

\* The result of one benchmark; VerifyResult stays true when not verifying.
Result(verified) ==
    [blobLength |-> blobLength, chunkLen |-> ChunkLen(blobLength),
     verifyResult |-> ~enableVerify \/ verified]

\* The benchmark returned: its result is appended and the loop goes on.
Recorded(verified) ==
    /\ results' = Append(results, Result(verified))
    /\ blobLength' = Doubled(blobLength)
    /\ pc' = "loop"
    /\ UNCHANGED exit

(* benchmarkEncodeAndVerify, lines 167-284: a nil default prover panics   *)
(* at p.GetKzgEncoder; any failing encoder creation, encoding, mismatch   *)
(* between the backends, coset inconsistency or G2 read is log.Fatal; a   *)
(* frame failing VerifyFrame makes VerifyResult false.                    *)
BenchmarkEncodeAndVerify ==
    /\ pc = "bench" /\ harness = "kzg"
    /\ IF ~proverOK
         THEN Exit("panic") /\ UNCHANGED <<results, blobLength>>
         ELSE \/ Exit("fatal") /\ UNCHANGED <<results, blobLength>>
              \/ \E verified \in BOOLEAN : Recorded(verified)
    /\ UNCHANGED <<harness, minLen, maxLen, numChunks, enableVerify, proverOK>>

(* benchmarkRSEncode, lines 134-201 of bench/rs/main.go: EncodeBytes or    *)
(* Decode failing is log.Fatal (the error of NewEncoder, line 141, is not *)
(* checked and ends there too); VerifyResult is whether the data decoded   *)
(* from all the frames (sampleFrames with num = len(frames)) equals the    *)
(* input, length and bytes.                                                *)
BenchmarkRSEncode ==
    /\ pc = "bench" /\ harness = "rs"
    /\ \/ Exit("fatal") /\ UNCHANGED <<results, blobLength>>
       \/ \E verified \in BOOLEAN : Recorded(verified)
    /\ UNCHANGED <<harness, minLen, maxLen, numChunks, enableVerify, proverOK>>

(* main, lines 124-148 (rs: 90-114): the optional heap profile, then      *)
(* json.MarshalIndent and os.WriteFile, each fatal on error.              *)
WriteResults ==
    /\ pc = "write"
    /\ \E ok \in BOOLEAN : Exit(IF ok THEN "written" ELSE "fatal")
    /\ UNCHANGED <<harness, minLen, maxLen, numChunks, enableVerify, proverOK,
                   blobLength, results>>

Next ==
    \/ SetupKzg \/ SetupRs \/ LoopTest \/ BenchmarkEncodeAndVerify \/ BenchmarkRSEncode
    \/ WriteResults

\* One goroutine: whenever it can take a step it does.
Spec == Init /\ [][Next]_vars /\ WF_vars(Next)

-----------------------------------------------------------------------------
\* The lengths the flags ask for: the multiples min * 2^k up to max whose
\* chunk length blobLength * 8 / NumChunks, over the integers, is at least 1.
SweepLengths ==
    SetToSortSeq({b \in {minLen * 2^k : k \in 0..Width} :
                     b <= maxLen /\ (b * CodingRatio) \div numChunks >= 1}, <)

\* Every run of either benchmark ends: it writes its results, or a fatal
\* error or panic stops it.  runBenchmark's loop doubles blobLength on every
\* iteration, continue included; the flags' help asks for powers of two and
\* puts no upper bound on them, and the uint64 doubling wraps to 0.
SweepTerminates == <>(pc = "exited")

\* Results written to the output file are one per length of the sweep, in
\* increasing order, each with chunk length blobLength * 8 / NumChunks: the
\* loop test, the skip of chunkLen < 1 and the doubling of runBenchmark.
ResultsMatchSweep ==
    exit = "written" =>
        /\ [i \in 1..Len(results) |-> results[i].blobLength] = SweepLengths
        /\ \A i \in 1..Len(results) :
               results[i].chunkLen = (results[i].blobLength * CodingRatio) \div numChunks

================================================================================
