------------------------------- MODULE MsmSetup -------------------------------
(***************************************************************************)
(* SetupMsmG1 of src/encoding/icicle/msm_setup.go (GPU builds): flatten  *)
(* the SRS rows into icicle points, create a device stream, allocate      *)
(* device memory for the precomputed bases and precompute them.  Each of *)
(* the three device calls may fail.  The points are abstracted to their   *)
(* number.  One behaviour is one call.                                   *)
(***************************************************************************)
EXTENDS Naturals, Sequences, SequencesExt

CONSTANTS
    RowLengths,     \* lengths a row of rowsG1 may have
    MaxRows         \* most rows in rowsG1

VARIABLES
    rows,       \* the lengths of the rows of rowsG1
    points,     \* len(rowsG1Icicle)
    next,       \* the next row the loop of lines 20-22 converts
    stream,     \* "none", "live": the stream of line 29
    cfgStream,  \* cfgBn254.StreamHandle is set (line 33)
    mem,        \* "none", "allocated", "freed": precomputeOut's device memory
    pc,         \* "convert", "stream", "malloc", "precompute", "done"
    ret         \* "success" or the failing step, once returned

vars == <<rows, points, next, stream, cfgStream, mem, pc, ret>>

Init ==
    /\ rows \in UNION {[1..k -> RowLengths] : k \in 0..MaxRows}
    /\ points = 0 /\ next = 1
    /\ stream = "none" /\ cfgStream = FALSE /\ mem = "none"
    /\ pc = "convert" /\ ret = "pending"

Return(r) == pc' = "done" /\ ret' = r

\* Lines 20-22: one row converted and appended; then the config (25-27).
Convert ==
    /\ pc = "convert"
    /\ IF next <= Len(rows)
         THEN points' = points + rows[next] /\ next' = next + 1 /\ UNCHANGED <<pc, ret>>
         ELSE pc' = "stream" /\ UNCHANGED <<points, next, ret>>
    /\ UNCHANGED <<rows, stream, cfgStream, mem>>

CreateStream_noHandle ==
    /\ pc = "stream"
    /\ \/ Return("stream") /\ UNCHANGED <<stream, cfgStream>>
       \/ stream' = "live" /\ pc' = "malloc" /\ UNCHANGED <<ret, cfgStream>>
    /\ UNCHANGED <<rows, points, next, mem>>

\* Lines 29-33: CreateStream; on failure the call returns the error.
CreateStream ==
    /\ pc = "stream"
    /\ \/ Return("stream") /\ UNCHANGED <<stream, cfgStream>>
       \/ stream' = "live" /\ cfgStream' = TRUE /\ pc' = "malloc" /\ UNCHANGED ret
    /\ UNCHANGED <<rows, points, next, mem>>

(* Lines 38-45: rowsG1IcicleCopy[0] indexes the first point, a panic when *)
(* there is none; MallocAsync of points * PrecomputeFactor elements may   *)
(* fail, and the call returns.                                            *)
Malloc ==
    /\ pc = "malloc"
    /\ IF points = 0
         THEN Return("panic") /\ UNCHANGED mem
         ELSE \/ Return("malloc") /\ UNCHANGED mem
              \/ mem' = "allocated" /\ pc' = "precompute" /\ UNCHANGED ret
    /\ UNCHANGED <<rows, points, next, stream, cfgStream>>

(* Lines 47-54: PrecomputeBases; on failure the memory is freed on the    *)
(* stream (line 49) before returning; otherwise it is returned.          *)
Precompute_noFree ==
    /\ pc = "precompute"
    /\ \/ Return("precompute") /\ UNCHANGED mem
       \/ Return("success") /\ UNCHANGED mem
    /\ UNCHANGED <<rows, points, next, stream, cfgStream>>

Precompute ==
    /\ pc = "precompute"
    /\ \/ Return("precompute") /\ mem' = "freed"
       \/ Return("success") /\ UNCHANGED mem
    /\ UNCHANGED <<rows, points, next, stream, cfgStream>>

Next == Convert \/ CreateStream \/ Malloc \/ Precompute

Spec == Init /\ [][Next]_vars

-----------------------------------------------------------------------------
\* Whatever step fails, no device resource the call created is left
\* unreferenced: the memory is freed on an error return (line 49) and only
\* the success return hands it over as precomputeOut; a stream created at
\* line 29 is named by the config every later return hands back (lines 44,
\* 50, 54), so the caller can destroy it.  A panic returns nothing.
NoDeviceResourceLeak ==
    pc = "done" =>
        /\ mem = "allocated" <=> ret = "success"
        /\ ret # "panic" /\ stream = "live" => cfgStream

================================================================================
