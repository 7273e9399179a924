----------------------------- MODULE EncoderServer -----------------------------
(***************************************************************************)
(* The general request pipeline of EncoderServer.EncodeBlob               *)
(* (src/disperser/encoder/server.go).  Every element of Requests is a gRPC *)
(* handler goroutine that serves one call after another.  The two gates   *)
(* are Go buffered channels used as counting semaphores:                  *)
(*   requestPool      capacity RequestPoolSize, non-blocking send (select *)
(*                    with default), so a full pool rejects the call;     *)
(*   runningRequests  capacity MaxConcurrentRequests, blocking send.      *)
(* A blocked sender waits in the channel's FIFO queue of senders; a       *)
(* receive from a full channel with waiting senders hands the freed slot  *)
(* to the first of them (Go runtime chanrecv), so the count of tokens in  *)
(* the buffer stays the same.  popRequest receives from requestPool first *)
(* and from runningRequests second, as two separate steps.                *)
(***************************************************************************)
EXTENDS Naturals, Sequences, FiniteSets

CONSTANTS
    Requests,               \* handler goroutines (model values)
    RequestPoolSize,        \* ServerConfig.RequestPoolSize
    MaxConcurrentRequests   \* ServerConfig.MaxConcurrentRequests

ASSUME RequestPoolSize \in Nat /\ MaxConcurrentRequests \in Nat

VARIABLES
    pc,         \* where each goroutine is in EncodeBlob
    pool,       \* number of tokens in requestPool
    running,    \* number of tokens in runningRequests
    sendq,      \* goroutines blocked sending on runningRequests, FIFO
    cancelled,  \* ctx.Err() != nil for the call being served
    valid,      \* the call has non-empty data and non-nil encoding params
    outcome     \* the metrics counter the last call incremented

vars == <<pc, pool, running, sendq, cancelled, valid, outcome>>

\* Control points of EncodeBlob and the deferred popRequest.
PCs == {"idle",      \* not in a call (between calls)
        "acquire",   \* admitted, about to send on runningRequests (line 66)
        "waiting",   \* blocked in that send
        "check",     \* holds both tokens, about to test ctx.Err() (line 69)
        "encode",    \* in handleEncoding (line 75)
        "popPool",   \* deferred popRequest, first receive (line 87)
        "popRun"}    \* deferred popRequest, second receive (line 88)

Outcomes == {"none", "rateLimited", "canceled", "failed", "success"}

\* Goroutines that hold a token of requestPool / of runningRequests.
PoolHolders    == {r \in Requests : pc[r] \in {"acquire", "waiting", "check", "encode", "popPool"}}
RunningHolders == {r \in Requests : pc[r] \in {"check", "encode", "popPool", "popRun"}}
\* Goroutines inside EncodeBlob past the admission gate.
InFlight       == {r \in Requests : pc[r] # "idle"}

TypeOK ==
    /\ pc \in [Requests -> PCs]
    /\ pool \in Nat
    /\ running \in Nat
    /\ sendq \in Seq(Requests)
    /\ cancelled \in [Requests -> BOOLEAN]
    /\ valid \in [Requests -> BOOLEAN]
    /\ outcome \in [Requests -> Outcomes]

Init ==
    /\ pc = [r \in Requests |-> "idle"]
    /\ pool = 0
    /\ running = 0
    /\ sendq = <<>>
    /\ cancelled = [r \in Requests |-> FALSE]
    /\ valid = [r \in Requests |-> TRUE]
    /\ outcome = [r \in Requests |-> "none"]

-----------------------------------------------------------------------------
(* EncodeBlob, lines 57-65: the non-blocking send on requestPool.  A call  *)
(* arrives with some request (valid or not) and a fresh context.           *)
Admit_offByOne(r) ==
    /\ pc[r] = "idle"
    /\ pool <= RequestPoolSize
    /\ pool' = pool + 1
    /\ pc' = [pc EXCEPT ![r] = "acquire"]
    /\ \E v \in BOOLEAN : valid' = [valid EXCEPT ![r] = v]
    /\ cancelled' = [cancelled EXCEPT ![r] = FALSE]
    /\ outcome' = [outcome EXCEPT ![r] = "none"]
    /\ UNCHANGED <<running, sendq>>

Admit(r) ==
    /\ pc[r] = "idle"
    /\ pool < RequestPoolSize
    /\ pool' = pool + 1
    /\ pc' = [pc EXCEPT ![r] = "acquire"]
    /\ \E v \in BOOLEAN : valid' = [valid EXCEPT ![r] = v]
    /\ cancelled' = [cancelled EXCEPT ![r] = FALSE]
    /\ outcome' = [outcome EXCEPT ![r] = "none"]
    /\ UNCHANGED <<running, sendq>>

\* The default branch: pool full, count the call as rate limited, return.
Reject(r) ==
    /\ pc[r] = "idle"
    /\ pool = RequestPoolSize
    /\ outcome' = [outcome EXCEPT ![r] = "rateLimited"]
    /\ UNCHANGED <<pc, pool, running, sendq, cancelled, valid>>

(* Line 66: the blocking send on runningRequests.  It completes at once   *)
(* while the buffer has room, and otherwise parks the goroutine at the    *)
(* tail of the channel's sender queue.                                    *)
AcquireRunning_offByOne(r) ==
    /\ pc[r] = "acquire"
    /\ IF running <= MaxConcurrentRequests
         THEN /\ running' = running + 1
              /\ pc' = [pc EXCEPT ![r] = "check"]
              /\ UNCHANGED sendq
         ELSE /\ sendq' = Append(sendq, r)
              /\ pc' = [pc EXCEPT ![r] = "waiting"]
              /\ UNCHANGED running
    /\ UNCHANGED <<pool, cancelled, valid, outcome>>

AcquireRunning(r) ==
    /\ pc[r] = "acquire"
    /\ IF running < MaxConcurrentRequests
         THEN /\ running' = running + 1
              /\ pc' = [pc EXCEPT ![r] = "check"]
              /\ UNCHANGED sendq
         ELSE /\ sendq' = Append(sendq, r)
              /\ pc' = [pc EXCEPT ![r] = "waiting"]
              /\ UNCHANGED running
    /\ UNCHANGED <<pool, cancelled, valid, outcome>>

\* The client cancels, or the deadline of the call's context passes.
Cancel(r) ==
    /\ pc[r] \in {"acquire", "waiting", "check"}
    /\ ~cancelled[r]
    /\ cancelled' = [cancelled EXCEPT ![r] = TRUE]
    /\ UNCHANGED <<pc, pool, running, sendq, valid, outcome>>

\* Lines 69-72: a cancelled call counts itself canceled and returns; the
\* deferred popRequest runs.
CheckContext_noReturn(r) ==
    /\ pc[r] = "check"
    /\ pc' = [pc EXCEPT ![r] = IF cancelled[r] THEN "idle" ELSE "encode"]
    /\ outcome' = [outcome EXCEPT ![r] = IF cancelled[r] THEN "canceled" ELSE @]
    /\ UNCHANGED <<pool, running, sendq, cancelled, valid>>

CheckContext(r) ==
    /\ pc[r] = "check"
    /\ pc' = [pc EXCEPT ![r] = IF cancelled[r] THEN "popPool" ELSE "encode"]
    /\ outcome' = [outcome EXCEPT ![r] = IF cancelled[r] THEN "canceled" ELSE @]
    /\ UNCHANGED <<pool, running, sendq, cancelled, valid>>

(* Lines 74-83 with handleEncoding (lines 91-165): an invalid request     *)
(* fails its validation (lines 94-100); a valid one succeeds or fails in  *)
(* EncodeAndProve or serialization.  The context is not consulted again. *)
Encode(r) ==
    /\ pc[r] = "encode"
    /\ \E o \in IF valid[r] THEN {"success", "failed"} ELSE {"failed"} :
           outcome' = [outcome EXCEPT ![r] = o]
    /\ pc' = [pc EXCEPT ![r] = "popPool"]
    /\ UNCHANGED <<pool, running, sendq, cancelled, valid>>

\* popRequest, line 87: <-s.requestPool.
ReleasePool(r) ==
    /\ pc[r] = "popPool"
    /\ pool' = pool - 1
    /\ pc' = [pc EXCEPT ![r] = "popRun"]
    /\ UNCHANGED <<running, sendq, cancelled, valid, outcome>>

(* popRequest, line 88: <-s.runningRequests.  With a sender parked, the   *)
(* receive moves that sender's token into the buffer and wakes it, so it  *)
(* goes on to its context check; otherwise the buffer shrinks by one.     *)
ReleaseRunning_wrongChannel(r) ==
    /\ pc[r] = "popRun"
    /\ pool' = pool - 1
    /\ pc' = [pc EXCEPT ![r] = "idle"]
    /\ UNCHANGED <<sendq, running, cancelled, valid, outcome>>

ReleaseRunning(r) ==
    /\ pc[r] = "popRun"
    /\ IF sendq # <<>>
         THEN /\ pc' = [pc EXCEPT ![r] = "idle", ![Head(sendq)] = "check"]
              /\ sendq' = Tail(sendq)
              /\ UNCHANGED running
         ELSE /\ running' = running - 1
              /\ pc' = [pc EXCEPT ![r] = "idle"]
              /\ UNCHANGED sendq
    /\ UNCHANGED <<pool, cancelled, valid, outcome>>

\* The steps the server's goroutines take (the Go scheduler runs them).
ServerStep(r) ==
    \/ AcquireRunning(r)
    \/ CheckContext(r)
    \/ Encode(r)
    \/ ReleasePool(r)
    \/ ReleaseRunning(r)

\* The steps clients take: new calls and cancellations.
ClientStep(r) == Admit(r) \/ Reject(r) \/ Cancel(r)

Next == \E r \in Requests : ServerStep(r) \/ ClientStep(r)

\* Every runnable goroutine is eventually scheduled; clients need not call.
Fairness == \A r \in Requests : WF_vars(ServerStep(r))

Spec == Init /\ [][Next]_vars /\ Fairness

-----------------------------------------------------------------------------
(***************************************************************************)
(* Properties.                                                            *)
(***************************************************************************)

\* Every token in either channel belongs to exactly one goroutine that will
\* take it out again, and the sender queue holds exactly the parked ones:
\* no exit path of EncodeBlob (rate limit, cancellation, failure, success)
\* leaks a token or takes out one it did not put in.
TokenConservation ==
    /\ pool = Cardinality(PoolHolders)
    /\ running = Cardinality(RunningHolders)
    /\ Len(sendq) = Cardinality({r \in Requests : pc[r] = "waiting"})
    /\ \A i \in 1..Len(sendq) : pc[sendq[i]] = "waiting"

\* At most MaxConcurrentRequests goroutines are past the blocking send on
\* runningRequests (checking their context, encoding or releasing).
RunningBound == Cardinality(RunningHolders) <= MaxConcurrentRequests

\* Every call that passed the admission gate eventually returns: blocked
\* senders are woken by popRequest and nothing waits forever.
CallsReturn == \A r \in Requests : (pc[r] # "idle") ~> (pc[r] = "idle")

\* The view of each goroutine that the abstract gate specification has: a
\* goroutine that has given back its requestPool token has left the gates.
AbsState(r) ==
    CASE pc[r] \in {"acquire", "waiting"}          -> "queued"
      [] pc[r] \in {"check", "encode", "popPool"}  -> "running"
      [] OTHER                                     -> "idle"

ABS == INSTANCE EncoderGates WITH astate <- [r \in Requests |-> AbsState(r)]

\* EncodeBlob with popRequest implements the gate specification of
\* spec.md section 5, including its progress promise.
GatesRefined == ABS!AbsSpec

\* spec.md 5: the reservations are released together, so no more than
\* RequestPoolSize calls are ever inside EncodeBlob past admission.
\* popRequest gives the requestPool token back before the runningRequests one.
InFlightBound == Cardinality(InFlight) <= RequestPoolSize

\* spec.md 4.4 and 7: empty data or missing params fail before any resource
\* beyond admission is taken.  handleEncoding validates only after the
\* blocking send on runningRequests.
InvalidNeverRuns == \A r \in RunningHolders : valid[r]

================================================================================
