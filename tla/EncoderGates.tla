----------------------------- MODULE EncoderGates -----------------------------
(***************************************************************************)
(* What the encoder server's two gates promise (spec.md sections 4.4, 5): *)
(* a call is either rejected at once or admitted; at most RequestPoolSize *)
(* calls are admitted at a time, at most MaxConcurrentRequests of them do *)
(* coding work at a time, and an admitted call leaves both gates in one   *)
(* step when it finishes.  No queueing order is promised.                 *)
(***************************************************************************)
EXTENDS Naturals, FiniteSets

CONSTANTS Requests, RequestPoolSize, MaxConcurrentRequests

VARIABLE astate   \* [Requests -> {"idle", "queued", "running"}]

Admitted == {r \in Requests : astate[r] \in {"queued", "running"}}
Running  == {r \in Requests : astate[r] = "running"}

AbsTypeOK == astate \in [Requests -> {"idle", "queued", "running"}]

AbsInit == astate = [r \in Requests |-> "idle"]

\* A new call passes the admission gate only while it has room.
AbsAdmit(r) ==
    /\ astate[r] = "idle"
    /\ Cardinality(Admitted) < RequestPoolSize
    /\ astate' = [astate EXCEPT ![r] = "queued"]

\* An admitted call starts its work only while a running slot is free.
AbsStart(r) ==
    /\ astate[r] = "queued"
    /\ Cardinality(Running) < MaxConcurrentRequests
    /\ astate' = [astate EXCEPT ![r] = "running"]

\* A call that has done (or skipped) its work leaves both gates at once.
AbsFinish(r) ==
    /\ astate[r] = "running"
    /\ astate' = [astate EXCEPT ![r] = "idle"]

AbsNext == \E r \in Requests : AbsAdmit(r) \/ AbsStart(r) \/ AbsFinish(r)

AbsSpec ==
    /\ AbsInit
    /\ [][AbsNext]_astate
    /\ \A r \in Requests : WF_astate(AbsStart(r)) /\ WF_astate(AbsFinish(r))

================================================================================
