----------------------------- MODULE MC_Harnesses -----------------------------
(* Instantiates BenchHarness, MsmSetup and TestClient side by side for    *)
(* TLC: a behaviour is one run of a benchmark harness, one SetupMsmG1     *)
(* call (the GPU path that the icicle backend of bench/main.go exercises  *)
(* in icicle builds), or one test client built and asked to               *)
(* DisperseAndVerify.  The parts not taken stay in a state they end in.  *)
EXTENDS BenchHarness

CONSTANTS RowLengths, MaxRows, RelayIDs, QuorumIDs, MaxKeys, MaxBlobSizes, SRSNumbers

VARIABLES
    part,           \* "bench", "msm" or "client"
    rows, points, next, stream, cfgStream, mem, msmPc, ret,
    config, clientPc, clientRet, relayKeys, quorums, i, reads

Msm == INSTANCE MsmSetup WITH pc <- msmPc
Client == INSTANCE TestClient WITH pc <- clientPc, ret <- clientRet

msmVars == <<rows, points, next, stream, cfgStream, mem, msmPc, ret>>
clientVars == <<config, clientPc, clientRet, relayKeys, quorums, i, reads>>
allVars == <<part, vars, msmVars, clientVars>>

\* A benchmark process that exited on a fatal setup error.
BenchExited ==
    /\ harness = "rs" /\ minLen = 0 /\ maxLen = 0 /\ numChunks = 0
    /\ enableVerify = FALSE /\ proverOK = TRUE /\ blobLength = 0
    /\ results = <<>> /\ pc = "exited" /\ exit = "fatal"

\* A SetupMsmG1 call on no rows that returned the CreateStream error.
MsmReturned ==
    /\ rows = <<>> /\ points = 0 /\ next = 1
    /\ stream = "none" /\ cfgStream = FALSE /\ mem = "none"
    /\ msmPc = "done" /\ ret = "stream"

\* A NewTestClient call that found no private key.
ClientReturned ==
    /\ \E m \in MaxBlobSizes :
          config = [keyPath |-> FALSE, keyFileReadable |-> FALSE, keyVar |-> FALSE,
                    envHasKey |-> FALSE, maxBlobSize |-> m, srsNumberToLoad |-> m \div 32]
    /\ clientPc = "done" /\ clientRet = "keyError"
    /\ relayKeys = <<>> /\ quorums = <<>> /\ i = 1 /\ reads = {}

HarnessInit ==
    \/ part = "bench" /\ Init /\ MsmReturned /\ ClientReturned
    \/ part = "msm" /\ Msm!Init /\ BenchExited /\ ClientReturned
    \/ part = "client" /\ Client!Init /\ BenchExited /\ MsmReturned

BenchStep == Next /\ UNCHANGED <<part, msmVars, clientVars>>
MsmStep == Msm!Next /\ UNCHANGED <<part, vars, clientVars>>
ClientStep == Client!Next /\ UNCHANGED <<part, vars, msmVars>>

\* The benchmark's goroutine and the test client's caller keep the weak
\* fairness of their own specifications.
HarnessSpec ==
    /\ HarnessInit /\ [][BenchStep \/ MsmStep \/ ClientStep]_allVars
    /\ WF_allVars(BenchStep) /\ WF_allVars(ClientStep)

\* See MsmSetup: no failing step leaves its device resources unreferenced.
NoDeviceResourceLeak == Msm!NoDeviceResourceLeak

\* See TestClient: DisperseAndVerify succeeds only if every copy matched.
EveryCopyMatched == Client!EveryCopyMatched

================================================================================
