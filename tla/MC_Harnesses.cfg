\* An 8-bit word stands for uint64.  The flags are powers of two, as their
\* help texts ask, below the values at which the sweep wraps (that case is
\* BenchHarness_wrap.cfg): min above max (nothing to run), lengths skipped for a
\* chunk length below 1 (num-chunks 64), and num-chunks 0.  SetupMsmG1 gets
\* rowsG1 of up to three rows of 0 to 2 points: empty input, empty rows and
\* several rows; every device call fails or succeeds.  The test client gets
\* certificates naming up to two of two relays and two quorums, repeats
\* included, and an SRSNumberToLoad that is set or left to its default.
CONSTANTS
    Width = 8
    MinBlobLengths = {1, 2, 32}
    MaxBlobLengths = {4, 16}
    NumChunksValues = {0, 8, 64}
    RowLengths = {0, 1, 2}
    MaxRows = 3
    RelayIDs = {"r1", "r2"}
    QuorumIDs = {"q0", "q1"}
    MaxKeys = 2
    MaxBlobSizes = {64}
    SRSNumbers = {0, 4}
SPECIFICATION HarnessSpec
CHECK_DEADLOCK FALSE
INVARIANT ResultsMatchSweep
INVARIANT NoDeviceResourceLeak
INVARIANT EveryCopyMatched
