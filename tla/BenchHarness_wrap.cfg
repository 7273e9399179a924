\* An 8-bit word stands for uint64.  max-blob-length 128 = 2^(Width-1), a
\* power of two as the flag's help asks (2^63 for the real uint64): the
\* length 128 passes the test of main.go:156, and the doubling gives 0.
\* num-chunks 8 keeps the division defined.  Only the sweep is checked.
CONSTANTS
    Width = 8
    MinBlobLengths = {1}
    MaxBlobLengths = {128}
    NumChunksValues = {8}
SPECIFICATION Spec
CHECK_DEADLOCK FALSE
PROPERTY SweepTerminates
