------------------------- MODULE MC_NodeClientManager -------------------------
EXTENDS NodeClientManager, TLC

CONSTANTS c1, c2, h1, h2, p1, p2

MCCallers == {c1, c2}
MCHosts == {h1, h2}
MCPorts == {p1, p2}

\* Callers are interchangeable goroutines.
CallerSymmetry == Permutations(MCCallers)

================================================================================
