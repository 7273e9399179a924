\* Two callers, four sockets (two hosts with two ports each), a cache of two
\* entries so a third socket evicts, and at most four clients created.
CONSTANTS
    c1 = c1
    c2 = c2
    h1 = h1
    h2 = h2
    p1 = p1
    p2 = p2
    Callers <- MCCallers
    Hosts <- MCHosts
    Ports <- MCPorts
    CacheSize = 2
    MaxClients = 4
SYMMETRY CallerSymmetry
SPECIFICATION Spec
INVARIANT NoUseAfterClose
