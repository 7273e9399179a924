\* Three handler goroutines, a pool of two and one running slot: calls get
\* rejected, park on the running slot and are woken by popRequest.  No
\* symmetry: it is unsound for the liveness and refinement properties.
CONSTANTS
    Requests = {r1, r2, r3}
    RequestPoolSize = 2
    MaxConcurrentRequests = 1
SPECIFICATION Spec
INVARIANT TypeOK
INVARIANT TokenConservation
INVARIANT RunningBound
PROPERTY CallsReturn
PROPERTY GatesRefined
