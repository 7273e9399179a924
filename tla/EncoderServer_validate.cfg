\* A single goroutine with an invalid request takes a running slot.
CONSTANTS
    Requests = {r1, r2}
    RequestPoolSize = 2
    MaxConcurrentRequests = 1
SPECIFICATION Spec
INVARIANT InvalidNeverRuns
