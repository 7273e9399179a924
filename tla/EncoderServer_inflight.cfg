\* One pool token and one running slot are enough: between the two
\* receives of popRequest a second call is admitted.
CONSTANTS
    Requests = {r1, r2}
    RequestPoolSize = 1
    MaxConcurrentRequests = 1
SPECIFICATION Spec
INVARIANT InFlightBound
