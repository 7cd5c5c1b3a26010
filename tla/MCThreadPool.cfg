SPECIFICATION Spec
CONSTANTS
    Workers = {w1, w2}
    Requests = {r1, r2}
    NoRequest = NoRequest
    MaxRequests = 2
    MaxPermits = 2
INVARIANTS
    TypeOK
    WakeupPerRequest
PROPERTY
    ImplementsTaskQueue
