SPECIFICATION Spec
CONSTANTS
    deploy1 = deploy1
    deploy2 = deploy2
    call1 = call1
    call2 = call2
    k1 = k1
    k2 = k2
    Request <- MCRequest
    Deployments <- MCDeployments
    Worker = {w1, w2}
    Concurrency = 2
    Idle = Idle
    Key = {k1, k2}
    NoKey = NoKey
    Dirty <- MCDirty
PROPERTIES RequestsAnswered
\* A client need not send anything more.
CHECK_DEADLOCK FALSE
