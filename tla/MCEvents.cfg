\* Two changes of one user, two relays, two faults; one delivery, two dispatchers,
\* two crashes, two administrators who may do anything.
CONSTANTS
    t1 = t1
    t2 = t2
    e1 = e1
    e2 = e2
    hook = hook
    shop = shop
    depot = depot
    None = None
    Nothing = Nothing
    Txs = {t1, t2}
    Events = {e1, e2}
    TxOf <- MCTxOf
    UserOf <- MCUserOf
    Locking = {t1, t2}
    Relays = {r1, r2}
    Batch = 2
    RelayFirstRetry = 1
    RelayMaxRetry = 2
    DupWindow = 1
    MaxOutages = 2
    Endpoints = {hook}
    Deliveries = {d1}
    EndpointOf <- MCEndpointOf
    EventOf <- MCEventOf
    EventNames = {"created", "deleted"}
    Inputs <- MCInputs
    AllowHttp = FALSE
    Hosts = {shop, depot}
    Tasks = {w1, w2}
    Admins = {a1, a2}
    MaxAttempts = 3
    FirstRetry = 1
    MaxRetry = 2
    Lease = 2
    AttemptTime = 1
    MaxFaults = 2
    MaxChanges = 2
    Changes = {"create", "update", "secret", "delete", "redeliver"}

SPECIFICATION FairSpec
CHECK_DEADLOCK FALSE
INVARIANTS
    StreamIsTheHistory
    OneAttemptAtATime
    SecretIsOfTheHost
PROPERTIES
    CommittedIsPublished
    DeliveriesEnd
    ImplementsChannel
