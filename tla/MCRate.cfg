\* One request at a time, a limit that changes, refills over time.
CONSTANTS
    acme = acme
    globex = globex
    acmeAdmin = acmeAdmin
    acmeViewer = acmeViewer
    acmeSpare = acmeSpare
    globexAdmin = globexAdmin
    s1 = s1
    s2 = s2
    Null = Null
    Tenants = {acme}
    KeyIds = {acmeAdmin, acmeViewer}
    KeyTenant <- OneKeyTenant
    KeyRole <- OneKeyRole
    SeededKeys = {acmeAdmin, acmeViewer}
    SeededConfig <- OneConfig
    TicksPerMinute = 2
    Workers = {w1}
    Limits = {0, 1, 3}
    Settings = {s1}
    Updates <- LimitUpdates
    MaxClock = 3
    MaxChecked = 5
SPECIFICATION Spec
INVARIANTS
    TypeOK
    RateKept
