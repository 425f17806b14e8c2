\* README.md:270-271, with requests that overlap.
CONSTANTS
    acme = acme
    globex = globex
    acmeAdmin = acmeAdmin
    acmeViewer = acmeViewer
    acmeSpare = acmeSpare
    globexAdmin = globexAdmin
    s1 = s1
    s2 = s2
    Null = Null
    Tenants = {acme}
    KeyIds = {acmeAdmin, acmeViewer}
    KeyTenant <- OneKeyTenant
    KeyRole <- OneKeyRole
    SeededKeys = {acmeAdmin, acmeViewer}
    SeededConfig <- OneConfig
    TicksPerMinute = 2
    Workers = {w1, w2}
    Limits = {1}
    Settings = {s1}
    Updates = {}
    MaxClock = 1
    MaxChecked = 2
SPECIFICATION Spec
INVARIANT
    RateKept
