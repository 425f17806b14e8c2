\* Overlapping requests of two tenants, keys that are issued and revoked.
CONSTANTS
    acme = acme
    globex = globex
    acmeAdmin = acmeAdmin
    acmeViewer = acmeViewer
    acmeSpare = acmeSpare
    globexAdmin = globexAdmin
    s1 = s1
    s2 = s2
    Null = Null
    Workers = {w1, w2}
    Tenants = {acme, globex}
    KeyIds = {acmeAdmin, acmeSpare, acmeViewer, globexAdmin}
    KeyTenant <- GateKeyTenant
    KeyRole <- GateKeyRole
    SeededKeys = {acmeAdmin, acmeViewer, globexAdmin}
    Limits = {0, 1}
    Settings = {s1, s2}
    SeededConfig <- MCConfig
    Updates <- SomeUpdates
    TicksPerMinute = 1
    MaxClock = 0
    MaxChecked = 1
SPECIFICATION Spec
SYMMETRY Threads
PROPERTIES
    LockedStays
    NoAdminNoChange
