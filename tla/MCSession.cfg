\* Two sessions, one of whose workers is also a request thread, on one run or on the builder's thread.
CONSTANTS
    k = k
    a = a
    t1 = t1
    full = full
    unknown = unknown
    id = id
    p = p
    Null = Null
    Fields = {k, a}
    Tables = {t1}
    TableOf <- MCTableOf
    PrimaryKeys = {k}
    Collections = {full, unknown}
    Paths = {id, p}
    Id = id
    DestFields <- MCDestFields
    Transforms = {"to_string"}
    Transform <- MCTransform
    Workers = {w1, w2}
    Thresholds = {845}
    TableMatches <- SomeTableMatches
    FieldMatches <- SomeFieldMatches
    Reviews <- SomeReviews
    Terminals = {w1, w2}
    Threads = {w2}
    Choices <- SomeChoices
SPECIFICATION FairSessionSpec
INVARIANTS
    SessionTypeOK
    NoFieldLost
    VerdictsHonoured
    DestinationsAccounted
    FileSound
    GoldenTrusted
PROPERTY
    SessionReturns
