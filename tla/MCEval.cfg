\* Documents of three fields, evaluated by the script and by the API.
CONSTANTS
    a = a
    b = b
    l = l
    t1 = t1
    t2 = t2
    c1 = c1
    c2 = c2
    unknown = unknown
    id = id
    p = p
    q = q
    ghost = ghost
    Null = Null
    Fields = {a, b, l}
    Tables = {t1, t2}
    TableOf <- MCTableOf
    PrimaryKeys = {l}
    Collections = {c1, c2, unknown}
    Paths = {id, p, q, ghost}
    Id = id
    DestFields <- MCDestFields
    Transforms = {"to_string", "to_number"}
    Transform <- MCTransform
    Goldens <- MCGoldens
    Candidates <- MCCandidates
    Judgements = {200, 1000}
SPECIFICATION FairSpec
INVARIANTS
    TypeOK
    NothingSlips
    FixShows
    HeuristicComplete
    MeanWithin
PROPERTY
    EvaluationEnds
