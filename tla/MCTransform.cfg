\* type_transforms.py:4-6: the transform follows from the pair of fields.
CONSTANTS
    k = k
    a = a
    b = b
    t1 = t1
    full = full
    partial = partial
    unknown = unknown
    id = id
    p = p
    q = q
    ghost = ghost
    Null = Null
    Fields = {k, a, b}
    Tables = {t1}
    TableOf <- MCTableOf
    PrimaryKeys = {k}
    Collections = {full, partial, unknown}
    Paths = {id, p, q, ghost}
    Id = id
    DestFields <- MCDestFields
    Transforms <- MCTransforms
    Transform <- MCTransform
    Workers = {w1}
    Thresholds = {845, 950}
    TableMatches <- AllTableMatches
    FieldMatches <- AllFieldMatches
    Reviews <- AllReviews
SPECIFICATION Spec
INVARIANT
    TransformFollowsPair
