\* Six values: with fewer no Remove needs up, since the last item then lies below
\* the parent of every other one.
CONSTANTS
    v1 = v1  v2 = v2  v3 = v3  v4 = v4  v5 = v5  v6 = v6
    Values = {v1, v2, v3, v4, v5, v6}
    Priorities = {1, 2, 3}
    NoValue = NoValue
SPECIFICATION Spec
INVARIANTS PeekIsFirst IndexExact
PROPERTIES Implements
SYMMETRY ValueSymmetry
