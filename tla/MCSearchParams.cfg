\* One URL, two objects, lists of up to two pairs.
SPECIFICATION Spec
CONSTANTS
    Urls = {"u"}
    Objs = {o, p}
    Names <- MCNames
    Values <- MCValues
    Searches <- MCSearches
    Rests = {"r1", "r2"}
    MaxPairs = 2
SYMMETRY Symmetry
INVARIANT QueryHoldsList
PROPERTIES ImplementsParamList WritesLeaveCanonicalQuery
