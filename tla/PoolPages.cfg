SPECIFICATION Spec
CONSTANTS
    p1 = p1
    p2 = p2
    Pools = {p1, p2}
    Pages = {"chain", "portfolio", "market"}
    Me = me
    Others = {other}
    NoOne = nobody
    NoModal = NoModal
    MAX_BATCH_SIZE = 1
    MaxIds = 2
    MaxOthersMoves = 1
    MaxCalls = 2
    MaxLoads = 3
    MaxInFlight = 2
SYMMETRY PoolSymmetry
INVARIANTS  OwnCallsAreSeen
CHECK_DEADLOCK FALSE
