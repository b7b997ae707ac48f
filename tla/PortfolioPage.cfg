SPECIFICATION Spec
CONSTANTS
    p1 = p1
    p2 = p2
    Pools = {p1, p2}
    Pages = {"portfolio"}
    Me = me
    Others = {other}
    NoOne = nobody
    NoModal = NoModal
    MAX_BATCH_SIZE = 1
    MaxIds = 2
    MaxOthersMoves = 1
    MaxCalls = 2
    MaxLoads = 3
    MaxInFlight = 2
INVARIANT CallsNameWhatWasShown
CHECK_DEADLOCK FALSE
