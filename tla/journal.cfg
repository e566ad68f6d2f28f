SPECIFICATION Spec
CONSTANTS
    p = p
    q = q
    l1 = l1
    l2 = l2
    l3 = l3
    n1 = n1
    n2 = n2
    x1 = x1
    x2 = x2
    x3 = x3
    k1 = k1
    k2 = k2
    None = None
    Elsewhere = Elsewhere
    Players = {p, q}
    Locations = {l1, l2, l3}
    Npcs = {n1, n2}
    PinIds = {x1, x2, x3}
    Keys = {k1, k2}
    Handlers = {h1, h2}
    Scenarios <- AllScenarios
INVARIANTS CloneOnce PinsFollowEntities ImagesStayStored
CHECK_DEADLOCK FALSE
SYMMETRY HandlersAlike
