SPECIFICATION FairSpec
CONSTANTS
    p1 = p1
    p2 = p2
    f1 = f1
    a1 = a1
    a2 = a2
    e1 = e1
    e2 = e2
    e3 = e3
    DM = DM
    NoId = NoId
    NoRoll = NoRoll
    Absent = Absent
    NoCall = NoCall
    NoRequest = NoRequest
    RosterSize = 3
    Ids <- MCIds
    Roster <- MCRoster
    PCs <- MCPCs
    RosterName <- MCName
    RosterSeat <- MCSeat
    Encounters = {e1, e2, e3}
    Handlers = {h1, h2}
    MaxVersion = 2
    Requests <- AllRequests
INVARIANTS TurnInSync OpenCallsNeverExpire
PROPERTIES EveryRequestAnswered
