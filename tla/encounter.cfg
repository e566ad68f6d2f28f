SPECIFICATION PlayedSpec
CONSTANTS
    p1 = p1
    p2 = p2
    f1 = f1
    a1 = a1
    e1 = e1
    e2 = e2
    DM = DM
    NoId = NoId
    NoRoll = NoRoll
    NoCall = NoCall
    Absent = Absent
    Seats = {0, 1, 2, 3}
    RosterSize = 3
    Ids <- MCIds
    Roster <- MCRoster
    PCs <- MCPCs
    RosterName <- MCName
    RosterSeat <- MCSeat
    Encounters <- MCEncounters
    Requests <- AllRequests
PROPERTIES OrderIsFrozen EveryoneGetsATurn
