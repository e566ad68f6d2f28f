SPECIFICATION Spec
CONSTANTS
    p1 = p1
    p2 = p2
    q1 = q1
    e1 = e1
    e2 = e2
    old = old
    new = new
    DM = DM
    Absent = Absent
    NoEntry = NoEntry
    NoCall = NoCall
    Players = {p1, p2}
    RequestIds = {q1}
    EntryIds = {e1, e2}
    Contents = {old, new}
    Handlers = {h1, h2}
    Calls <- AllCalls
INVARIANTS ApprovedNamesItsEntry OutcomeMatchesRequest 
PROPERTY DecidedIsFinal
SYMMETRY HandlersAlike
