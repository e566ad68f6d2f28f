SPECIFICATION BoundedSpec
CONSTANTS
    p1 = p1
    s1 = s1
    s2 = s2
    text = new
    new = new
    early = early
    late = late
    slot = slot
    DM = DM
    Absent = Absent
    NoSchedule = NoSchedule
    NoSlot = NoSlot
    NoEntry = NoEntry
    NoRequest = NoRequest
    Players = {p1}
    SessionIds = {s1, s2}
    Handlers = {h1, h2}
    Texts = {new}
    Entries = {early, late}
    Slots = {slot}
    Requests <- AllRequests
INVARIANTS EveryScheduleHasATimezone ArchivedPlayersAreOut SlotStandsOnWhatWasShown
PROPERTIES LockedScheduleTakesNoEntry
SYMMETRY HandlersAlike
