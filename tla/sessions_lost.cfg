SPECIFICATION Spec
CONSTANTS
    p1 = p1
    s1 = s1
    s2 = s2
    text = text
    new = new
    early = early
    late = late
    slot = slot
    DM = DM
    Absent = Absent
    NoSchedule = NoSchedule
    NoSlot = NoSlot
    NoEntry = NoEntry
    NoRequest = NoRequest
    Players = {p1}
    SessionIds = {s1, s2}
    Handlers = {h1, h2}
    Texts = {text, new}
    Entries = {early, late}
    Slots = {slot}
    Requests <- AllRequests
PROPERTIES OnlyOwnEntryReplaced
