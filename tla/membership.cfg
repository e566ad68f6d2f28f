SPECIFICATION Spec
CONSTANTS
    dm = dm
    ann = ann
    NoUser = NoUser
    NoPlayer = NoPlayer
    Absent = Absent
    NoRequest = NoRequest
    Users = {dm, ann}
    PlayerIds = {i1, i2, i3, i4}
    Handlers = {h1, h2}
    Requests <- AllRequests
INVARIANTS MembersMatchTheirPlayers CompanionsFollowOwners NoStrays
SYMMETRY Alike
