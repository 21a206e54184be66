SPECIFICATION FairSpec
CONSTANTS
    Sessions = {c1, c2}
    Clients = {c1, c2}
    Users = {u1}
    r1 = r1
    Rooms = {r1}
    DefaultRoom = r1
    NoRoom = NoRoom
    NoSession = NoSession
    MaxJoins = 1
    MaxRelays = 6
    Candidates = 1
    Leavers = {c1}
    Losers = {}
CHECK_DEADLOCK FALSE
PROPERTIES
    PairConnects
    LeaveEnds
