SPECIFICATION Spec
CONSTANTS
    Sessions = {c1, c2, c3}
    Clients = {c1, c2, c3}
    Users = {u1}
    r1 = r1
    Rooms = {r1}
    DefaultRoom = r1
    NoRoom = NoRoom
    NoSession = NoSession
    MaxJoins = 1
    MaxRelays = 6
    Candidates = 0
    Leavers = {}
    Losers = {}
SYMMETRY Symmetry
CHECK_DEADLOCK FALSE
INVARIANT QuietCallIsComplete
