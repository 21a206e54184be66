SPECIFICATION ServerRun
CONSTANTS
    Sessions = {s1, s2, s3}
    Users = {u1}
    r1 = r1
    r2 = r2
    Rooms = {r1, r2}
    DefaultRoom = r2
    NoRoom = NoRoom
    NoSession = NoSession
    MaxJoins = 1
    MaxRelays = 1
SYMMETRY ServerSymmetry
CONSTRAINT ServerExplored
INVARIANTS
    ServerTypeOK
    RoomListBacked
    OneMembership
    PairIntroduced
    LeaveAnnounced
    GhostsHaveFailedClose
