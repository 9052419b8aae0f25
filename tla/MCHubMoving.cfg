SPECIFICATION Spec
CONSTANTS
    c1 = c1
    c2 = c2
    c3 = c3
    u1 = u1
    u2 = u2
    Conn = {c1, c2}
    User = {u1, u2}
    UserOf <- TwoUsers
    Canvas = {k1, k2}
    RoomId = {r1, r2, r3, r4}
    ChanCap = 1
    Impatient = {}
    Moving = {c1}
    NoCanvas = NoCanvas
    Torn = Torn
    NoRoom = NoRoom
    NoConn = NoConn
    Blank = Blank
SYMMETRY Symmetry
INVARIANTS
    GrantConsistent
    RoomHoldsItsCanvas
