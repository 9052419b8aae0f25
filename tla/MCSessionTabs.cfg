SPECIFICATION Spec
CONSTANTS
    c1 = c1
    c2 = c2
    c3 = c3
    u1 = u1
    u2 = u2
    u3 = u3
    e1 = e1
    k1 = k1
    a = a
    b = b
    Conn = {c1, c2, c3}
    User = {u1, u2, u3}
    UserOf <- TwoTabs
    Owner = u1
    Elem = {e1}
    Key = {k1}
    Val = {a, b}
    Unset = Unset
    Op <- TwoWrites
    OpsOf <- TwoWriters
    Savers = {c1, c2}
    Texts <- Texts0
    FirstText <- EmptyText
    SendCap = 1
    DbFails = FALSE
    Rest = FALSE
    NoRow = NoRow
    NoRoom = NoRoom
    Notice = Notice
    NoOp = NoOp
    Behind = Behind
INVARIANT
    ToldIsStored
