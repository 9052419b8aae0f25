SPECIFICATION FoldersSpec
CONSTANTS
    f1 = f1
    f2 = f2
    f3 = f3
    u1 = u1
    u2 = u2
    User = {u1, u2}
    Req = {r1, r2}
    DbFails = FALSE
    Folder = {f1, f2, f3}
    FolderUser <- TwoOwners
    Root = Root
    MaxMoves = 2
    MaxTodo = 3
CHECK_DEADLOCK FALSE
INVARIANT
    Acyclic
