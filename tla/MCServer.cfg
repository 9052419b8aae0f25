SPECIFICATION Spec
CONSTANTS
    f1 = f1
    f2 = f2
    f3 = f3
    u1 = u1
    u2 = u2
    k1 = k1
    s1 = s1
    s2 = s2
    User = {u1, u2}
    Req = {r1, r2}
    DbFails = TRUE
    Folder = {f1, f2, f3}
    FolderUser <- TwoOwners
    Root = Root
    MaxMoves = 2
    MaxTodo = 3
    Email = {m1}
    Ttl = 1
    MaxTime = 2
    MaxTokens = 3
    MaxEdits = 3
    Canvas = {k1}
    OwnerOf <- OneOwner
    Link = {l1}
    Visit = {v1}
    TokenTtl = 1
    Never = Never
    MaxDay = 2
    Server = {s1, s2}
    Files <- RollingDeploy
    MaxStarts = 4
    PingPeriod = 5
    PongWait = 7
    MaxLate = 6
    ElemId = {e1, e2}
    Key = {name}
    Val = {1, 2}
    Order = {run1}
    OpSets <- MCDisciplined
    MaxRepeats = 1
CHECK_DEADLOCK FALSE
INVARIANTS
    FoldersTypeOK
    CycleNeedsOverlap
    TreeShowsAll
    AccountsTypeOK
    OneSuccessor
    LogoutEnds
    RowsTypeOK
    LostOnlyIfOmitted
    SharingTypeOK
    GrantJustified
    TokensEnd
    MigrationsTypeOK
    AppliedOnce
    InOrder
    ServesMigrated
    HeartbeatTypeOK
    LiveIsKept
    DeadIsDropped
    NewestWriteWins
PROPERTIES
    RefusedIsBelow
    MoveEnds
    StartEnds
