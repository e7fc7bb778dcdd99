SPECIFICATION FairSpec
CONSTANTS
    t1 = t1
    t2 = t2
    plain = plain
    other = other
    rar = rar
    hidden = hidden
    p1 = p1
    p2 = p2
    Thread = {t1, t2}
    Archive = {plain, other, rar, hidden}
    NULL = NULL
    Text = {p1, p2}
    NoText = NoText
    Right <- Passwords
    HiddenNames = {hidden}
    SolidRar = {rar}
    Damaged = {plain}
    Unreliable = {rar}
    Together = {plain, other}
    Size = 2
    MaxCalls = 3
CHECK_DEADLOCK FALSE
INVARIANTS
    TypeOK
    ListsAccounted
    FreedOnlyWhenOld
    SearchFindsNewest
    AnswerJustified
    RightPasswordKept
PROPERTIES
    ImplementsRecentLists
    EveryCallEnds
