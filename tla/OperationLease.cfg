SPECIFICATION Spec
CONSTANTS
    p1 = p1
    p2 = p2
    p3 = p3
    Proc = {p1, p2, p3}
    NoProc = NoProc
    OpId = {o1, o2}
    NoOp = NoOp
    Token = {t1, t2, t3}
    NoToken = NoToken
    Mode = {"INSTALL"}
    LeaseSeconds = 2
    MaxClock = 3
SYMMETRY Symmetry
INVARIANTS
    TypeOK
    OnlyCurrentOperationKept
    AtMostOneWriter
    NewestAttemptWrites
PROPERTIES
    FencedForGood
    LedgerSpec
CHECK_DEADLOCK FALSE
