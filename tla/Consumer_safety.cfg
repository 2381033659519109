SPECIFICATION Spec
CONSTANTS
    m1 = m1
    m2 = m2
    m3 = m3
    s1 = s1
    s2 = s2
    None = None
    Msgs = {m1, m2, m3}
    NoUuid = {m3}
    Expires <- ExpiryTimes
    Sessions = {s1, s2}
    MaxTime = 1
SYMMETRY Symmetry
INVARIANTS
    TypeOK
    LockDiscipline
    NothingLost
    NothingTwice
    ClearIsSafe
    AnnouncedUnlessSuppressed
PROPERTY
    ImplementsMailbox
