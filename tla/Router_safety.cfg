SPECIFICATION Spec
CONSTANTS
    t1 = t1
    t2 = t2
    both = both
    plain = plain
    None = None
    Net = Net
    OldToken = OldToken
    Conns = {c1, c2}
    Mrns = {m1, m2}
    Topics = {t1, t2}
    Msgs = {both, plain}
    Recipients <- RecipientsOf
    Subject <- SubjectOf
    ChannelBufSize = 1
    MaxRequests = 2
SYMMETRY Symmetry
CHECK_DEADLOCK FALSE
INVARIANTS
    TypeOK
    RightMailboxes
    ReceivedOnce
    NilNeedsSecondRecipient
    LockDiscipline
    JoinedIsUsable
    DropMeansSubscribed
    NilOnlyAfterRestart
    
