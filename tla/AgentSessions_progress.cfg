SPECIFICATION FairSpec
CONSTANTS
    c1 = c1
    c2 = c2
    m1 = m1
    m2 = m2
    s1 = s1
    x1 = x1
    x2 = x2
    None = None
    NoMrn = NoMrn
    Conns = {c1, c2}
    Mrns = {m1}
    Subjects = {s1}
    Msgs = {x2}
    Recipients <- RecipientsOf
    Subject <- SubjectOf
    ChannelBufSize = 1
PROPERTIES
    
    CollectedWhileKnown
