SPECIFICATION FairSpec
CONSTANTS
    m1 = m1
    m2 = m2
    m3 = m3
    s1 = s1
    s2 = s2
    None = None
    Msgs = {m1, m2}
    NoUuid = {}
    Expires <- ExpiryTimes
    Sessions = {s1}
    MaxTime = 1
PROPERTIES
    QueueReturns
    HandlersReturn
    NotifiedOrNobodyThere
    ExpiredIsCollected
