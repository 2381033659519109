SPECIFICATION FairSpec
CONSTANTS
    t1 = t1
    sub1 = sub1
    sub2 = sub2
    unsub1 = unsub1
    send1 = send1
    ReceiveReq = ReceiveReq
    Hello = Hello
    Notify = Notify
    None = None
    Topics = {t1}
    Topic <- TopicOf
    Subscribes = {sub1, sub2}
    Unsubscribes = {unsub1}
    Sends = {}
    ChannelBufSize = 1
    MaxConns = 9
    MaxFaults = 1
CHECK_DEADLOCK FALSE
INVARIANTS
    TypeOK
    NothingDropped
    OneConnection
    SettledAgreement
PROPERTY
    LinkIsRestored
