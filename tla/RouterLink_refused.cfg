SPECIFICATION Spec
CONSTANTS
    t1 = t1
    sub1 = sub1
    sub2 = sub2
    unsub1 = unsub1
    send1 = send1
    ReceiveReq = ReceiveReq
    Hello = Hello
    Notify = Notify
    None = None
    Topics = {t1}
    Topic <- TopicOf
    Subscribes = {sub1}
    Unsubscribes = {}
    Sends = {}
    ChannelBufSize = 2
    MaxConns = 1
    MaxFaults = 1
CHECK_DEADLOCK FALSE
INVARIANT RefusedIsResent
