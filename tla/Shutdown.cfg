SPECIFICATION FairSpec
CONSTANTS
    None = None
    Handlers = {h1, h2}
    ChannelBufSize = 2
CHECK_DEADLOCK FALSE
INVARIANTS
    TypeOK
    CleanIfQuiet
PROPERTIES
    ShutdownEnds
