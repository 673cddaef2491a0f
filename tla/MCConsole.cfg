CONSTANTS
    InitThread = InitThread
    ClientThread = ClientThread
    NettyThread = NettyThread
    Threads = {InitThread, ClientThread, NettyThread}
    MaxLogs = 3

SPECIFICATION Spec

INVARIANTS
    TypeOK
    WhiteAtRest
    OwnColourUnlessOverlapped

CHECK_DEADLOCK FALSE
