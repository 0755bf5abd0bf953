SPECIFICATION GatewaySpec
CONSTANTS
    Turns = {t1, t2}
    Identities = {i1, i2}
    SessionLimit = 2
    SessionTtl = 2
    MaxSessions = 3
    MaxClock = 3
    BoxCapacity = 2
    BoxRecent = 2
    Listeners = 2
    MaxPushed = 3
    MaxNested = 2
    Tickets = {s1, s2}
    Callers <- MCCallers
    GatewayCaller <- MCGatewayCaller
    HotSlots = 2
    UpcallSlots = 2
    IpcRecent = 2
    Numbers = {1}
    MaxPosted = 3
    MaxInFlight = 2
    MaxEmits = 3
SYMMETRY StateSymmetry
INVARIANTS
    BroadcastOnce
    WaitRecalls
    OneRejectPerTicket
    ChainContinuous
    OneIdentityPerSession
PROPERTIES
    MailboxIsQueue
    RingsAreQueues
    GoneStaysGone
