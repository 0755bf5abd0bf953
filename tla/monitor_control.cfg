SPECIFICATION ControlSpec
CONSTANTS
    Tickets = {c1, c2}
    NoReject = "none"
    Nics = {"if0", "all-nics"}
    Slices = {"monitor", "spare", "third"}
    FloorSlices = {"llama", "ipc"}
    LlamaFloor = {"llama"}
    Workers = {"w1", "w2"}
    Unnamed = "unnamed"
    ExtraSlots = 2
    Subjects = {"place", "sad"}
    SelfDenied = {"sad"}
    Bits <- MCBits
    Labels = {"x"}
    Edits <- MCEdits
    Capabilities <- MCCapabilities
    NonGatewayRespond = FALSE
    Voters = {"v1", "v2"}
    VoteDomains = {"localReplica", "livePeer"}
    RespondVerbs = {"reboot"}
    VoteTickets = {c1, c2}
    Replicas = 1
    VoteTerms <- MCVoteTerms
    VoteTtl = 1
    BootIds = {"b1", "b2"}
    FirstBoot = "b1"
    MaxTime = 2
    MaxCast = 2
INVARIANTS
    SlotsCounted
    RightsBounded
    ActiveFollowsIntended
    QuorumIsReal
PROPERTY
    NicsFollowGraph
