SPECIFICATION EndpointSpec
CONSTANTS
    Peer = {"alice", "bob"}
    Owner = "alice"
    Permission = {}
    Role = {}
    Hash = {1, 2}
    VoteCount = {0, 1}
    OwnServer = {"a"}
    OtherServer = {"c"}
    NoServer = "none"
    UiTask = {"ui"}
    Listener = "listener"
    Polite = 1
    Impolite = 2
    MaxJoins = 1
    MaxShares = 1
    Doc <- MCDoc
    Token = {"author", "x", "y"}
    MessageOf <- MCMessageOf
    ChannelOf <- MCChannelOf
    GroveOf <- MCGroveOf
    TokensOf <- MCTokensOf
    Applier = {"ui", "listener"}
    MaxApplied = 3
INVARIANTS
    
    VotesAreLive
    NoRipeProposalLeft
    PostingsExact
    DeletedIsForgotten
    
    CallersMeet
    NoCandidateStranded
PROPERTIES
    CascadeShrinks
CHECK_DEADLOCK FALSE
