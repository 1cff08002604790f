SPECIFICATION IndexerSpec
CONSTANTS
    Doc <- MCDoc
    Token = {"author", "x", "y"}
    MessageOf <- MCMessageOf
    ChannelOf <- MCChannelOf
    GroveOf <- MCGroveOf
    TokensOf <- MCTokensOf
    Applier = {"ui", "listener"}
    MaxApplied = 3
INVARIANT EditedIsFindable
CHECK_DEADLOCK FALSE
