SPECIFICATION TablesSpec
CONSTANTS
    Peer = {"alice", "bob"}
    Owner = "alice"
    Permission = {"SendMessages"}
    Role = {"r"}
    Hash = {}
    VoteCount = {}
    Channel = {"c", "d"}
    Emoji = {"x", "y"}
    Name = {"n"}
    Timestamp = {1}
    MaxReactions = 1
    MaxEvents = 5
    Author = {"a", "b"}
    Event <- MCEvent
    MaxEntries = 3
    PerAuthorCap = 2
    MaxAge = 0
    MaxArrivals = 5
    MaxTime = 1
    Signer = {"s1", "s2"}
    Topic = {"t1", "t2", "t3", "t4"}
    MaxPerSigner = 2
    MaxTopics = 3
    ClockNode = {"n1", "n2"}
    Foreign <- MCForeign
    TopWall = 2
    Drift = 1
    MaxCounter = 1
    MaxMillis = 6
    MaxRolls = 1
INVARIANTS
    IndexIsExact
    WordsAreTheAuthors
    CountsExact
    RefcountExact
    CausesComeFirst
    DriftIsBounded
PROPERTIES
    NonMembersAreSilent
    BucketsGoWhole
CHECK_DEADLOCK FALSE
