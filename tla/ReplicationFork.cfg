SPECIFICATION ReplicationSpec
CONSTANTS
    Replica = {"alice", "bob"}
    Creator = "alice"
    SyncProvider = {"alice", "bob"}
    EventHash = {2, 3, 4}
    Limit = 1
    MaxReloads = 1
INVARIANT AuthorsNeverFork
