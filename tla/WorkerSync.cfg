SPECIFICATION WorkerSpec
CONSTANTS
    Worker = {"v", "w"}
    MaxSigned = 2
    NetworkCapacity = 2
    StateCapacity = 1
    MaxMissed = 1
PROPERTY WorkersConverge
CHECK_DEADLOCK FALSE
