SPECIFICATION Spec
CONSTANTS
    alice = alice
    bob = bob
    carol = carol
    Peer <- MCPeer
    Owner = alice
    Permission = {}
    Role = {}
    Hash = {1, 2}
    VoteCount = {0}
PROPERTY ThresholdChangePassesCurrent
