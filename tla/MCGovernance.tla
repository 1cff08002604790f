---------------------------- MODULE MCGovernance ----------------------------
(* Governance for TLC: an owner and two further peers.                     *)
EXTENDS Governance

CONSTANTS alice, bob, carol

MCPeer == {alice, bob, carol}
=============================================================================
