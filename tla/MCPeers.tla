------------------------------ MODULE MCPeers ------------------------------
(* Values of the constants of Peers that a configuration file cannot hold. *)
EXTENDS Peers

CONSTANTS p1, p2, boot, ghost

mcFlags == {<< >>, <<<<p1, 1>>, <<NoPeer, 1>>, <<p1, 1>>>>}
mcDefaults == <<<<boot, 1>>>>
mcManifest == [signer |-> "anyone", age |-> 1, expiresIn |-> 1,
               bootstraps |-> <<<<ghost, 1>>>>]
mcDns == <<<<ghost, 2>>>>
=============================================================================
