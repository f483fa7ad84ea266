------------------------------ MODULE MCIpTree ------------------------------
(***************************************************************************)
(* IpTree with every address of W bits as input, host bits set or not, and *)
(* every network as one to purge.                                          *)
(***************************************************************************)
EXTENDS IpTreeRefinement, IpTreeSetInv

MCInputs == Addr
MCPurgeNets == {x \in Addr : addr_is_net(x)}

=============================================================================
