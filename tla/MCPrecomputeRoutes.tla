------------------------- MODULE MCPrecomputeRoutes --------------------------
(***************************************************************************)
(* PrecomputeRoutes for TLC, on every directed graph of the devices.       *)
(***************************************************************************)
EXTENDS PrecomputeRoutes

AllPairs == {l \in Device \X Device : l[1] # l[2]}
MCBandwidths == SUBSET AllPairs
=============================================================================
