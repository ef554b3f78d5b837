------------------------- MODULE MCCongestionAware --------------------------
(***************************************************************************)
(* Instances of CongestionAware for TLC, on the topologies of the backend. *)
(***************************************************************************)
EXTENDS CongestionAware, Topologies, TLC

CONSTANTS c1, c2, c3

MCChunk == {c1, c2, c3}

NPUs(n) == 0..(n - 1)

\* A unidirectional ring of three devices: the routes of two hops share links,
\* so chunks meet at links and at devices they only pass through.
MCRingLink == LinksMade(RingConnects(3, FALSE))
MCRingRoutes == {RingRoute(3, FALSE, s, d) : s, d \in NPUs(3)} \ {<<s>> : s \in NPUs(3)}

\* A switch with three NPUs: every route goes through the switch.
MCSwitchLink == LinksMade(SwitchConnects(3))
MCSwitchRoutes ==
  {SwitchRoute(3, s, d) : s, d \in NPUs(3)} \ {SwitchRoute(3, s, s) : s \in NPUs(3)}

\* A chunk smaller than what a link carries in one ns (it frees its link at the
\* time it took it), one that exactly fits, and one that takes two ns.
MCSize == c1 :> 1 @@ c2 :> 2 @@ c3 :> 4

MCBandwidth == [l \in Link |-> 2]
MCLatency == [l \in Link |-> Resolution]
=============================================================================
