--------------------------- MODULE MCLinkHistory ----------------------------
(***************************************************************************)
(* Instances of LinkHistory for TLC: a switch with three NPUs.  The links  *)
(* to the switch are fast and have a latency of half a ns, so that the cut *)
(* to whole ns tells; those from the switch are slow and have one ns, so   *)
(* that chunks for one NPU queue up at the switch.                         *)
(***************************************************************************)
EXTENDS LinkHistory, Topologies, TLC

CONSTANTS c1, c2, c3

MCChunk == {c1, c2, c3}

NPUs(n) == 0..(n - 1)

MCSwitchLink == LinksMade(SwitchConnects(3))
MCSwitchRoutes ==
  {SwitchRoute(3, s, d) : s, d \in NPUs(3)} \ {SwitchRoute(3, s, s) : s \in NPUs(3)}

ToSwitch(l) == l[2] = 3

MCSize == c1 :> 1 @@ c2 :> 2 @@ c3 :> 4

MCBandwidth == [l \in Link |-> IF ToSwitch(l) THEN 4 ELSE 2]
MCLatency == [l \in Link |-> IF ToSwitch(l) THEN 1 ELSE 2]
=============================================================================
