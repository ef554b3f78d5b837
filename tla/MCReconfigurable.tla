-------------------------- MODULE MCReconfigurable ---------------------------
(***************************************************************************)
(* Instances of Reconfigurable for TLC.  The routes of the topologies are  *)
(* those precomputeRoutes gives for them.                                  *)
(***************************************************************************)
EXTENDS Reconfigurable, TLC

CONSTANTS c1, c2, line, cycle

\* Bandwidth 1 on every link of a set.
Circuits(links) == [l \in Link |-> IF l \in links THEN 1 ELSE 0]

\* The line is 0, 2, .., 1: its ends are NPUs whether or not the rest is.
Place(d) == IF d = 0 THEN 0 ELSE IF d = 1 THEN devices_count - 1 ELSE d - 1
DeviceAt(p) == IF p = 0 THEN 0 ELSE IF p = devices_count - 1 THEN 1 ELSE p + 1
Line == {l \in Link : Place(l[1]) = Place(l[2]) + 1 \/ Place(l[2]) = Place(l[1]) + 1}
Cycle == {l \in Link : l[2] = (l[1] + 1) % devices_count}

\* In a line and in a cycle there is one path between two devices.
RouteInLine(l) ==
  LET p == Place(l[1])
      q == Place(l[2])
  IN  IF p < q THEN [i \in 1..(q - p + 1) |-> DeviceAt(p + i - 1)]
               ELSE [i \in 1..(p - q + 1) |-> DeviceAt(p - i + 1)]
RouteInCycle(l) ==
  [i \in 1..(1 + ((l[2] - l[1]) % devices_count)) |-> (l[1] + i - 1) % devices_count]

MCTopoId == {line, cycle}
LinksOf == (line :> Line) @@ (cycle :> Cycle)
MCBandwidth == [id \in MCTopoId |-> Circuits(LinksOf[id])]
MCLatency == [id \in MCTopoId |-> [l \in Link |-> 1]]
MCRoutes == [id \in MCTopoId |->
               [l \in Link |-> IF id = line THEN RouteInLine(l) ELSE RouteInCycle(l)]]

MCChunk == {c1, c2}
MCStamped == {c1}
MCSetIds == {NoTopo}
MCSize == c1 :> 1 @@ c2 :> 2
=============================================================================
