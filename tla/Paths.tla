-------------------------------- MODULE Paths --------------------------------
(***************************************************************************)
(* What a route has to be, defined without any of the code's algorithms:   *)
(* paths over a set of links, and the distance between two devices.        *)
(***************************************************************************)
EXTENDS Naturals, Sequences

\* p is a path from src to dest over the links, without a repeated device.
IsPath(links, src, dest, p) ==
  /\ p # <<>> /\ p[1] = src /\ p[Len(p)] = dest
  /\ \A i \in 1..(Len(p) - 1) : <<p[i], p[i + 1]>> \in links
  /\ \A i, j \in 1..Len(p) : p[i] = p[j] => i = j

\* The devices at most k links away from src, for every k up to bound.
Within(links, src, bound) ==
  LET reach[k \in 0..bound] ==
        IF k = 0 THEN {src}
        ELSE LET near == reach[k - 1]
             IN  near \cup {l[2] : l \in {m \in links : m[1] \in near}}
  IN  reach

\* dest is exactly k links away from src.
AtDistance(links, src, dest, k) ==
  LET reach == Within(links, src, k)
  IN  dest \in reach[k] /\ \A j \in 0..(k - 1) : dest \notin reach[j]

\* dest can be reached from src, n being the number of devices.
Reachable(links, src, dest, n) == dest \in Within(links, src, n)[n]
=============================================================================
