----------------------------- MODULE Topologies -----------------------------
(***************************************************************************)
(* The shapes the simulator builds and the routes it takes in them: Ring,  *)
(* FullyConnected and Switch of the congestion aware backend (devices are  *)
(* numbered from 0, the switch itself being device n), the mesh of the     *)
(* reconfigurable backend, and the hop counts of the congestion unaware    *)
(* backend.                                                                *)
(***************************************************************************)
EXTENDS Integers, Sequences

-----------------------------------------------------------------------------
(* The calls connect(src, dest, ..., bidirectional) of the constructors, in *)
(* the order in which they are made.                                        *)

Call(i, j, both) == [src |-> i, dest |-> j, bidirectional |-> both]

RingConnects(n, bidirectional) ==
  [i \in 1..(n - 1) |-> Call(i - 1, i, bidirectional)]
     \o <<Call(n - 1, 0, bidirectional)>>

\* The calls of two nested loops over src and dest that connect the pairs in
\* chosen.
LoopConnects(n, chosen, bidirectional) ==
  LET calls[k \in 0..(n * n)] ==
        IF k = 0 THEN <<>>
        ELSE LET src == (k - 1) \div n
                 dest == (k - 1) % n
             IN  IF <<src, dest>> \in chosen
                 THEN Append(calls[k - 1], Call(src, dest, bidirectional))
                 ELSE calls[k - 1]
  IN  calls[n * n]

Pairs(n) == (0..(n - 1)) \X (0..(n - 1))

FullyConnectedConnects(n) == LoopConnects(n, {p \in Pairs(n) : p[1] # p[2]}, FALSE)

SwitchConnects(n) == [i \in 1..n |-> Call(i - 1, n, TRUE)]

SelfConnects(n) == [i \in 1..n |-> Call(i - 1, i - 1, FALSE)]

\* Mutant: the inner loop starts at the outer one's index.
MeshFromSelf(n) == LoopConnects(n, {p \in Pairs(n) : p[1] <= p[2]}, TRUE) \o SelfConnects(n)

\* The reconfigurable backend: every device with all those after it, both ways,
\* and then every device with itself.
MeshConnects(n) == LoopConnects(n, {p \in Pairs(n) : p[1] < p[2]}, TRUE) \o SelfConnects(n)

\* The links that one call of connect() makes.
LinksOf(c) == {<<c.src, c.dest>>} \cup
              (IF c.bidirectional THEN {<<c.dest, c.src>>} ELSE {})

\* The links that a sequence of calls makes.
LinksMade(calls) == UNION {LinksOf(calls[i]) : i \in 1..Len(calls)}

-----------------------------------------------------------------------------
(* Routes: sequences of devices from the source to the destination. *)

\* Distance from src to dest along increasing device numbers.
ClockwiseDistance(n, src, dest) ==
  IF dest - src < 0 THEN dest - src + n ELSE dest - src

\* Mutant: the longer way around a bidirectional ring is taken.
RingStepLonger(n, bidirectional, src, dest) ==
  LET clockwise == ClockwiseDistance(n, src, dest)
  IN  IF bidirectional /\ n - clockwise > clockwise THEN -1 ELSE 1

\* +1 for clockwise, -1 when the ring is bidirectional and that is shorter.
RingStep(n, bidirectional, src, dest) ==
  LET clockwise == ClockwiseDistance(n, src, dest)
  IN  IF bidirectional /\ n - clockwise < clockwise THEN -1 ELSE 1

\* One move around the ring with its wrap-around.
RingMove(n, current, step) ==
  LET next == current + step
  IN  IF next < 0 THEN next + n ELSE IF next >= n THEN next - n ELSE next

\* The loop that moves on until it is at dest; the route ends with the device
\* it is at, and n moves are enough.
RingRoute(n, bidirectional, src, dest) ==
  LET step == RingStep(n, bidirectional, src, dest)
      route[k \in 0..n] ==
        IF k = 0 THEN <<src>>
        ELSE LET sofar == route[k - 1]
                 current == sofar[Len(sofar)]
             IN  IF current = dest THEN sofar ELSE Append(sofar, RingMove(n, current, step))
  IN  route[n]

FullyConnectedRoute(src, dest) == <<src, dest>>

\* TopologyManager::route: the devices find the hops in between by themselves.
MeshRoute(src, dest) == <<src, dest>>

\* Mutant: the switch is taken for the device after it.
SwitchRouteBeyond(n, src, dest) == <<src, n + 1, dest>>

SwitchRoute(n, src, dest) == <<src, n, dest>>

-----------------------------------------------------------------------------
(* The number of hops of the congestion unaware backend. *)

\* Mutant: the clockwise distance is used in a bidirectional ring, too.
RingHopsClockwise(n, bidirectional, src, dest) == ClockwiseDistance(n, src, dest)

RingHops(n, bidirectional, src, dest) ==
  LET clockwise == ClockwiseDistance(n, src, dest)
      anticlockwise == n - clockwise
  IN  IF ~bidirectional \/ clockwise < anticlockwise
      THEN clockwise ELSE anticlockwise

FullyConnectedHops == 1

SwitchHops == 2
=============================================================================
