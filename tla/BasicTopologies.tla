-------------------------- MODULE BasicTopologies ----------------------------
(***************************************************************************)
(* The construction of a topology, one connect() at a time: a Ring,        *)
(* FullyConnected or Switch of the congestion aware backend or the mesh of *)
(* the reconfigurable one, made by construct_topology from a configuration *)
(* the parser accepted, or by a program that calls the constructor itself. *)
(* Then the route between two NPUs, next to the number of hops the         *)
(* congestion unaware backend counts between them.                         *)
(***************************************************************************)
EXTENDS Topologies, NetworkParser, Paths

CONSTANTS MaxNPUs   \* bound on the number of NPUs

ASSUME MaxNPUsAssumption == MaxNPUs \in Nat

\* What the constructors are called with.  NetworkParser accepts two NPUs and
\* more, and construct_topology leaves bidirectional at its default, TRUE.  Of a
\* mesh, npus_count stands for its devices_count.
Shape == {[type |-> ty, npus_count |-> n, bidirectional |-> both] :
            ty \in {"Ring", "FullyConnected", "Switch", "Mesh"},
            n \in 2..MaxNPUs, both \in BOOLEAN}
NoShape == [type |-> "None", npus_count |-> 0, bidirectional |-> FALSE]

\* Configurations of up to two dimensions, for the parser to accept or refuse.
Lists(S) == {<<>>} \cup {<<a>> : a \in S} \cup {<<a, b>> : a, b \in S}
File == {[topology |-> names, npus_count |-> counts, bandwidth |-> [d \in DOMAIN names |-> 1],
          latency |-> [d \in DOMAIN names |-> 1], reconfig_time |-> <<>>] :
            names \in Lists(TopologyNames \cup {"Torus"}), counts \in Lists(1..MaxNPUs)}

VARIABLES shape,         \* what is constructed
          exited,        \* the program has ended
          made,          \* the number of calls of connect() made
          connections,   \* the links of all devices
          src, dest,     \* the NPUs a route was asked for
          route          \* the route, <<>> when none was asked for

vars == <<shape, exited, made, connections, src, dest, route>>

\* Device numbers: the switch is the one after the NPUs.
NPU == 0..(shape.npus_count - 1)
Device == IF shape.type = "Switch" THEN 0..shape.npus_count ELSE NPU

TypeOK ==
  /\ shape \in Shape \cup {NoShape}
  /\ exited \in BOOLEAN
  /\ made \in Nat
  /\ connections \subseteq Device \X Device
  /\ shape # NoShape => src \in NPU /\ dest \in NPU
  /\ route \in Seq(Device)

Connects ==
  CASE shape.type = "Ring" -> RingConnects(shape.npus_count, shape.bidirectional)
    [] shape.type = "FullyConnected" -> FullyConnectedConnects(shape.npus_count)
    [] shape.type = "Switch" -> SwitchConnects(shape.npus_count)
    [] shape.type = "Mesh" -> MeshConnects(shape.npus_count)
    [] shape = NoShape -> <<>>

RouteBetween(s, d) ==
  CASE shape.type = "Ring" -> RingRoute(shape.npus_count, shape.bidirectional, s, d)
    [] shape.type = "FullyConnected" -> FullyConnectedRoute(s, d)
    [] shape.type = "Switch" -> SwitchRoute(shape.npus_count, s, d)
    [] shape.type = "Mesh" -> MeshRoute(s, d)

Hops(s, d) ==
  CASE shape.type = "Ring" -> RingHops(shape.npus_count, shape.bidirectional, s, d)
    [] shape.type = "FullyConnected" -> FullyConnectedHops
    [] shape.type = "Switch" -> SwitchHops

Init == /\ shape = NoShape
        /\ exited = FALSE
        /\ made = 0
        /\ connections = {}
        /\ src = 0 /\ dest = 0
        /\ route = <<>>

Start == shape = NoShape /\ ~exited

\* A program that calls the constructor itself.
Construct(s) ==
  /\ Start
  /\ shape' = s
  /\ UNCHANGED <<exited, made, connections, src, dest, route>>

\* Both backends know networks of one dimension only.  The reconfigurable one
\* does not look at the name of the topology.
Supported(file, reconfigurable) ==
  Len(file.topology) = 1 /\ (reconfigurable \/ file.topology[1] # "Reconfig")

\* construct_topology of either backend.
ConstructTopology(file, reconfigurable) ==
  /\ Start
  /\ Accepted(file) /\ Supported(file, reconfigurable)
  /\ shape' = [type |-> IF reconfigurable THEN "Mesh" ELSE file.topology[1],
               npus_count |-> file.npus_count[1], bidirectional |-> TRUE]
  /\ UNCHANGED <<exited, made, connections, src, dest, route>>

\* The parser, or construct_topology, prints an error and exits.
Exit(file, reconfigurable) ==
  /\ Start
  /\ ~(Accepted(file) /\ Supported(file, reconfigurable))
  /\ exited' = TRUE
  /\ UNCHANGED <<shape, made, connections, src, dest, route>>

Constructed == shape # NoShape /\ made = Len(Connects)

\* The next call of connect() in the constructor.
Connect ==
  /\ made < Len(Connects)
  /\ connections' = connections \cup LinksOf(Connects[made + 1])
  /\ made' = made + 1
  /\ UNCHANGED <<shape, exited, src, dest, route>>

\* A call of route() for two different NPUs.
AskRoute(s, d) ==
  /\ Constructed
  /\ s # d
  /\ src' = s /\ dest' = d
  /\ route' = RouteBetween(s, d)
  /\ UNCHANGED <<shape, exited, made, connections>>

Next == \/ \E s \in Shape : Construct(s)
        \/ \E file \in File, reconfigurable \in BOOLEAN :
             ConstructTopology(file, reconfigurable) \/ Exit(file, reconfigurable)
        \/ Connect
        \/ \E s, d \in NPU : AskRoute(s, d)

Spec == Init /\ [][Next]_vars

-----------------------------------------------------------------------------
\* A route leads over links that the constructor made and is a shortest path:
\* the assertion of Device::send that the next device is connected holds on all
\* of it, and the direction chosen in a ring is the right one.
RoutesAreShortestPaths ==
  route # <<>> =>
    /\ IsPath(connections, src, dest, route)
    /\ AtDistance(connections, src, dest, Len(route) - 1)

\* The congestion aware and unaware backends agree on the number of links a
\* chunk crosses.
BackendsAgreeOnHops ==
  route # <<>> /\ shape.type # "Mesh" => Hops(src, dest) = Len(route) - 1

\* What a reconfiguration relies on: every device has a link to every device and
\* to itself, so that bandwidth.size() == links.size() (Device.cpp:151-152 of the
\* reconfigurable backend) and every entry of the matrices has its link, and none
\* was connected twice, which would replace a link with its state.
MeshIsComplete ==
  Constructed /\ shape.type = "Mesh" =>
    /\ connections = Device \X Device
    /\ \A i, j \in 1..made : i # j => LinksOf(Connects[i]) \cap LinksOf(Connects[j]) = {}

\* Device.cpp:50-51, assert(!connected(id)): no connection is made twice.
ConnectedOnce ==
  [][made' # made => LinksOf(Connects[made + 1]) \cap connections = {}]_vars
=============================================================================
