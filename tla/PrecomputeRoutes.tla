-------------------------- MODULE PrecomputeRoutes ---------------------------
(***************************************************************************)
(* TopologyManager::precomputeRoutes: for every source a breadth-first     *)
(* search over the links of positive bandwidth, and the path to every      *)
(* device read back from the parents.                                      *)
(***************************************************************************)
EXTENDS Paths, FiniteSets

SequencesExt == INSTANCE SequencesExt

CONSTANTS devices_count,   \* devices are 0 .. devices_count - 1
          Bandwidths       \* the bandwidth matrices explored: for each, the
                           \* set of pairs <<i, j>> of positive bandwidth

ASSUME CountAssumption == devices_count \in Nat \ {0}

Device == 0..(devices_count - 1)
INF == devices_count        \* greater than every distance
NoParent == devices_count   \* the -1 of the code

VARIABLES adj,                 \* adj[u]: the devices u has a link to
          s,                   \* the source of the search
          q, dist, parent,     \* the search from s
          precomputed_routes   \* the routes of the sources before s

vars == <<adj, s, q, dist, parent, precomputed_routes>>

Links == {l \in Device \X Device : l[2] \in adj[l[1]]}

TypeOK ==
  /\ adj \in [Device -> SUBSET Device]
  /\ s \in Device \cup {devices_count}
  /\ q \in Seq(Device)
  /\ dist \in [Device -> Device \cup {INF}]
  /\ parent \in [Device -> Device \cup {NoParent}]
  /\ precomputed_routes \in [Device -> [Device -> Seq(Device)]]

\* The start of the search from source src; after the last source no search
\* is started and nothing is queued.
SearchFrom(src) ==
  /\ s' = src
  /\ dist' = [d \in Device |-> IF d = src THEN 0 ELSE INF]
  /\ parent' = [d \in Device |-> NoParent]
  /\ q' = IF src \in Device THEN <<src>> ELSE <<>>

Init ==
  /\ \E b \in Bandwidths : adj = [u \in Device |-> {v \in Device \ {u} : <<u, v>> \in b}]
  /\ s = 0
  /\ dist = [d \in Device |-> IF d = 0 THEN 0 ELSE INF]
  /\ parent = [d \in Device |-> NoParent]
  /\ q = <<0>>
  /\ precomputed_routes = [d \in Device |-> [t \in Device |-> <<>>]]

-----------------------------------------------------------------------------
\* Mutant: a neighbour is queued again although it has been found.
Neighbours(u) ==
  LET list[v \in 0..devices_count] ==
        IF v = 0 THEN <<>>
        ELSE IF v - 1 \in adj[u] THEN Append(list[v - 1], v - 1)
        ELSE list[v - 1]
  IN  list[devices_count]

\* The neighbours of u that have not been found yet, by increasing number.
NotFound(u) ==
  LET list[v \in 0..devices_count] ==
        IF v = 0 THEN <<>>
        ELSE IF v - 1 \in adj[u] /\ dist[v - 1] = INF THEN Append(list[v - 1], v - 1)
        ELSE list[v - 1]
  IN  list[devices_count]

\* Mutant: the new devices are put at the front, a depth-first search.
VisitDepthFirst ==
  /\ q # <<>>
  /\ LET u == Head(q)
         found == SequencesExt!ToSet(NotFound(u))
     IN  /\ dist' = [v \in Device |-> IF v \in found THEN dist[u] + 1 ELSE dist[v]]
         /\ parent' = [v \in Device |-> IF v \in found THEN u ELSE parent[v]]
         /\ q' = NotFound(u) \o Tail(q)
  /\ UNCHANGED <<adj, s, precomputed_routes>>

\* One turn of the search: the front of the queue is taken and its neighbours
\* that have not been found are given a distance and a parent, and queued.
Visit ==
  /\ q # <<>>
  /\ LET u == Head(q)
         found == SequencesExt!ToSet(NotFound(u))
     IN  /\ dist' = [v \in Device |-> IF v \in found THEN dist[u] + 1 ELSE dist[v]]
         /\ parent' = [v \in Device |-> IF v \in found THEN u ELSE parent[v]]
         /\ q' = Tail(q) \o NotFound(u)
  /\ UNCHANGED <<adj, s, precomputed_routes>>

\* The devices met when following the parents from t, each put in front of those
\* after it, as the reversal at the end does.
PathTo(t) ==
  LET path[k \in 1..devices_count] ==
        IF k = 1 THEN <<t>>
        ELSE LET cur == parent[Head(path[k - 1])]
             IN  IF cur = NoParent THEN path[k - 1] ELSE <<cur>> \o path[k - 1]
  IN  path[devices_count]

\* Mutant: a device that was not reached gets the parents' path as well.
RouteWithoutStub(t) == IF t = s THEN <<s>> ELSE PathTo(t)

RouteTo(t) ==
  IF t = s THEN <<s>>
  ELSE IF parent[t] = NoParent THEN <<s, t>>   \* unreachable: a stub
  ELSE PathTo(t)

\* Mutant: the source does not advance.
ReconstructSameSource ==
  /\ s \in Device
  /\ q = <<>>
  /\ precomputed_routes' = [precomputed_routes EXCEPT ![s] = [t \in Device |-> RouteTo(t)]]
  /\ SearchFrom(s)
  /\ UNCHANGED adj

\* The queue is empty: the routes from s are stored, and the next source starts.
Reconstruct ==
  /\ s \in Device
  /\ q = <<>>
  /\ precomputed_routes' = [precomputed_routes EXCEPT ![s] = [t \in Device |-> RouteTo(t)]]
  /\ SearchFrom(s + 1)
  /\ UNCHANGED adj

Next == Visit \/ Reconstruct

\* The function runs to its end.
Spec == Init /\ [][Next]_vars /\ WF_vars(Next)

-----------------------------------------------------------------------------
\* What the search knows is right at every moment: a device that was found has
\* its true distance, its parent is one link before it and was found earlier,
\* and the queue holds found devices by distance, spanning at most one level
\* (the condition under which the first path found is a shortest one).
SearchIsExact ==
  s \in Device =>
    /\ \A v \in Device : dist[v] # INF =>
         /\ AtDistance(Links, s, v, dist[v])
         /\ v # s => /\ <<parent[v], v>> \in Links
                     /\ dist[v] = dist[parent[v]] + 1
    /\ \A i, j \in 1..Len(q) : i < j =>
         /\ q[i] # q[j]
         /\ dist[q[i]] <= dist[q[j]] /\ dist[q[j]] <= dist[q[i]] + 1

\* Every route stored is a shortest path over links of positive bandwidth, or
\* the stub to a device that cannot be reached.
RoutesAreShortest ==
  \A src \in {d \in Device : d < s}, t \in Device :
    LET r == precomputed_routes[src][t]
    IN  IF Reachable(Links, src, t, devices_count)
        THEN IsPath(Links, src, t, r) /\ AtDistance(Links, src, t, Len(r) - 1)
        ELSE r = <<src, t>>

\* The searches come to an end for every matrix.
AllRoutesComputed == <>(s = devices_count)
=============================================================================
