----------------------- MODULE PrecomputeRoutesProofs -----------------------
(***************************************************************************)
(* Proofs about PrecomputeRoutes, for every number of devices and every    *)
(* bandwidth matrix: the breadth-first search finds exactly the devices    *)
(* that can be reached, each at its distance, and every route stored is a  *)
(* shortest path or the stub to a device out of reach.                     *)
(*                                                                         *)
(* The argument is the one by which a search in breadth is right.  A       *)
(* device that has been found and is not queued any more has only found    *)
(* neighbours; the queue is ordered by distance; so everything nearer than *)
(* the front of the queue and everything as near has been found, and what  *)
(* is found from the front is one link further away, and no nearer.        *)
(***************************************************************************)
EXTENDS PrecomputeRoutes, ProofLemmas, FiniteSetTheorems

Found(v) == dist[v] # INF
Queued(v) == \E i \in 1..Len(q) : q[i] = v

(* The parents make a tree of found devices, rooted in s. *)
TreeOK ==
  /\ dist[s] = 0 /\ parent[s] = NoParent
  /\ \A v \in Device : ~Found(v) => parent[v] = NoParent
  /\ \A v \in Device : Found(v) /\ v # s =>
       /\ parent[v] \in Device /\ Found(parent[v])
       /\ <<parent[v], v>> \in Links
       /\ dist[v] = dist[parent[v]] + 1

(* Whoever was found is at its distance. *)
DistancesOK == \A v \in Device : Found(v) => AtDistance(Links, s, v, dist[v])

(* The queue holds found devices once each, by distance, of one or two levels. *)
QueueOK ==
  /\ \A i \in 1..Len(q) : Found(q[i])
  /\ \A i, j \in 1..Len(q) : i < j =>
       q[i] # q[j] /\ dist[q[i]] <= dist[q[j]] /\ dist[q[j]] <= dist[q[i]] + 1

(* The neighbours of a device that has been visited are found. *)
VisitedOK ==
  \A v \in Device : Found(v) /\ ~Queued(v) => \A w \in adj[v] : Found(w)

SearchOK == TreeOK /\ DistancesOK /\ QueueOK /\ VisitedOK

RInv ==
  /\ TypeOK
  /\ s \in Device => SearchOK
  /\ s \notin Device => q = <<>>
  /\ RoutesAreShortest

LEMMA DeviceFacts ==
  /\ devices_count \in Nat \ {0} /\ INF = devices_count /\ NoParent = devices_count
  /\ INF \notin Device /\ NoParent \notin Device
  /\ \A v : v \in Device <=> v \in Nat /\ v < devices_count
BY CountAssumption DEF Device, INF, NoParent

(* NotFound lists the neighbours of u that have not been found, each once. *)
LEMMA NotFoundLists ==
  ASSUME TypeOK, NEW u \in Device
  PROVE  /\ NotFound(u) \in Seq(Device)
         /\ \A v : (\E i \in 1..Len(NotFound(u)) : NotFound(u)[i] = v)
                      <=> v \in adj[u] /\ ~Found(v)
         /\ \A i, j \in 1..Len(NotFound(u)) : i < j => NotFound(u)[i] # NotFound(u)[j]
<1> DEFINE n == devices_count
           New(v) == v \in adj[u] /\ dist[v] = INF
           IsList(f) == f = [v \in 0..n |-> IF v = 0 THEN <<>>
                                            ELSE IF v - 1 \in adj[u] /\ dist[v - 1] = INF
                                                 THEN Append(f[v - 1], v - 1) ELSE f[v - 1]]
           list == CHOOSE f : IsList(f)
           rounds == {v \in 1..n : New(v - 1)}
           item == [v \in 1..n |-> v - 1]
<1>1. n \in Nat /\ adj[u] \subseteq Device
  BY DeviceFacts DEF TypeOK
<1>2. item \in [1..n -> Device] /\ \A v, w \in 1..n : item[v] = item[w] => v = w
  <2>1. \A v \in 1..n : v - 1 \in Device
    BY DeviceFacts
  <2>2. \A v, w \in 1..n : v - 1 = w - 1 => v = w
    BY <1>1
  <2> QED BY <2>1, <2>2
<1>3. \A f : IsList(f) <=> IsCollected(f, n, rounds, item)
  <2> SUFFICES ASSUME NEW f PROVE IsList(f) <=> IsCollected(f, n, rounds, item)
    OBVIOUS
  <2>1. ASSUME NEW v \in 0..n
        PROVE  (IF v = 0 THEN <<>>
                ELSE IF New(v - 1) THEN Append(f[v - 1], v - 1) ELSE f[v - 1])
             = (IF v = 0 THEN <<>>
                ELSE IF v \in rounds THEN Append(f[v - 1], item[v]) ELSE f[v - 1])
    <3>1. v = 0 \/ v \in 1..n
      BY <1>1
    <3>2. CASE v \in 1..n
      <4>1. (v \in rounds <=> New(v - 1)) /\ item[v] = v - 1
        BY <3>2
      <4> HIDE DEF rounds, item, New
      <4> QED BY <4>1
    <3> QED BY <3>1, <3>2
  <2> HIDE DEF rounds, item
  <2> QED BY <2>1 DEF IsCollected
<1>4. IsCollected(list, n, rounds, item)
  <2>1. \E f : IsList(f)
    <3> HIDE DEF IsList, rounds, item
    <3> QED BY <1>1, <1>2, <1>3, CollectExists
  <2>2. IsList(list)
    <3> HIDE DEF IsList
    <3> QED BY <2>1
  <2> HIDE DEF list, IsList, rounds, item
  <2> QED BY <1>3, <2>2
<1>5. PICK x : x = NotFound(u)
  OBVIOUS
<1>6. x = list[n]
  BY <1>5 DEF NotFound
<1>7. Collects(x, Device, rounds, item)
  <2>1. rounds \in SUBSET (1..n)
    OBVIOUS
  <2>2. PICK f : f = list
    OBVIOUS
  <2> HIDE DEF list, rounds, item
  <2>3. Collects(f[n], Device, rounds, item)
    BY <1>1, <1>2, <1>4, <2>1, <2>2, CollectedList
  <2> QED BY <1>6, <2>2, <2>3
<1>8. \A v : (\E k \in rounds : v = item[k]) <=> v \in adj[u] /\ ~Found(v)
  <2>1. \A v \in adj[u] : v + 1 \in 1..n /\ (v + 1) - 1 = v
    BY <1>1, DeviceFacts
  <2> QED BY <2>1 DEF Found
<1>9. \A v : (\E i \in 1..Len(x) : x[i] = v) <=> v \in adj[u] /\ ~Found(v)
  <2> HIDE DEF rounds, item
  <2> QED BY <1>7, <1>8 DEF Collects
<1>10. \A i, j \in 1..Len(x) : i < j => x[i] # x[j]
  <2>1. \A i \in 1..Len(x) : ~(i < i)
    OBVIOUS
  <2> QED BY <1>7, <2>1 DEF Collects
<1> QED BY <1>5, <1>7, <1>9, <1>10 DEF Collects

LEMMA TypeFacts ==
  ASSUME TypeOK, NEW v \in Device
  PROVE  /\ dist[v] \in Nat /\ dist[v] <= devices_count
         /\ Found(v) <=> dist[v] < devices_count
         /\ adj[v] \subseteq Device
         /\ \A w : <<v, w>> \in Links <=> w \in adj[v]
<1>1. dist[v] \in Device \cup {INF} /\ adj \in [Device -> SUBSET Device]
  BY DEF TypeOK
<1>2. /\ dist[v] \in Nat /\ dist[v] <= devices_count
      /\ Found(v) <=> dist[v] < devices_count
  BY <1>1, DeviceFacts DEF Found
<1>3. adj[v] \subseteq Device
  BY <1>1
<1>4. \A w : <<v, w>> \in Links <=> w \in adj[v]
  BY <1>3 DEF Links
<1> QED BY <1>2, <1>3, <1>4

(* From a found device the parents lead through every smaller distance. *)
LEMMA EveryLevel ==
  ASSUME TypeOK, s \in Device, TreeOK, NEW u \in Device, Found(u)
  PROVE  \A m \in 0..dist[u] : \E w \in Device : Found(w) /\ dist[w] = m
<1> DEFINE S == {n \in Nat : n <= dist[u] =>
                    \E w \in Device : Found(w) /\ dist[w] = dist[u] - n}
<1>1. dist[u] \in Nat
  BY TypeFacts
<1>2. 0 \in S
  BY <1>1
<1>3. ASSUME NEW n \in S PROVE n + 1 \in S
  <2> SUFFICES ASSUME n + 1 <= dist[u]
               PROVE  \E w \in Device : Found(w) /\ dist[w] = dist[u] - (n + 1)
    OBVIOUS
  <2>1. n \in Nat /\ \E w \in Device : Found(w) /\ dist[w] = dist[u] - n
    BY <1>1
  <2>2. PICK w \in Device : Found(w) /\ dist[w] = dist[u] - n
    BY <2>1
  <2>3. w # s
    BY <1>1, <2>1, <2>2 DEF TreeOK
  <2>4. /\ parent[w] \in Device /\ Found(parent[w])
        /\ dist[w] = dist[parent[w]] + 1
    BY <2>2, <2>3 DEF TreeOK
  <2>5. dist[parent[w]] \in Nat
    BY <2>4, TypeFacts
  <2> QED BY <1>1, <2>1, <2>2, <2>4, <2>5
<1>4. S = Nat
  <2> HIDE DEF S
  <2>1. S \in SUBSET Nat
    BY DEF S
  <2> QED BY <1>2, <1>3, <2>1, SetInduction
<1> SUFFICES ASSUME NEW m \in 0..dist[u]
             PROVE  \E w \in Device : Found(w) /\ dist[w] = m
  OBVIOUS
<1>5. dist[u] - m \in Nat /\ dist[u] - m <= dist[u] /\ dist[u] - (dist[u] - m) = m
  BY <1>1
<1>6. dist[u] - m \in S
  BY <1>4, <1>5
<1> QED BY <1>5, <1>6

(* While a device has not been found, the distances found leave room for it: INF *)
(* is never given to a device that is found.                                     *)
LEMMA RoomForDistance ==
  ASSUME TypeOK, s \in Device, TreeOK, NEW u \in Device, Found(u),
         NEW v \in Device, ~Found(v)
  PROVE  dist[u] + 1 < devices_count
<1> DEFINE T == Device \ {v}
           S == 0..dist[u]
           f == [m \in S |-> CHOOSE w \in Device : Found(w) /\ dist[w] = m]
<1>1. dist[u] \in Nat
  BY TypeFacts
<1>2. \A m \in S : f[m] \in Device /\ Found(f[m]) /\ dist[f[m]] = m
  BY EveryLevel
<1>3. f \in [S -> T]
  <2>1. \A m \in S : f[m] \in T
    BY <1>2
  <2>2. f = [m \in S |-> f[m]]
    OBVIOUS
  <2> HIDE DEF f, S, T
  <2> QED BY ONLY <2>1, <2>2
<1>4. IsFiniteSet(S) /\ Cardinality(S) = dist[u] + 1
  <2>1. IsFiniteSet(0..dist[u])
        /\ Cardinality(0..dist[u]) = IF 0 > dist[u] THEN 0 ELSE dist[u] - 0 + 1
    BY <1>1, FS_Interval
  <2> QED BY <1>1, <2>1
<1>5. IsFiniteSet(T) /\ Cardinality(T) = devices_count - 1
  <2>1. IsFiniteSet(Device) /\ Cardinality(Device) = devices_count
    <3>1. 0 \in Int /\ devices_count - 1 \in Int /\ ~(0 > devices_count - 1)
          /\ (devices_count - 1) - 0 + 1 = devices_count
      BY DeviceFacts
    <3>2. /\ IsFiniteSet(0..(devices_count - 1))
          /\ Cardinality(0..(devices_count - 1)) =
               IF 0 > devices_count - 1 THEN 0 ELSE (devices_count - 1) - 0 + 1
      BY ONLY <3>1, FS_Interval
    <3> QED BY ONLY <3>1, <3>2 DEF Device
  <2> QED BY <2>1, FS_RemoveElement
<1>6. ~(Cardinality(T) < Cardinality(S))
  <2> SUFFICES ASSUME Cardinality(T) < Cardinality(S) PROVE FALSE
    OBVIOUS
  <2>1. \E x, y \in S : x # y /\ f[x] = f[y]
    <3> HIDE DEF f, S, T
    <3> QED BY <1>3, <1>4, <1>5, FS_PigeonHole
  <2> QED BY <1>2, <2>1
<1> QED BY <1>1, <1>4, <1>5, <1>6, DeviceFacts

(* When nothing nearer than k is queued, every device at most k links away has *)
(* been found.                                                                 *)
LEMMA NearIsFound ==
  ASSUME TypeOK, s \in Device, SearchOK, NEW k \in Nat,
         \A i \in 1..Len(q) : k <= dist[q[i]]
  PROVE  \A j \in Nat : j <= k => \A v \in Near(Links, s, j) : v \in Device /\ Found(v)
<1> DEFINE S == {j \in Nat : j <= k => \A v \in Near(Links, s, j) : v \in Device /\ Found(v)}
<1>1. 0 \in S
  <2>1. Found(s)
    BY DeviceFacts DEF SearchOK, TreeOK, Found
  <2> QED BY <2>1, NearSteps
<1>2. ASSUME NEW j \in S PROVE j + 1 \in S
  <2> SUFFICES ASSUME j + 1 <= k, NEW w \in Near(Links, s, j + 1)
               PROVE  w \in Device /\ Found(w)
    OBVIOUS
  <2>1. j \in Nat /\ \A v \in Near(Links, s, j) : v \in Device /\ Found(v)
    OBVIOUS
  <2>2. w \in Further(Links, Near(Links, s, j))
    <3>1. Near(Links, s, j + 1) = Further(Links, Near(Links, s, j))
      BY ONLY j \in Nat, NearNext
    <3> QED BY <3>1
  <2>3. CASE w \in Near(Links, s, j)
    BY <2>1, <2>3
  <2>4. CASE w \notin Near(Links, s, j)
    <3>1. PICK x \in Near(Links, s, j) : <<x, w>> \in Links
      BY <2>2, <2>4 DEF Further, Links
    <3>2. x \in Device /\ Found(x) /\ dist[x] \in Nat
      BY <2>1, <3>1, TypeFacts
    <3>3. dist[x] <= j
      <4>1. \A h \in 0..(dist[x] - 1) : x \notin Near(Links, s, h)
        BY <3>2, AtDistanceIsNear DEF SearchOK, DistancesOK
      <4> QED BY <2>1, <3>1, <3>2, <4>1
    <3>4. ~Queued(x)
      BY <2>1, <3>2, <3>3 DEF Queued
    <3>5. w \in adj[x] /\ adj[x] \subseteq Device
      BY <3>1, <3>2, TypeFacts
    <3> QED BY <3>2, <3>4, <3>5 DEF SearchOK, VisitedOK
  <2> QED BY <2>3, <2>4
<1>3. S = Nat
  <2> HIDE DEF S
  <2>1. S \in SUBSET Nat
    BY DEF S
  <2> QED BY <1>1, <1>2, <2>1, SetInduction
<1> QED BY <1>3

(* Init establishes the search from device 0, and Reconstruct that from the next: *)
(* only the source is found and queued.                                           *)
LEMMA SearchStarts ==
  ASSUME NEW src \in Device, s' = src, q' = <<src>>, adj' \in [Device -> SUBSET Device],
         dist' = [d \in Device |-> IF d = src THEN 0 ELSE INF],
         parent' = [d \in Device |-> NoParent]
  PROVE  SearchOK'
<1>1. 0 # INF /\ 0 \in Nat
  BY DeviceFacts
<1>2. \A v \in Device : (Found(v)' <=> v = src) /\ parent'[v] = NoParent
  BY <1>1 DEF Found
<1>3. dist'[src] = 0
  OBVIOUS
<1>4. TreeOK'
  BY <1>2, <1>3 DEF TreeOK
<1>5. DistancesOK'
  <2>1. AtDistance(Links', src, src, 0)
    <3>1. src \in Near(Links', src, 0) /\ \A j \in 0..(0 - 1) : FALSE
      BY NearSteps
    <3> QED BY <1>1, <3>1, AtDistanceIsNear
  <2> QED BY <1>2, <1>3, <2>1 DEF DistancesOK
<1>6. Len(q') = 1 /\ q'[1] = src /\ \A i \in 1..1 : i = 1
  OBVIOUS
<1>7. QueueOK'
  BY <1>2, <1>6 DEF QueueOK
<1>8. VisitedOK'
  <2>1. Queued(src)'
    BY <1>6 DEF Queued
  <2> QED BY <1>2, <2>1 DEF VisitedOK
<1> QED BY <1>4, <1>5, <1>7, <1>8 DEF SearchOK

LEMMA InitRInv ==
  ASSUME Init PROVE RInv
<1>1. PICK b \in Bandwidths : adj = [u \in Device |-> {v \in Device \ {u} : <<u, v>> \in b}]
  BY DEF Init
<1>2. adj \in [Device -> SUBSET Device]
  BY <1>1
<1>3. /\ s = 0 /\ q = <<0>>
      /\ dist = [d \in Device |-> IF d = 0 THEN 0 ELSE INF]
      /\ parent = [d \in Device |-> NoParent]
      /\ precomputed_routes = [d \in Device |-> [t \in Device |-> <<>>]]
  BY DEF Init
<1>4. 0 \in Device
  BY DeviceFacts
<1>5. <<0>> \in Seq(Device) /\ <<>> \in Seq(Device)
  BY <1>4
<1>6. precomputed_routes \in [Device -> [Device -> Seq(Device)]]
  BY <1>3, <1>5
<1>7. TypeOK
  BY <1>2, <1>3, <1>4, <1>5, <1>6 DEF TypeOK
<1>8. SearchOK
  <2>1. 0 # INF /\ 0 \in Nat
    BY DeviceFacts
  <2>2. \A v \in Device : (Found(v) <=> v = 0) /\ parent[v] = NoParent
    BY <1>3, <2>1 DEF Found
  <2>3. dist[0] = 0
    BY <1>3, <1>4
  <2>4. TreeOK
    BY <1>3, <1>4, <2>2, <2>3 DEF TreeOK
  <2>5. AtDistance(Links, 0, 0, 0)
    <3>1. 0 \in Near(Links, 0, 0) /\ \A j \in 0..(0 - 1) : FALSE
      BY NearSteps
    <3> QED BY <3>1, AtDistanceIsNear
  <2>6. DistancesOK
    BY <1>3, <2>2, <2>3, <2>5 DEF DistancesOK
  <2>7. Len(q) = 1 /\ q[1] = 0 /\ \A i \in 1..1 : i = 1
    BY <1>3
  <2>8. QueueOK
    BY <1>4, <2>2, <2>7 DEF QueueOK
  <2>9. VisitedOK
    BY <2>2, <2>7 DEF VisitedOK, Queued
  <2> QED BY <2>4, <2>6, <2>8, <2>9 DEF SearchOK
<1>9. RoutesAreShortest
  <2>1. \A d \in Device : ~(d < 0)
    BY DeviceFacts
  <2> QED BY <1>3, <2>1 DEF RoutesAreShortest
<1> QED BY <1>3, <1>4, <1>7, <1>8, <1>9 DEF RInv

(* What the visit of the front of the queue does, device by device. *)
LEMMA VisitFacts ==
  ASSUME RInv, Visit
  PROVE  \E u \in Device, k \in Nat, N \in Seq(Device) :
           /\ s \in Device /\ q \in Seq(Device) /\ Len(q) \in Nat \ {0}
           /\ u = q[1] /\ Found(u) /\ k = dist[u]
           /\ \A v : (\E i \in 1..Len(N) : N[i] = v) <=> v \in adj[u] /\ ~Found(v)
           /\ \A i, j \in 1..Len(N) : i < j => N[i] # N[j]
           /\ dist' = [v \in Device |-> IF v \in adj[u] /\ ~Found(v) THEN k + 1 ELSE dist[v]]
           /\ parent' = [v \in Device |-> IF v \in adj[u] /\ ~Found(v) THEN u ELSE parent[v]]
           /\ q' = Tail(q) \o N
           /\ UNCHANGED <<adj, s, precomputed_routes>>
<1> DEFINE u == Head(q)
           N == NotFound(u)
<1>1. q \in Seq(Device) /\ q # <<>> /\ TypeOK
  BY DEF RInv, TypeOK, Visit
<1>2. Len(q) \in Nat \ {0} /\ u = q[1] /\ 1 \in 1..Len(q)
  BY <1>1, EmptySeq
<1>3. u \in Device
  BY <1>1, <1>2, ElementOfSeq
<1>4. s \in Device
  BY <1>1 DEF RInv
<1>5. Found(u) /\ dist[u] \in Nat
  <2>1. QueueOK
    BY <1>4 DEF RInv, SearchOK
  <2> QED BY <1>1, <1>2, <1>3, <2>1, TypeFacts DEF QueueOK
<1>6. /\ N \in Seq(Device)
      /\ \A v : (\E i \in 1..Len(N) : N[i] = v) <=> v \in adj[u] /\ ~Found(v)
      /\ \A i, j \in 1..Len(N) : i < j => N[i] # N[j]
  <2> HIDE DEF u
  <2> QED BY <1>1, <1>3, NotFoundLists
<1>7. \A v : v \in SequencesExt!ToSet(N) <=> v \in adj[u] /\ ~Found(v)
  <2>1. DOMAIN N = 1..Len(N)
    <3> HIDE DEF N
    <3> QED BY <1>6
  <2>2. \A v : v \in SequencesExt!ToSet(N) <=> \E i \in 1..Len(N) : N[i] = v
    <3> HIDE DEF N
    <3> QED BY <2>1 DEF SequencesExt!ToSet
  <2> HIDE DEF u, N
  <2> QED BY <1>6, <2>2
<1>8. /\ dist' = [v \in Device |-> IF v \in SequencesExt!ToSet(N) THEN dist[u] + 1 ELSE dist[v]]
      /\ parent' = [v \in Device |-> IF v \in SequencesExt!ToSet(N) THEN u ELSE parent[v]]
      /\ q' = Tail(q) \o N
      /\ UNCHANGED <<adj, s, precomputed_routes>>
  BY DEF Visit
<1> HIDE DEF u, N
<1>9. /\ dist' = [v \in Device |-> IF v \in adj[u] /\ ~Found(v) THEN dist[u] + 1 ELSE dist[v]]
      /\ parent' = [v \in Device |-> IF v \in adj[u] /\ ~Found(v) THEN u ELSE parent[v]]
  BY <1>7, <1>8
<1>10. u \in Device /\ dist[u] \in Nat /\ N \in Seq(Device)
  BY <1>3, <1>5, <1>6
<1> USE <1>10
<1> WITNESS u \in Device, dist[u] \in Nat, N \in Seq(Device)
<1> QED BY <1>1, <1>2, <1>4, <1>5, <1>6, <1>8, <1>9

(* A visit keeps the search right. *)
LEMMA VisitRInv ==
  ASSUME RInv, Visit PROVE RInv'
<1>1. PICK u \in Device, k \in Nat, N \in Seq(Device) :
        /\ s \in Device /\ q \in Seq(Device) /\ Len(q) \in Nat \ {0}
        /\ u = q[1] /\ Found(u) /\ k = dist[u]
        /\ \A v : (\E i \in 1..Len(N) : N[i] = v) <=> v \in adj[u] /\ ~Found(v)
        /\ \A i, j \in 1..Len(N) : i < j => N[i] # N[j]
        /\ dist' = [v \in Device |-> IF v \in adj[u] /\ ~Found(v) THEN k + 1 ELSE dist[v]]
        /\ parent' = [v \in Device |-> IF v \in adj[u] /\ ~Found(v) THEN u ELSE parent[v]]
        /\ q' = Tail(q) \o N
        /\ UNCHANGED <<adj, s, precomputed_routes>>
  BY VisitFacts
<1> DEFINE New(v) == v \in adj[u] /\ ~Found(v)
           m == Len(q) - 1
           FoundNow(v) == dist'[v] # INF
<1>2. TypeOK /\ SearchOK
  BY <1>1 DEF RInv
<1>3. /\ \A v \in Device : dist'[v] = IF New(v) THEN k + 1 ELSE dist[v]
      /\ \A v \in Device : parent'[v] = IF New(v) THEN u ELSE parent[v]
  BY <1>1
<1>4. \A v : New(v) => v \in Device /\ <<u, v>> \in Links /\ k + 1 < devices_count
  BY <1>1, <1>2, TypeFacts, RoomForDistance DEF SearchOK
<1>5. \A v \in Device : FoundNow(v) <=> Found(v) \/ New(v)
  BY <1>3, <1>4, DeviceFacts DEF Found
<1>6. /\ q' \in Seq(Device) /\ m \in Nat /\ Len(N) \in Nat /\ Len(q') = m + Len(N)
      /\ \A i \in 1..m : i + 1 \in 1..Len(q) /\ q'[i] = q[i + 1]
      /\ \A i \in 1..Len(N) : q'[m + i] = N[i]
  <2>1. q # <<>>
    BY <1>1
  <2>2. /\ Tail(q) \in Seq(Device) /\ Len(Tail(q)) = m /\ m \in Nat
        /\ \A i \in 1..m : Tail(q)[i] = q[i + 1]
    BY <1>1, <2>1, HeadTailProperties
  <2>3. PICK r \in Seq(Device) : r = Tail(q)
    BY <2>2
  <2>4. Len(N) \in Nat
    BY LenProperties
  <2>5. /\ r \o N \in Seq(Device) /\ Len(r \o N) = Len(r) + Len(N)
        /\ \A i \in 1..Len(r) + Len(N) :
             (r \o N)[i] = IF i <= Len(r) THEN r[i] ELSE N[i - Len(r)]
    BY ConcatProperties
  <2>6. \A i \in 1..m : i \in 1..m + Len(N) /\ i <= m /\ i + 1 \in 1..Len(q)
    BY <1>1, <2>2, <2>4
  <2>7. \A i \in 1..Len(N) : m + i \in 1..m + Len(N) /\ ~(m + i <= m) /\ (m + i) - m = i
    BY <2>2, <2>4
  <2>8. q' = r \o N /\ Len(r) = m /\ \A i \in 1..m : r[i] = q[i + 1]
    BY <1>1, <2>2, <2>3
  <2> HIDE DEF m
  <2> QED BY ONLY <2>2, <2>4, <2>5, <2>6, <2>7, <2>8
<1>7. \A i \in 1..Len(q') : \/ i \in 1..m
                            \/ \E j \in 1..Len(N) : i = m + j
  <2> SUFFICES ASSUME NEW i \in 1..Len(q'), i \notin 1..m
               PROVE  \E j \in 1..Len(N) : i = m + j
    OBVIOUS
  <2>1. i - m \in 1..Len(N) /\ i = m + (i - m)
    BY <1>6
  <2> QED BY <2>1
<1>8. \A i \in 1..Len(N) : New(N[i])
  BY <1>1
<1>9. \A i \in 1..Len(q) : q[i] \in Device /\ Found(q[i]) /\ dist[q[i]] \in Nat
                            /\ k <= dist[q[i]] /\ dist[q[i]] <= k + 1
  <2> SUFFICES ASSUME NEW i \in 1..Len(q)
               PROVE  q[i] \in Device /\ Found(q[i]) /\ dist[q[i]] \in Nat
                        /\ k <= dist[q[i]] /\ dist[q[i]] <= k + 1
    OBVIOUS
  <2>1. q[i] \in Device
    BY <1>1, ElementOfSeq
  <2>2. QueueOK
    BY <1>2 DEF SearchOK
  <2>3. 1 \in 1..Len(q) /\ (i = 1 \/ 1 < i)
    BY <1>1
  <2>4. dist[q[i]] \in Nat
    BY <1>2, <2>1, TypeFacts
  <2> QED BY <1>1, <2>1, <2>2, <2>3, <2>4 DEF QueueOK
<1>10. Links' = Links /\ s' = s
  BY <1>1 DEF Links
<1>11. TypeOK'
  <2>1. dist' \in [Device -> Device \cup {INF}]
    <3>1. \A v \in Device : dist'[v] \in Device \cup {INF}
      <4> SUFFICES ASSUME NEW v \in Device PROVE dist'[v] \in Device \cup {INF}
        OBVIOUS
      <4>1. CASE New(v)
        <5>1. dist'[v] = k + 1
          BY <1>3, <4>1
        <5>2. k \in Nat /\ k + 1 < devices_count
          BY <1>1, <1>4, <4>1
        <5> QED BY <5>1, <5>2, DeviceFacts
      <4>2. CASE ~New(v)
        BY <1>2, <1>3, <4>2 DEF TypeOK
      <4> QED BY <4>1, <4>2
    <3> QED BY <1>1, <3>1
  <2>2. parent' \in [Device -> Device \cup {NoParent}]
    BY <1>1, <1>2 DEF TypeOK
  <2> QED BY <1>1, <1>2, <1>6, <2>1, <2>2 DEF TypeOK
<1>12. TreeOK'
  <2>1. TreeOK
    BY <1>2 DEF SearchOK
  <2>2. Found(s)
    BY <2>1, DeviceFacts DEF TreeOK, Found
  <2>3. dist'[s] = 0 /\ parent'[s] = NoParent
    BY <1>1, <1>3, <2>1, <2>2 DEF TreeOK
  <2>4. \A v \in Device : ~FoundNow(v) => parent'[v] = NoParent
    BY <1>3, <1>5, <2>1 DEF TreeOK
  <2>5. ASSUME NEW v \in Device, FoundNow(v), v # s
        PROVE  /\ parent'[v] \in Device /\ FoundNow(parent'[v])
               /\ <<parent'[v], v>> \in Links
               /\ dist'[v] = dist'[parent'[v]] + 1
    <3>1. CASE New(v)
      <4>1. parent'[v] = u /\ dist'[v] = k + 1 /\ <<u, v>> \in Links
        BY <1>3, <1>4, <3>1
      <4>2. FoundNow(u) /\ dist'[u] = k
        BY <1>1, <1>3, <1>5
      <4> QED BY <4>1, <4>2
    <3>2. CASE ~New(v)
      <4>1. Found(v) /\ parent'[v] = parent[v] /\ dist'[v] = dist[v]
        BY <1>3, <1>5, <2>5, <3>2
      <4>2. PICK w \in Device : w = parent[v] /\ Found(w)
        BY <2>1, <2>5, <4>1 DEF TreeOK
      <4>3. <<w, v>> \in Links /\ dist[v] = dist[w] + 1
        BY <2>1, <2>5, <4>1, <4>2 DEF TreeOK
      <4>4. FoundNow(w) /\ dist'[w] = dist[w]
        BY <1>3, <1>5, <4>2
      <4> QED BY <4>1, <4>2, <4>3, <4>4
    <3> QED BY <3>1, <3>2
  <2> QED BY <1>10, <2>3, <2>4, <2>5 DEF TreeOK, Found
<1>13. DistancesOK'
  <2> SUFFICES ASSUME NEW v \in Device, FoundNow(v)
               PROVE  AtDistance(Links, s, v, dist'[v])
    BY <1>10 DEF DistancesOK, Found
  <2>1. CASE ~New(v)
    BY <1>2, <1>3, <1>5, <2>1 DEF SearchOK, DistancesOK
  <2>2. CASE New(v)
    <3>1. u \in Near(Links, s, k)
      BY <1>1, <1>2, AtDistanceIsNear DEF SearchOK, DistancesOK
    <3>2. v \in Near(Links, s, k + 1)
      <4>1. v \in Further(Links, Near(Links, s, k))
        <5>1. <<u, v>> \in Links
          BY <1>4, <2>2
        <5> QED BY <3>1, <5>1 DEF Further
      <4>2. Near(Links, s, k + 1) = Further(Links, Near(Links, s, k))
        BY ONLY k \in Nat, NearNext
      <4> QED BY <4>1, <4>2
    <3>3. \A j \in Nat : j <= k => v \notin Near(Links, s, j)
      BY <1>1, <1>2, <1>9, <2>2, NearIsFound
    <3>4. \A j \in 0..((k + 1) - 1) : j \in Nat /\ j <= k
      OBVIOUS
    <3>5. AtDistance(Links, s, v, k + 1)
      BY <3>2, <3>3, <3>4, AtDistanceIsNear
    <3> QED BY <1>3, <2>2, <3>5
  <2> QED BY <2>1, <2>2
<1>14. QueueOK'
  <2>1. QueueOK
    BY <1>2 DEF SearchOK
  <2>2. \A i \in 1..m : /\ q'[i] \in Device /\ Found(q'[i]) /\ dist'[q'[i]] = dist[q'[i]]
                        /\ dist[q'[i]] \in Nat /\ k <= dist[q'[i]] /\ dist[q'[i]] <= k + 1
    <3> TAKE i \in 1..m
    <3>1. PICK v : v = q'[i] /\ v = q[i + 1] /\ i + 1 \in 1..Len(q)
      BY <1>6
    <3>2. /\ v \in Device /\ Found(v) /\ dist[v] \in Nat
          /\ k <= dist[v] /\ dist[v] <= k + 1
      BY <1>9, <3>1
    <3>3. dist'[v] = dist[v]
      BY <1>3, <3>2
    <3> QED BY ONLY <3>1, <3>2, <3>3
  <2>3. \A i \in 1..Len(N) : /\ q'[m + i] \in Device /\ New(q'[m + i])
                             /\ dist'[q'[m + i]] = k + 1
    BY <1>3, <1>4, <1>6, <1>8
  <2>4. \A i \in 1..Len(q') : q'[i] \in Device /\ FoundNow(q'[i])
    <3> TAKE i \in 1..Len(q')
    <3>1. CASE i \in 1..m
      <4>1. q'[i] \in Device /\ Found(q'[i])
        BY <2>2, <3>1
      <4> QED BY <1>5, <4>1
    <3>2. CASE i \notin 1..m
      <4>1. PICK j \in 1..Len(N) : i = m + j
        BY <1>7, <3>2
      <4>2. q'[i] \in Device /\ New(q'[i])
        BY <2>3, <4>1
      <4> QED BY <1>5, <4>2
    <3> QED BY <3>1, <3>2
  <2>5. ASSUME NEW i \in 1..Len(q'), NEW j \in 1..Len(q'), i < j
        PROVE  /\ q'[i] # q'[j] /\ dist'[q'[i]] <= dist'[q'[j]]
               /\ dist'[q'[j]] <= dist'[q'[i]] + 1
    <3>1. CASE i \in 1..m /\ j \in 1..m
      <4>1. /\ i + 1 \in 1..Len(q) /\ j + 1 \in 1..Len(q) /\ i + 1 < j + 1
            /\ q'[i] = q[i + 1] /\ q'[j] = q[j + 1]
        <5>1. /\ i + 1 \in 1..Len(q) /\ j + 1 \in 1..Len(q)
              /\ q'[i] = q[i + 1] /\ q'[j] = q[j + 1]
          BY <1>6, <3>1
        <5>2. i + 1 < j + 1
          BY <2>5
        <5> QED BY <5>1, <5>2
      <4>2. /\ q[i + 1] # q[j + 1] /\ dist[q[i + 1]] <= dist[q[j + 1]]
            /\ dist[q[j + 1]] <= dist[q[i + 1]] + 1
        BY <2>1, <4>1 DEF QueueOK
      <4>3. dist'[q'[i]] = dist[q'[i]] /\ dist'[q'[j]] = dist[q'[j]]
        BY <2>2, <3>1
      <4> QED BY ONLY <4>1, <4>2, <4>3
    <3>2. CASE i \in 1..m /\ j \notin 1..m
      <4>1. PICK h \in 1..Len(N) : j = m + h
        BY <1>7, <3>2
      <4>2. /\ Found(q'[i]) /\ dist'[q'[i]] = dist[q'[i]]
            /\ dist[q'[i]] \in Nat /\ k <= dist[q'[i]] /\ dist[q'[i]] <= k + 1
        BY <2>2, <3>2
      <4>3. ~Found(q'[j]) /\ dist'[q'[j]] = k + 1
        BY <2>3, <4>1
      <4> QED BY <4>2, <4>3
    <3>3. CASE i \notin 1..m
      <4>1. j \notin 1..m
        BY <1>6, <2>5, <3>3
      <4>2. PICK g \in 1..Len(N), h \in 1..Len(N) : i = m + g /\ j = m + h
        BY <1>7, <3>3, <4>1
      <4>3. g < h
        BY <1>6, <2>5, <4>2
      <4>4. q'[i] = N[g] /\ q'[j] = N[h] /\ N[g] # N[h]
        BY <1>1, <1>6, <4>2, <4>3
      <4>5. dist'[q'[i]] = k + 1 /\ dist'[q'[j]] = k + 1
        BY <2>3, <4>2
      <4> QED BY <4>4, <4>5
    <3> QED BY <3>1, <3>2, <3>3
  <2> QED BY <2>4, <2>5 DEF QueueOK, Found
<1>15. VisitedOK'
  <2> SUFFICES ASSUME NEW v \in Device, FoundNow(v), ~Queued(v)', NEW w \in adj[v]
               PROVE  FoundNow(w)
    BY <1>1 DEF VisitedOK, Found
  <2>1. w \in Device
    BY <1>2, TypeFacts
  <2>2. ~New(v)
    <3> SUFFICES ASSUME New(v) PROVE FALSE
      OBVIOUS
    <3>1. PICK i \in 1..Len(N) : N[i] = v
      BY <1>1
    <3>2. m + i \in 1..Len(q') /\ q'[m + i] = v
      BY <1>6, <3>1
    <3> QED BY <3>2 DEF Queued
  <2>3. Found(v)
    BY <1>5, <2>2
  <2>4. CASE v = u
    BY <1>5, <2>1, <2>4
  <2>5. CASE v # u
    <3>1. ~Queued(v)
      <4> SUFFICES ASSUME Queued(v) PROVE FALSE
        OBVIOUS
      <4>1. PICK i \in 1..Len(q) : q[i] = v
        BY DEF Queued
      <4>2. i # 1 /\ i - 1 \in 1..m /\ (i - 1) + 1 = i
        BY <1>1, <1>6, <2>5, <4>1
      <4>3. i - 1 \in 1..Len(q') /\ q'[i - 1] = v
        BY <1>6, <4>1, <4>2
      <4> QED BY <4>3 DEF Queued
    <3>2. Found(w)
      BY <1>2, <2>3, <3>1 DEF SearchOK, VisitedOK
    <3> QED BY <1>5, <2>1, <3>2
  <2> QED BY <2>4, <2>5
<1>16. RoutesAreShortest'
  BY <1>1, <1>10 DEF RInv, RoutesAreShortest
<1> QED BY <1>1, <1>11, <1>12, <1>13, <1>14, <1>15, <1>16 DEF RInv, SearchOK

(* Following the parents of a found device t ends in s after dist[t] steps, and *)
(* the devices met are a path over links, one link longer than the one before.  *)
LEMMA ParentsMakeAPath ==
  ASSUME TypeOK, s \in Device, TreeOK, DistancesOK, NEW t \in Device, Found(t)
  PROVE  /\ PathTo(t) \in Seq(Device)
         /\ IsPath(Links, s, t, PathTo(t))
         /\ Len(PathTo(t)) = dist[t] + 1
<1> DEFINE n == devices_count
           IsWalk(f) == f = [k \in 1..n |->
              IF k = 1 THEN <<t>>
              ELSE IF parent[Head(f[k - 1])] = NoParent THEN f[k - 1]
                   ELSE <<parent[Head(f[k - 1])]>> \o f[k - 1]]
           walk == CHOOSE f : IsWalk(f)
           Longer(x) == IF Head(x) \in Device /\ parent[Head(x)] \in Device
                        THEN <<parent[Head(x)]>> \o x ELSE x
           G == [p \in Nat \X Seq(Device) |-> Longer(p[2])]
<1>1. n \in Nat \ {0} /\ 1 \in 1..n /\ n \in 1..n
  BY DeviceFacts
<1>2. ASSUME NEW x \in Seq(Device) PROVE Longer(x) \in Seq(Device)
  <2>1. CASE Head(x) \in Device /\ parent[Head(x)] \in Device
    <3>1. PICK c \in Device : c = parent[Head(x)]
      BY <2>1
    <3>2. <<c>> \in Seq(Device)
      OBVIOUS
    <3>3. <<c>> \o x \in Seq(Device)
      BY <3>2, ConcatProperties
    <3> QED BY <2>1, <3>1, <3>3
  <2>2. CASE ~(Head(x) \in Device /\ parent[Head(x)] \in Device)
    BY <2>2
  <2> QED BY <2>1, <2>2
<1>3. G \in [Nat \X Seq(Device) -> Seq(Device)]
  <2> HIDE DEF Longer
  <2> QED BY <1>2
<1>4. PICK g \in [0..n -> Seq(Device)] : IsIteration(g, <<t>>, G, n)
  <2>1. <<t>> \in Seq(Device) /\ n \in Nat
    BY <1>1
  <2> HIDE DEF G, n
  <2> QED BY <1>3, <2>1, Iteration
<1>5. /\ g[0] = <<t>>
      /\ \A k \in 1..n : g[k - 1] \in Seq(Device) /\ g[k] = Longer(g[k - 1])
  <2>1. g[0] = <<t>>
    BY <1>4 DEF IsIteration
  <2> SUFFICES ASSUME NEW k \in 1..n
               PROVE  g[k - 1] \in Seq(Device) /\ g[k] = Longer(g[k - 1])
    BY <2>1
  <2>2. k - 1 \in 0..n /\ k \in Nat
    BY <1>1
  <2>3. g[k - 1] \in Seq(Device)
    BY <1>4, <2>2
  <2>4. <<k, g[k - 1]>> \in Nat \X Seq(Device)
    BY <2>2, <2>3
  <2>5. g[k] = G[<<k, g[k - 1]>>]
    BY <1>4 DEF IsIteration
  <2> HIDE DEF Longer
  <2> QED BY <2>3, <2>4, <2>5
<1> HIDE DEF G
(* The devices of a walk of k turns. *)
<1> DEFINE Walked(x) ==
             /\ x \in Seq(Device) /\ x # <<>> /\ x[Len(x)] = t
             /\ \A i \in 1..Len(x) : /\ Found(x[i])
                                     /\ dist[x[i]] + Len(x) = dist[t] + i
             /\ \A i \in 1..(Len(x) - 1) : <<x[i], x[i + 1]>> \in Links
           Turns(x, k) == Len(x) = k + 1 \/ (Len(x) <= k /\ Head(x) = s)
<1>6. ASSUME NEW x \in Seq(Device), NEW k \in Nat, Walked(x), Turns(x, k)
      PROVE  /\ Walked(Longer(x)) /\ Turns(Longer(x), k + 1)
             /\ Longer(x) = IF parent[Head(x)] = NoParent THEN x
                            ELSE <<parent[Head(x)]>> \o x
  <2>1. PICK h \in Device : h = Head(x) /\ h = x[1] /\ Found(h)
                            /\ dist[h] + Len(x) = dist[t] + 1 /\ Len(x) \in Nat \ {0}
    <3>1. Len(x) \in Nat \ {0} /\ 1 \in 1..Len(x) /\ Head(x) = x[1]
      BY <1>6, EmptySeq
    <3>2. Head(x) \in Device
      BY <3>1, ElementOfSeq
    <3> QED BY <1>6, <3>1, <3>2
  <2>2. CASE h = s
    <3>1. parent[h] = NoParent /\ ~(parent[h] \in Device)
      BY <2>2, DeviceFacts DEF TreeOK
    <3>2. Longer(x) = x
      BY <2>1, <3>1
    <3>3. Turns(x, k + 1)
      <4>1. Len(x) <= k + 1
        BY <1>6, <2>1
      <4> QED BY <2>1, <2>2, <4>1
    <3> HIDE DEF Longer, Walked, Turns
    <3> QED BY <1>6, <2>1, <3>1, <3>2, <3>3
  <2>3. CASE h # s
    <3>1. PICK c \in Device : c = parent[h] /\ Found(c) /\ <<c, h>> \in Links
                              /\ dist[h] = dist[c] + 1 /\ c # NoParent
      BY <2>1, <2>3, DeviceFacts DEF TreeOK
    <3>2. PICK y : y = <<c>> \o x
      OBVIOUS
    <3>3. Longer(x) = y
      BY <2>1, <3>1, <3>2
    <3>4. /\ y \in Seq(Device) /\ Len(y) = Len(x) + 1 /\ y[1] = c
          /\ \A i \in 1..Len(x) : y[i + 1] = x[i]
      <4>1. <<c>> \in Seq(Device) /\ Len(<<c>>) = 1 /\ <<c>>[1] = c
        OBVIOUS
      <4>2. PICK b \in Seq(Device) : b = <<c>> /\ Len(b) = 1 /\ b[1] = c
        BY <4>1
      <4>3. /\ b \o x \in Seq(Device) /\ Len(b \o x) = Len(b) + Len(x)
            /\ \A i \in 1..Len(b) + Len(x) :
                 (b \o x)[i] = IF i <= Len(b) THEN b[i] ELSE x[i - Len(b)]
        BY ConcatProperties
      <4>4. /\ 1 \in 1..1 + Len(x) /\ 1 <= 1
            /\ \A i \in 1..Len(x) : i + 1 \in 1..1 + Len(x) /\ ~(i + 1 <= 1) /\ (i + 1) - 1 = i
        BY <2>1
      <4>5. 1 + Len(x) = Len(x) + 1
        BY <2>1
      <4> QED BY ONLY <3>2, <4>2, <4>3, <4>4, <4>5
    <3>5. y # <<>> /\ Head(y) = c
      BY <2>1, <3>4
    <3>6. y[Len(y)] = t
      BY <1>6, <2>1, <3>4
    <3>7. dist[c] \in Nat /\ dist[h] \in Nat /\ dist[t] \in Nat
          /\ \A i \in 1..Len(x) : x[i] \in Device /\ dist[x[i]] \in Nat
      BY <3>1, TypeFacts, ElementOfSeq
    <3>8. \A i \in 1..Len(y) : i = 1 \/ \E j \in 1..Len(x) : i = j + 1
      <4> SUFFICES ASSUME NEW i \in 1..Len(y), i # 1
                   PROVE  \E j \in 1..Len(x) : i = j + 1
        OBVIOUS
      <4>1. i - 1 \in 1..Len(x) /\ i = (i - 1) + 1
        BY <2>1, <3>4
      <4> QED BY <4>1
    <3>9. \A i \in 1..Len(y) : Found(y[i]) /\ dist[y[i]] + Len(y) = dist[t] + i
      <4> SUFFICES ASSUME NEW i \in 1..Len(y)
                   PROVE  Found(y[i]) /\ dist[y[i]] + Len(y) = dist[t] + i
        OBVIOUS
      <4>1. CASE i = 1
        <5>1. /\ y[i] = c /\ Found(c) /\ Len(y) = Len(x) + 1 /\ Len(x) \in Nat
              /\ dist[h] = dist[c] + 1 /\ dist[h] + Len(x) = dist[t] + 1
          BY <2>1, <3>1, <3>4, <4>1
        <5>2. dist[c] + (Len(x) + 1) = dist[t] + 1
          <6>1. \A a, b, l, d \in Nat : a = b + 1 /\ a + l = d + 1 => b + (l + 1) = d + 1
            OBVIOUS
          <6>2. dist[c] \in Nat /\ dist[h] \in Nat /\ dist[t] \in Nat
            BY <3>7
          <6> QED BY ONLY <5>1, <6>1, <6>2
        <5> QED BY <4>1, <5>1, <5>2
      <4>2. CASE i # 1
        <5>1. PICK j \in 1..Len(x) : i = j + 1
          BY <3>8, <4>2
        <5>2. y[i] = x[j] /\ Found(x[j]) /\ dist[x[j]] + Len(x) = dist[t] + j
          BY <1>6, <3>4, <5>1
        <5>3. dist[x[j]] \in Nat /\ dist[t] \in Nat /\ Len(x) \in Nat /\ j \in Nat
          BY <2>1, <3>7
        <5>4. dist[x[j]] + (Len(x) + 1) = dist[t] + (j + 1)
          <6>1. PICK a \in Nat, l \in Nat, d \in Nat, m \in Nat :
                  a = dist[x[j]] /\ l = Len(x) /\ d = dist[t] /\ m = j
            BY <5>3
          <6>2. a + l = d + m
            BY <5>2, <6>1
          <6>3. a \in Nat /\ l \in Nat /\ d \in Nat /\ m \in Nat
            BY <6>1
          <6>4. a + (l + 1) = d + (m + 1)
            BY ONLY <6>2, <6>3
          <6> QED BY <6>1, <6>4
        <5>5. Len(y) = Len(x) + 1
          BY <3>4
        <5> QED BY ONLY <5>1, <5>2, <5>4, <5>5
      <4> QED BY <4>1, <4>2
    <3>10. \A i \in 1..(Len(y) - 1) : <<y[i], y[i + 1]>> \in Links
      <4> SUFFICES ASSUME NEW i \in 1..(Len(y) - 1) PROVE <<y[i], y[i + 1]>> \in Links
        OBVIOUS
      <4>1. i \in 1..Len(x) /\ y[i + 1] = x[i]
        BY <2>1, <3>4
      <4>2. CASE i = 1
        BY <2>1, <3>1, <3>4, <4>1, <4>2
      <4>3. CASE i # 1
        <5>1. i - 1 \in 1..Len(x) /\ i - 1 \in 1..(Len(x) - 1) /\ (i - 1) + 1 = i
          BY <2>1, <4>1, <4>3
        <5>2. y[i] = x[i - 1] /\ <<x[i - 1], x[i]>> \in Links
          <6>1. y[(i - 1) + 1] = x[i - 1]
            BY <3>4, <5>1
          <6>2. <<x[i - 1], x[(i - 1) + 1]>> \in Links
            BY <1>6, <5>1
          <6> QED BY ONLY <5>1, <6>1, <6>2
        <5> QED BY <4>1, <5>2
      <4> QED BY <4>2, <4>3
    <3>11. Walked(y)
      BY <3>4, <3>5, <3>6, <3>9, <3>10
    <3>12. Turns(y, k + 1)
      <4>1. Len(x) = k + 1
        BY <1>6, <2>1, <2>3
      <4> QED BY <3>4, <4>1
    <3>13. parent[Head(x)] = c
      BY <2>1, <3>1
    <3> HIDE DEF Longer, Walked, Turns
    <3> QED BY <3>1, <3>2, <3>3, <3>11, <3>12, <3>13
  <2> QED BY <2>2, <2>3
<1> HIDE DEF Longer
<1>7. ASSUME NEW k \in 0..n PROVE g[k] \in Seq(Device) /\ Walked(g[k]) /\ Turns(g[k], k)
  <2> DEFINE S == {j \in Nat : j <= n =>
                      g[j] \in Seq(Device) /\ Walked(g[j]) /\ Turns(g[j], j)}
  <2>1. 0 \in S
    <3>1. PICK x : x = <<t>>
      OBVIOUS
    <3>2. /\ x \in Seq(Device) /\ x # <<>> /\ Len(x) = 1 /\ x[1] = t
          /\ \A i \in 1..1 : i = 1
      BY <3>1
    <3>3. Walked(x) /\ Turns(x, 0)
      BY <3>2, TypeFacts
    <3> HIDE DEF Walked, Turns
    <3> QED BY <1>5, <3>1, <3>2, <3>3
  <2>2. ASSUME NEW j \in S PROVE j + 1 \in S
    <3> HIDE DEF Walked, Turns
    <3> SUFFICES ASSUME j + 1 <= n
                 PROVE  /\ g[j + 1] \in Seq(Device)
                        /\ Walked(g[j + 1]) /\ Turns(g[j + 1], j + 1)
      OBVIOUS
    <3>1. j \in Nat /\ j + 1 \in 1..n /\ (j + 1) - 1 = j /\ j <= n
      BY <1>1
    <3>2. g[j] \in Seq(Device) /\ Walked(g[j]) /\ Turns(g[j], j)
      BY <3>1
    <3>3. g[j + 1] = Longer(g[j])
      BY <1>5, <3>1
    <3> QED BY <1>2, <1>6, <3>1, <3>2, <3>3
  <2>3. S = Nat
    <3> HIDE DEF S
    <3>1. S \in SUBSET Nat
      BY DEF S
    <3> QED BY <2>1, <2>2, <3>1, SetInduction
  <2> HIDE DEF Walked, Turns
  <2>4. k \in Nat /\ k <= n
    BY <1>1
  <2>5. k \in S
    BY <2>3, <2>4
  <2> QED BY <2>4, <2>5
<1> HIDE DEF Walked, Turns
<1>8. ASSUME NEW k \in 1..n, k # 1
      PROVE  /\ k - 1 \in 1..n
             /\ g[k - 1] = IF parent[Head(g[(k - 1) - 1])] = NoParent THEN g[(k - 1) - 1]
                           ELSE <<parent[Head(g[(k - 1) - 1])]>> \o g[(k - 1) - 1]
  <2>1. PICK j \in Nat : j = (k - 1) - 1 /\ j \in 0..n /\ k - 1 \in 1..n
    <3>1. (k - 1) - 1 \in Nat /\ (k - 1) - 1 \in 0..n /\ k - 1 \in 1..n
      BY <1>1, <1>8
    <3> QED BY <3>1
  <2>2. g[k - 1] = Longer(g[j])
    BY <1>5, <2>1
  <2>3. g[j] \in Seq(Device) /\ Walked(g[j]) /\ Turns(g[j], j)
    BY <1>7, <2>1
  <2>4. Longer(g[j]) = IF parent[Head(g[j])] = NoParent THEN g[j]
                       ELSE <<parent[Head(g[j])]>> \o g[j]
    BY <1>6, <2>1, <2>3
  <2> QED BY ONLY <2>1, <2>2, <2>4
<1>9. IsWalk([k \in 1..n |-> g[k - 1]])
  <2> DEFINE h == [k \in 1..n |-> g[k - 1]]
  <2> SUFFICES ASSUME NEW k \in 1..n
               PROVE  h[k] = IF k = 1 THEN <<t>>
                             ELSE IF parent[Head(h[k - 1])] = NoParent THEN h[k - 1]
                                  ELSE <<parent[Head(h[k - 1])]>> \o h[k - 1]
    OBVIOUS
  <2>1. CASE k = 1
    <3>1. 1 - 1 = 0
      OBVIOUS
    <3> QED BY <1>5, <2>1, <3>1
  <2>2. CASE k # 1
    <3>1. k - 1 \in 1..n
      BY <1>8, <2>2
    <3>2. h[k] = g[k - 1] /\ h[k - 1] = g[(k - 1) - 1]
      BY <3>1
    <3> HIDE DEF h
    <3> QED BY <1>8, <2>2, <3>2
  <2> QED BY <2>1, <2>2
<1>10. IsWalk(walk)
  <2> HIDE DEF IsWalk
  <2> QED BY <1>9
<1>11. PathTo(t) = walk[n]
  BY DEF PathTo
<1> HIDE DEF walk
<1>12. walk[n] = g[n - 1]
  <2> DEFINE S == {j \in Nat : j + 1 <= n => walk[j + 1] = g[j]}
  <2>1. 0 \in S
    <3>1. 0 + 1 = 1 /\ walk[1] = <<t>>
      BY <1>1, <1>10
    <3> QED BY <1>5, <3>1
  <2>2. ASSUME NEW j \in S PROVE j + 1 \in S
    <3> SUFFICES ASSUME (j + 1) + 1 <= n PROVE walk[(j + 1) + 1] = g[j + 1]
      OBVIOUS
    <3>1. PICK k \in 1..n : k = (j + 1) + 1 /\ k # 1 /\ k - 1 = j + 1 /\ (k - 1) - 1 = j
      BY <1>1
    <3>2. walk[k - 1] = g[(k - 1) - 1]
      <4>1. j \in Nat /\ j + 1 <= n
        BY <1>1
      <4>2. walk[j + 1] = g[j]
        BY <4>1
      <4> QED BY ONLY <3>1, <4>2
    <3>3. walk[k] = IF parent[Head(walk[k - 1])] = NoParent THEN walk[k - 1]
                    ELSE <<parent[Head(walk[k - 1])]>> \o walk[k - 1]
      BY <1>10, <3>1
    <3>4. walk[k] = g[k - 1]
      BY <1>8, <3>1, <3>2, <3>3
    <3> QED BY ONLY <3>1, <3>4
  <2>3. S = Nat
    <3> HIDE DEF S
    <3>1. S \in SUBSET Nat
      BY DEF S
    <3> QED BY <2>1, <2>2, <3>1, SetInduction
  <2>4. n - 1 \in Nat /\ (n - 1) + 1 = n /\ n <= n
    BY <1>1
  <2>5. n - 1 \in S
    BY <2>3, <2>4
  <2> QED BY <2>4, <2>5
<1>13. PICK p \in Seq(Device) : p = PathTo(t) /\ Walked(p) /\ Turns(p, n - 1)
  <2>1. n - 1 \in 0..n
    BY <1>1
  <2> QED BY <1>7, <1>11, <1>12, <2>1
<1> USE DEF Walked, Turns
<1>14. /\ Len(p) \in Nat \ {0} /\ 1 \in 1..Len(p) /\ Head(p) = p[1]
       /\ \A i \in 1..Len(p) : p[i] \in Device /\ dist[p[i]] \in Nat
       /\ dist[t] \in Nat /\ dist[t] < n
  <2>1. Len(p) \in Nat \ {0} /\ 1 \in 1..Len(p) /\ Head(p) = p[1]
    BY <1>13, EmptySeq
  <2>2. \A i \in 1..Len(p) : p[i] \in Device /\ dist[p[i]] \in Nat
    BY ElementOfSeq, TypeFacts
  <2> QED BY <2>1, <2>2, TypeFacts
<1>15. dist[p[1]] + Len(p) = dist[t] + 1 /\ Found(p[1])
  BY <1>13, <1>14
<1>16. dist[p[1]] = 0 /\ p[1] = s
  <2>1. CASE Len(p) = (n - 1) + 1
    <3>1. dist[p[1]] = 0
      BY <1>1, <1>14, <1>15, <2>1
    <3>2. p[1] \in Near(Links, s, 0)
      <4>1. AtDistance(Links, s, p[1], 0)
        BY <1>14, <1>15, <3>1 DEF DistancesOK
      <4> QED BY <4>1, AtDistanceIsNear
    <3> QED BY <3>1, <3>2, NearSteps
  <2>2. CASE Head(p) = s
    BY <1>14, <2>2 DEF TreeOK
  <2> QED BY <1>13, <2>1, <2>2
<1>17. Len(p) = dist[t] + 1
  BY <1>14, <1>15, <1>16
<1>18. \A i, j \in 1..Len(p) : p[i] = p[j] => i = j
  <2> SUFFICES ASSUME NEW i \in 1..Len(p), NEW j \in 1..Len(p), p[i] = p[j]
               PROVE  i = j
    OBVIOUS
  <2>1. dist[p[i]] + Len(p) = dist[t] + i /\ dist[p[j]] + Len(p) = dist[t] + j
    BY <1>13
  <2> QED BY <1>14, <2>1
<1>19. p # <<>> /\ p[Len(p)] = t /\ \A i \in 1..(Len(p) - 1) : <<p[i], p[i + 1]>> \in Links
  BY <1>13
<1> HIDE DEF Walked, Turns
<1>20. IsPath(Links, s, t, p)
  BY <1>16, <1>18, <1>19 DEF IsPath
<1> QED BY <1>13, <1>17, <1>20

(* A search that has come to its end has found what can be reached. *)
LEMMA FoundIsReachable ==
  ASSUME TypeOK, s \in Device, SearchOK, q = <<>>, NEW t \in Device
  PROVE  Reachable(Links, s, t, devices_count) <=> Found(t)
<1>1. devices_count \in Nat /\ dist[t] \in Nat /\ dist[t] <= devices_count
  BY DeviceFacts, TypeFacts
<1>2. \A i \in 1..Len(q) : devices_count <= dist[q[i]]
  <2>1. Len(q) = 0 /\ \A i \in 1..0 : FALSE
    OBVIOUS
  <2> QED BY ONLY <2>1
<1>3. t \in Near(Links, s, devices_count) => Found(t)
  BY <1>1, <1>2, NearIsFound
<1>4. Found(t) => t \in Near(Links, s, devices_count)
  <2> SUFFICES ASSUME Found(t) PROVE t \in Near(Links, s, devices_count)
    OBVIOUS
  <2>1. t \in Near(Links, s, dist[t])
    BY <1>1, AtDistanceIsNear DEF SearchOK, DistancesOK
  <2> QED BY <1>1, <2>1, NearGrows
<1> QED BY <1>1, <1>3, <1>4, ReachableIsNear

(* What is stored for a destination when the search from s has ended. *)
LEMMA RouteIsShortest ==
  ASSUME TypeOK, s \in Device, SearchOK, q = <<>>, NEW t \in Device
  PROVE  /\ RouteTo(t) \in Seq(Device)
         /\ IF Reachable(Links, s, t, devices_count)
            THEN IsPath(Links, s, t, RouteTo(t))
                 /\ AtDistance(Links, s, t, Len(RouteTo(t)) - 1)
            ELSE RouteTo(t) = <<s, t>>
<1>1. /\ dist[s] = 0 /\ Found(s) /\ (Found(t) /\ t # s => parent[t] # NoParent)
      /\ (~Found(t) => parent[t] = NoParent)
  BY DeviceFacts DEF SearchOK, TreeOK, Found
<1>2. dist[t] \in Nat
  BY TypeFacts
<1>3. CASE t = s
  <2>1. RouteTo(t) = <<s>>
    BY <1>3 DEF RouteTo
  <2>2. /\ <<s>> \in Seq(Device) /\ <<s>> # <<>> /\ Len(<<s>>) = 1 /\ <<s>>[1] = s
        /\ \A i \in 1..1 : i = 1
        /\ \A i \in 1..(1 - 1) : FALSE
        /\ 1 - 1 = 0
    OBVIOUS
  <2>3. IsPath(Links, s, s, <<s>>)
    BY <2>2 DEF IsPath
  <2>4. AtDistance(Links, s, s, 0)
    BY <1>1 DEF SearchOK, DistancesOK
  <2> QED BY <1>1, <1>3, <2>1, <2>2, <2>3, <2>4, FoundIsReachable
<1>4. CASE t # s /\ ~Found(t)
  <2>1. RouteTo(t) = <<s, t>> /\ <<s, t>> \in Seq(Device)
    BY <1>1, <1>4 DEF RouteTo
  <2> QED BY <1>4, <2>1, FoundIsReachable
<1>5. CASE t # s /\ Found(t)
  <2>1. RouteTo(t) = PathTo(t)
    BY <1>1, <1>5 DEF RouteTo
  <2>2. /\ PathTo(t) \in Seq(Device) /\ IsPath(Links, s, t, PathTo(t))
        /\ Len(PathTo(t)) = dist[t] + 1
    BY <1>5, ParentsMakeAPath DEF SearchOK
  <2>3. Len(PathTo(t)) - 1 = dist[t]
    BY <1>2, <2>2
  <2>4. AtDistance(Links, s, t, dist[t])
    BY <1>5 DEF SearchOK, DistancesOK
  <2> QED BY <1>5, <2>1, <2>2, <2>3, <2>4, FoundIsReachable
<1> QED BY <1>3, <1>4, <1>5

LEMMA ReconstructRInv ==
  ASSUME RInv, Reconstruct PROVE RInv'
<1>1. /\ s \in Device /\ q = <<>>
      /\ precomputed_routes' = [precomputed_routes EXCEPT ![s] = [t \in Device |-> RouteTo(t)]]
      /\ s' = s + 1
      /\ dist' = [d \in Device |-> IF d = s + 1 THEN 0 ELSE INF]
      /\ parent' = [d \in Device |-> NoParent]
      /\ q' = IF s + 1 \in Device THEN <<s + 1>> ELSE <<>>
      /\ adj' = adj
  BY DEF Reconstruct, SearchFrom
<1>2. TypeOK /\ SearchOK /\ RoutesAreShortest
  BY <1>1 DEF RInv
<1>3. PICK n \in Device, z \in Nat : n = s /\ z = n + 1 /\ (z \in Device \/ z = devices_count)
  <2>1. s + 1 \in Nat /\ (s + 1 \in Device \/ s + 1 = devices_count)
    BY <1>1, DeviceFacts
  <2> QED BY <1>1, <2>1
<1>4. \A t \in Device :
        /\ RouteTo(t) \in Seq(Device)
        /\ IF Reachable(Links, n, t, devices_count)
           THEN IsPath(Links, n, t, RouteTo(t))
                /\ AtDistance(Links, n, t, Len(RouteTo(t)) - 1)
           ELSE RouteTo(t) = <<n, t>>
  BY <1>1, <1>2, <1>3, RouteIsShortest
<1>5. precomputed_routes \in [Device -> [Device -> Seq(Device)]]
  BY <1>2 DEF TypeOK
<1>6. PICK R \in [Device -> Seq(Device)] : R = [t \in Device |-> RouteTo(t)]
  BY <1>4
<1>7. /\ precomputed_routes' \in [Device -> [Device -> Seq(Device)]]
      /\ precomputed_routes'[n] = R
      /\ \A d \in Device : d # n => precomputed_routes'[d] = precomputed_routes[d]
  <2>1. precomputed_routes' = [precomputed_routes EXCEPT ![n] = R]
    BY <1>1, <1>3, <1>6
  <2> QED BY ONLY <1>3, <1>5, <1>6, <2>1
<1>8. TypeOK'
  <2>1. s' \in Device \cup {devices_count}
    BY <1>1, <1>3
  <2>2. q' \in Seq(Device)
    <3>1. <<>> \in Seq(Device) /\ (z \in Device => <<z>> \in Seq(Device))
      OBVIOUS
    <3> QED BY <1>1, <1>3, <3>1
  <2>3. dist' \in [Device -> Device \cup {INF}]
    <3>1. 0 \in Device
      BY ONLY CountAssumption DEF Device
    <3> QED BY <1>1, <3>1
  <2>4. parent' \in [Device -> Device \cup {NoParent}]
    BY <1>1
  <2> QED BY <1>1, <1>2, <1>7, <2>1, <2>2, <2>3, <2>4 DEF TypeOK
<1>9. s' \in Device => SearchOK'
  <2> SUFFICES ASSUME z \in Device PROVE SearchOK'
    BY <1>1, <1>3
  <2>1. /\ s' = z /\ q' = <<z>> /\ adj' \in [Device -> SUBSET Device]
        /\ dist' = [d \in Device |-> IF d = z THEN 0 ELSE INF]
        /\ parent' = [d \in Device |-> NoParent]
    BY <1>1, <1>2, <1>3 DEF TypeOK
  <2> QED BY <2>1, SearchStarts
<1>10. s' \notin Device => q' = <<>>
  BY <1>1
<1>11. RoutesAreShortest'
  <2>1. PICK L : L = Links /\ L = Links'
    BY <1>1 DEF Links
  <2> SUFFICES ASSUME NEW src \in Device, src < z, NEW t \in Device
               PROVE  LET r == precomputed_routes'[src][t]
                      IN  IF Reachable(L, src, t, devices_count)
                          THEN IsPath(L, src, t, r) /\ AtDistance(L, src, t, Len(r) - 1)
                          ELSE r = <<src, t>>
    BY <1>1, <1>3, <2>1 DEF RoutesAreShortest
  <2>2. CASE src = n
    <3>1. precomputed_routes'[src][t] = RouteTo(t)
      BY <1>6, <1>7, <2>2
    <3> QED BY <1>4, <2>1, <2>2, <3>1
  <2>3. CASE src # n
    <3>1. src < n
      BY <1>3, <2>3, DeviceFacts
    <3>2. precomputed_routes'[src][t] = precomputed_routes[src][t]
      BY <1>7, <2>3
    <3> QED BY <1>2, <1>3, <2>1, <3>1, <3>2 DEF RoutesAreShortest
  <2> QED BY <2>2, <2>3
<1> QED BY <1>8, <1>9, <1>10, <1>11 DEF RInv

LEMMA StutterRInv ==
  ASSUME RInv, UNCHANGED vars PROVE RInv'
<1>1. UNCHANGED <<adj, s, q, dist, parent, precomputed_routes>> /\ Links' = Links
  BY DEF vars, Links
<1>2. TypeOK' = TypeOK
  BY <1>1 DEF TypeOK
<1>3. SearchOK' = SearchOK
  BY <1>1 DEF SearchOK, TreeOK, DistancesOK, QueueOK, VisitedOK, Found, Queued
<1>4. RoutesAreShortest' = RoutesAreShortest
  BY <1>1 DEF RoutesAreShortest
<1> QED BY <1>1, <1>2, <1>3, <1>4 DEF RInv

(* The invariant holds in every state: what all theorems below rest on. *)
THEOREM RoutesInvariant == Spec => []RInv
<1>1. RInv /\ [Next]_vars => RInv'
  BY VisitRInv, ReconstructRInv, StutterRInv DEF Next
<1> QED BY <1>1, InitRInv, PTL DEF Spec

(* The variables keep their types: above all, no device that is found is given *)
(* the distance INF that marks those that are not.                             *)
THEOREM RoutesTypeCorrect == Spec => []TypeOK
<1>1. RInv => TypeOK
  BY DEF RInv
<1> QED BY <1>1, RoutesInvariant, PTL

(* What the search knows is right at every moment. *)
THEOREM SearchKnowsDistances == Spec => []SearchIsExact
<1>1. RInv => SearchIsExact
  BY DEF RInv, SearchOK, TreeOK, DistancesOK, QueueOK, SearchIsExact, Found
<1> QED BY <1>1, RoutesInvariant, PTL

(* Every route stored is a shortest path, or the stub to a device out of reach. *)
THEOREM StoredRoutesAreShortest == Spec => []RoutesAreShortest
<1>1. RInv => RoutesAreShortest
  BY DEF RInv
<1> QED BY <1>1, RoutesInvariant, PTL
=============================================================================
