------------------------ MODULE ReconfigurableProofs ------------------------
(***************************************************************************)
(* Proofs about Reconfigurable for every number of devices and NPUs, every *)
(* set of chunks and of topologies, and every bound on the program's calls.*)
(***************************************************************************)
EXTENDS Reconfigurable, ProofLemmas, FiniteSetTheorems, TLAPS

(* The entries of a set w of entries for one event. *)
At(w, ev) == {e \in w : e.event = ev}

(* The links that an entry of w is going to free. *)
FreeComing(w) == {l \in Link : At(w, Free(l)) # {}}

(* Nothing waits in the past, identities are those handed out, and no two *)
(* entries share one.                                                     *)
CalendarOKAt(w, t, n) ==
  /\ w \in SUBSET Entry
  /\ \A e \in w : e.time >= t /\ e.id <= n
  /\ \A e, f \in w : e.id = f.id => e = f
CalendarOK == CalendarOKAt(waiting, now, issued)

(* A drain installs a topology the program has asked for. *)
TopologyRequested == reconfiguring => requested.bandwidths \in TopoId

(* No chunk has an iteration the manager has not reached. *)
ChunksKeepUp == \A c \in Chunk : chunk_iteration[c] <= topology_iteration

(* A chunk is sent only when the devices have routes. *)
RoutesInstalled == \A c \in Chunk : Sent(c) => installed.bandwidths \in TopoId

(* A callback is invoked at most once, exactly when one device is left of the *)
(* route, and until then the route leads over links.                          *)
CallbackAtMostOnce ==
  \A c \in Chunk :
     /\ invoked[c] \in {0, 1}
     /\ invoked[c] = 1 <=> Len(route[c]) = 1
     /\ \A i \in 1..(Len(route[c]) - 1) : <<route[c][i], route[c][i + 1]>> \in Link

(* With short routes, what is left of a route is short too, and ends where the *)
(* program sent the chunk.                                                     *)
ShortRoutesStayShort ==
  ShortRoutes =>
    \A c \in Chunk : Sent(c) => /\ Len(route[c]) <= 3
                                /\ route[c][Len(route[c])] = dest[c]

(* With routes over circuits only, as the search makes them in a connected     *)
(* topology, a pending chunk always has an event or a reconfiguration coming.  *)
CircuitRoutes == \A id \in TopoId, l \in Link : BandwidthOf(id, NextLink(Routes[id][l])) # 0
PendingIsServed ==
  CircuitRoutes =>
    \A l \in Link : pending_chunks[l] # <<>> => EntriesFor(Free(l)) # {} \/ reconfiguring

(* What is left when no event is: every chunk sent has been delivered, or waits  *)
(* for a link that has no circuit now.                                           *)
NothingLeftBehind ==
  waiting = {} =>
    /\ ~reconfiguring
    /\ \A l \in Link : ~busy[l]
    /\ \A l \in Link : pending_chunks[l] # <<>> => bandwidth(l) = 0
    /\ \A c \in Chunk : UnderWay(c) =>
         \E l \in Link : IsPending(c, l) /\ l = NextLink(route[c]) /\ bandwidth(l) = 0
    /\ CircuitRoutes => \A c \in Chunk : Sent(c) => invoked[c] = 1

(* The inductive invariant. *)
IInv ==
  /\ TypeOK
  /\ CalendarOK
  /\ BusyWillBeFreed
  /\ EveryLinkIsCounted
  /\ PendingIsLookedAtAgain
  /\ NothingSentAhead
  /\ DevicesFollowManager
  /\ TopologyRequested
  /\ OnePlacePerChunk
  /\ ChunksKeepUp
  /\ RoutesInstalled
  /\ CallbackAtMostOnce
  /\ ShortRoutesStayShort
  /\ PendingIsServed

-----------------------------------------------------------------------------
(* The constants *)

(* There are devices_count * (devices_count - 1) links. *)
LEMMA LinksCounted ==
  /\ links_count \in Nat /\ links_count >= 2
  /\ IsFiniteSet(Link) /\ Cardinality(Link) = links_count
<1> DEFINE n == devices_count
           Loops == {<<d, d>> : d \in Device}
           All == Device \X Device
<1>1. n \in Nat /\ n >= 2 /\ Device = 0..(n - 1)
  BY MatricesAssumption DEF Device
<1>2. IsFiniteSet(Device) /\ Cardinality(Device) = n
  BY <1>1, FS_Interval
<1>3. IsFiniteSet(All) /\ Cardinality(All) = n * n
  BY <1>2, FS_Product
<1>4. IsFiniteSet(Loops) /\ Cardinality(Loops) = n
  <2> DEFINE f == [d \in Device |-> <<d, d>>]
  <2>1. f \in [Device -> Loops]
    OBVIOUS
  <2>2. \A d, e \in Device : f[d] = f[e] => d = e
    OBVIOUS
  <2>3. \A p \in Loops : \E d \in Device : f[d] = p
    OBVIOUS
  <2> HIDE DEF f, Loops
  <2>4. f \in Bijection(Device, Loops)
    BY <2>1, <2>2, <2>3 DEF Bijection, Injection, Surjection, IsInjective
  <2>5. IsFiniteSet(Loops) /\ Cardinality(Loops) = Cardinality(Device)
    BY <1>2, <2>4, FS_Bijection DEF ExistsBijection
  <2> QED BY <1>2, <2>5
<1>5. Link = All \ Loops /\ All \cap Loops = Loops
  BY DEF Link
<1>6. IsFiniteSet(Link) /\ Cardinality(Link) = n * n - n
  <2> HIDE DEF All, Loops
  <2> QED BY <1>3, <1>4, <1>5, FS_Difference
<1>7. \A k \in Nat : k >= 2 => k * (k - 1) \in Nat /\ k * (k - 1) >= 2 /\ k * k - k = k * (k - 1)
  <2> TAKE k \in Nat
  <2> HAVE k >= 2
  <2>1. PICK j \in Nat : k = j + 2
    <3>1. k - 2 \in Nat /\ k = (k - 2) + 2
      OBVIOUS
    <3> QED BY <3>1
  <2>2. j * j \in Nat
    OBVIOUS
  <2>3. k * (k - 1) = j * j + 3 * j + 2 /\ k * k - k = j * j + 3 * j + 2
    BY <2>1
  <2> QED BY <2>1, <2>2, <2>3
<1> QED BY <1>1, <1>6, <1>7 DEF links_count

(* The reconfiguration schedules its events one after another: their ranks    *)
(* are different, and there are no more of them than links.                   *)
LEMMA RanksDiffer ==
  /\ \A l \in Link : Rank(l) \in 1..links_count
  /\ \A l, m \in Link : Rank(l) = Rank(m) => l = m
<1> DEFINE k == devices_count - 1
           Place(l) == IF l[2] < l[1] THEN l[2] + 1 ELSE l[2]
<1>1. k \in Nat /\ k >= 1 /\ Device = 0..k
  BY MatricesAssumption DEF Device
<1>2. \A l \in Link : /\ l[1] \in 0..k /\ l[2] \in 0..k /\ l[1] # l[2]
                      /\ l = <<l[1], l[2]>>
  BY <1>1 DEF Link
<1>3. \A l \in Link : Place(l) \in 1..k
  BY <1>1, <1>2
<1>4. \A l, m \in Link : l[1] = m[1] /\ Place(l) = Place(m) => l = m
  BY <1>1, <1>2
<1>5. \A l : Rank(l) = l[1] * k + Place(l)
  BY DEF Rank
<1>6. links_count = k * k + k
  BY <1>1, MatricesAssumption DEF links_count
<1> HIDE DEF k, Place
<1>7. \A a, b \in Nat : a < b => a * k + k <= b * k
  <2> TAKE a, b \in Nat
  <2> HAVE a < b
  <2>1. PICK j \in Nat : b = a + 1 + j
    <3>1. b - (a + 1) \in Nat /\ b = a + 1 + (b - (a + 1))
      OBVIOUS
    <3> QED BY <3>1
  <2>2. b * k = a * k + k + j * k
    BY <1>1, <2>1
  <2>3. j * k \in Nat /\ a * k \in Nat /\ b * k \in Nat
    BY <1>1
  <2> QED BY <1>1, <2>2, <2>3
<1>8. \A l \in Link : l[1] * k \in Nat /\ l[1] * k <= k * k /\ k * k \in Nat
  <2> TAKE l \in Link
  <2>1. l[1] \in Nat /\ l[1] <= k
    BY <1>1, <1>2
  <2>2. l[1] * k \in Nat /\ k * k \in Nat
    BY <1>1, <2>1
  <2>3. CASE l[1] = k
    BY <2>2, <2>3
  <2>4. CASE l[1] < k
    <3>1. l[1] * k + k <= k * k
      BY <1>1, <1>7, <2>1, <2>4
    <3> QED BY <1>1, <2>2, <3>1
  <2> QED BY <1>1, <2>1, <2>3, <2>4
<1>9. ASSUME NEW l \in Link PROVE Rank(l) \in 1..links_count
  <2>1. Place(l) \in Nat /\ Place(l) >= 1 /\ Place(l) <= k
    BY <1>1, <1>3
  <2> QED BY <1>1, <1>5, <1>6, <1>8, <2>1
<1>10. ASSUME NEW l \in Link, NEW m \in Link, Rank(l) = Rank(m) PROVE l = m
  <2>1. /\ Place(l) \in Nat /\ Place(l) >= 1 /\ Place(l) <= k
        /\ Place(m) \in Nat /\ Place(m) >= 1 /\ Place(m) <= k
        /\ l[1] \in Nat /\ m[1] \in Nat
    BY <1>1, <1>2, <1>3
  <2>2. l[1] * k + Place(l) = m[1] * k + Place(m)
    BY <1>5, <1>10
  <2>3. /\ l[1] * k \in Nat /\ m[1] * k \in Nat
        /\ l[1] < m[1] => l[1] * k + k <= m[1] * k
        /\ m[1] < l[1] => m[1] * k + k <= l[1] * k
    BY <1>7, <1>8, <2>1
  <2>4. l[1] = m[1]
    <3> DEFINE x == l[1] * k
               y == m[1] * k
    <3> HIDE DEF x, y
    <3>1. /\ x \in Nat /\ y \in Nat /\ x + Place(l) = y + Place(m)
          /\ l[1] < m[1] => x + k <= y
          /\ m[1] < l[1] => y + k <= x
      BY <2>2, <2>3 DEF x, y
    <3>2. ~(x + k <= y) /\ ~(y + k <= x)
      BY <1>1, <2>1, <3>1
    <3> QED BY <2>1, <3>1, <3>2
  <2>5. Place(l) = Place(m)
    BY <2>1, <2>2, <2>3, <2>4
  <2> QED BY <1>4, <2>4, <2>5
<1> QED BY <1>9, <1>10

(* The routes of the devices go from link to link, and from end to end. *)
LEMMA RouteFacts ==
  ASSUME NEW id \in TopoId, NEW l \in Link, NEW r, r = Routes[id][l]
  PROVE  /\ r \in Seq(Device) /\ Len(r) \in Nat /\ Len(r) >= 2 /\ r # <<>>
         /\ r[1] = l[1] /\ r[Len(r)] = l[2]
         /\ NextLink(r) \in Link
         /\ \A i \in 1..(Len(r) - 1) : <<r[i], r[i + 1]>> \in Link
         /\ ShortRoutes => Len(r) <= 3
<1>1. /\ r \in Seq(Device) /\ Len(r) >= 2 /\ Len(r) \in Nat
      /\ r[1] = l[1] /\ r[Len(r)] = l[2]
      /\ \A i \in 1..(Len(r) - 1) : <<r[i], r[i + 1]>> \in Link
  BY RoutesAssumption
<1>2. 1 \in 1..(Len(r) - 1)
  BY <1>1
<1>3. NextLink(r) \in Link
  BY <1>1, <1>2 DEF NextLink
<1>4. r # <<>>
  BY <1>1, EmptySeq
<1>5. ShortRoutes => Len(r) <= 3
  BY DEF ShortRoutes
<1> QED BY <1>1, <1>3, <1>4, <1>5

(* Whatever the bandwidth, a transmission takes a whole number of ns. *)
LEMMA DelayTypes ==
  ASSUME TypeOK, NEW l \in Link, NEW c \in Chunk
  PROVE  serialization_delay(l, c) \subseteq Nat /\ communication_delay(l, c) \subseteq Nat
<1>1. /\ Size[c] \in Nat /\ bandwidth(l) \in Nat /\ latency(l) \in Nat
      /\ UndefinedDelay \subseteq Nat
  <2>1. Size[c] \in Nat /\ UndefinedDelay \subseteq Nat
    BY MatricesAssumption
  <2>2. /\ installed.bandwidths \in TopoId \cup {NoTopo}
        /\ installed.latencies \in [Link -> Nat]
    BY DEF TypeOK
  <2>3. \A id \in TopoId : Bandwidth[id][l] \in Nat
    BY MatricesAssumption
  <2>4. bandwidth(l) \in Nat
    BY ONLY <2>2, <2>3 DEF bandwidth, BandwidthOf
  <2>5. latency(l) \in Nat
    BY <2>2 DEF latency
  <2> QED BY <2>1, <2>4, <2>5
<1>2. \A a \in Nat, b \in Nat \ {0} : a \div b \in Nat
  OBVIOUS
<1>3. bandwidth(l) # 0 => Size[c] \div bandwidth(l) \in Nat
  BY <1>1, <1>2
<1>4. bandwidth(l) # 0 => latency(l) + Size[c] \div bandwidth(l) \in Nat
  BY <1>1, <1>3
<1> QED BY <1>1, <1>3, <1>4 DEF serialization_delay, communication_delay

(* The events of different handlers, or of different arguments, differ. *)
LEMMA EventsDiffer ==
  /\ \A c \in Chunk : Arrival(c) \in Event
  /\ \A l \in Link : Free(l) \in Event
  /\ \A c, d : Arrival(c) = Arrival(d) <=> c = d
  /\ \A l, m : Free(l) = Free(m) <=> l = m
  /\ \A c, l : Arrival(c) # Free(l)
BY DEF Event, Arrival, Free

-----------------------------------------------------------------------------
(* What the parts of the handlers do to the queue and to the links *)

(* The queue once the next entry has been taken out. *)
LEMMA AfterTake ==
  ASSUME CalendarOK, now \in Nat, NEW e \in waiting, IsNext(e, waiting)
  PROVE  /\ e.time \in Nat /\ e.time >= now
         /\ CalendarOKAt(waiting \ {e}, e.time, issued)
         /\ \A ev : ev # e.event => At(waiting \ {e}, ev) = EntriesFor(ev)
         /\ At(waiting \ {e}, e.event) = EntriesFor(e.event) \ {e}
         /\ e \in EntriesFor(e.event)
<1>1. \A f \in waiting : f \in Entry /\ f.time \in Nat /\ f.id \in Nat
  BY DEF CalendarOK, CalendarOKAt, Entry
<1>2. e.time >= now
  BY DEF CalendarOK, CalendarOKAt
<1>3. \A f \in waiting \ {e} : f.time >= e.time
  BY <1>1 DEF IsNext, Precedes
<1>4. CalendarOKAt(waiting \ {e}, e.time, issued)
  BY <1>1, <1>3 DEF CalendarOKAt, CalendarOK
<1> QED BY <1>1, <1>2, <1>4 DEF At, EntriesFor

(* The transmission of chunk c over link l. *)
LEMMA AfterTransmit ==
  ASSUME TypeOK, NEW l \in Link, NEW c \in Chunk, NEW t \in Nat, NEW w,
         CalendarOKAt(w, t, issued),
         Transmit(l, c, t, w)
  PROVE  /\ CalendarOKAt(waiting', t, issued')
         /\ issued' \in Nat
         /\ busy' = [busy EXCEPT ![l] = TRUE]
         /\ serving_until' \in [Link -> Nat]
         /\ \A ev : ev # Arrival(c) /\ ev # Free(l) => At(waiting', ev) = At(w, ev)
         /\ At(waiting', Arrival(c)) # {}
         /\ At(w, Arrival(c)) = {} => \A e, f \in At(waiting', Arrival(c)) : e = f
         /\ At(waiting', Free(l)) # {}
<1>1. PICK arrive \in communication_delay(l, c), free \in serialization_delay(l, c) :
        /\ busy' = [busy EXCEPT ![l] = TRUE]
        /\ waiting' = w \cup
             {[id |-> issued + 1, time |-> t + arrive, event |-> Arrival(c)],
              [id |-> issued + 2, time |-> t + free, event |-> Free(l)]}
        /\ issued' = issued + 2
        /\ serving_until' = [serving_until EXCEPT ![l] = t + free]
  BY DEF Transmit
<1>2. arrive \in Nat /\ free \in Nat /\ issued \in Nat
  BY DelayTypes DEF TypeOK
<1> DEFINE a == [id |-> issued + 1, time |-> t + arrive, event |-> Arrival(c)]
           f == [id |-> issued + 2, time |-> t + free, event |-> Free(l)]
<1>3. waiting' = w \cup {a, f} /\ issued' = issued + 2
  BY <1>1
<1>4. /\ a \in Entry /\ f \in Entry
      /\ a.time >= t /\ f.time >= t
      /\ a.id = issued + 1 /\ f.id = issued + 2
      /\ a.event = Arrival(c) /\ f.event = Free(l)
  BY <1>2, EventsDiffer DEF Entry
<1>5. serving_until' \in [Link -> Nat]
  BY <1>1, <1>2 DEF TypeOK
<1> HIDE DEF a, f
<1>6. \A e \in w : e.id \in Nat /\ e.time \in Nat /\ e.id <= issued
  BY DEF CalendarOKAt, Entry
<1>7. CalendarOKAt(waiting', t, issued')
  <2>1. waiting' \in SUBSET Entry
    BY <1>3, <1>4 DEF CalendarOKAt
  <2>2. \A e \in waiting' : e.time >= t /\ e.id <= issued'
    BY <1>2, <1>3, <1>4, <1>6 DEF CalendarOKAt
  <2>3. \A e, g \in waiting' : e.id = g.id => e = g
    <3>1. \A e \in w : e.id # a.id /\ e.id # f.id
      BY <1>2, <1>4, <1>6
    <3>2. a.id # f.id
      BY <1>2, <1>4
    <3> QED BY <1>3, <3>1, <3>2 DEF CalendarOKAt
  <2> QED BY <2>1, <2>2, <2>3 DEF CalendarOKAt
<1>8. \A ev : ev # Arrival(c) /\ ev # Free(l) => At(waiting', ev) = At(w, ev)
  BY <1>3, <1>4 DEF At
<1>9. At(w, Arrival(c)) = {} => \A e, g \in At(waiting', Arrival(c)) : e = g
  BY <1>3, <1>4, EventsDiffer DEF At
<1>10. At(waiting', Arrival(c)) # {} /\ At(waiting', Free(l)) # {}
  BY <1>3, <1>4 DEF At
<1>11. issued' \in Nat
  BY <1>2, <1>3
<1>12. busy' = [busy EXCEPT ![l] = TRUE]
  BY <1>1
<1> QED BY <1>5, <1>7, <1>8, <1>9, <1>10, <1>11, <1>12

(* The reconfiguration of the devices: every link gets an event. *)
LEMMA AfterReconfigureDevices ==
  ASSUME issued \in Nat, NEW t \in Nat, NEW w, CalendarOKAt(w, t, issued),
         NEW b \in [Link -> BOOLEAN], NEW q, q.reconfig_time \in Nat,
         ReconfigureDevices(q, t, w, b)
  PROVE  /\ CalendarOKAt(waiting', t, issued')
         /\ issued' \in Nat
         /\ busy' \in [Link -> BOOLEAN]
         /\ \A c : At(waiting', Arrival(c)) = At(w, Arrival(c))
         /\ \A l \in Link : At(waiting', Free(l)) # {}
<1> DEFINE F == FreeEvents(q, t)
<1>1. /\ waiting' = w \cup F /\ issued' = issued + links_count
      /\ busy' \in [Link -> BOOLEAN]
  <2>1. \A l \in Link : Changes(q, l) \in BOOLEAN
    BY DEF Changes
  <2>2. busy' = [l \in Link |-> b[l] \/ Changes(q, l)]
    BY DEF ReconfigureDevices
  <2>3. busy' \in [Link -> BOOLEAN]
    BY <2>1, <2>2
  <2> QED BY <2>3 DEF ReconfigureDevices
<1>2. issued' \in Nat /\ issued' >= issued
  BY <1>1, LinksCounted
<1>3. \A l \in Link : /\ FreeEvent(q, l, t) \in Entry
                      /\ FreeEvent(q, l, t).time >= t
                      /\ FreeEvent(q, l, t).id = issued + Rank(l)
                      /\ FreeEvent(q, l, t).event = Free(l)
  <2> TAKE l \in Link
  <2>1. Rank(l) \in Nat
    BY RanksDiffer, LinksCounted
  <2>2. t + (IF Changes(q, l) THEN q.reconfig_time ELSE 1) \in Nat
    OBVIOUS
  <2>3. t + (IF Changes(q, l) THEN q.reconfig_time ELSE 1) >= t
    OBVIOUS
  <2> QED BY <2>1, <2>2, <2>3, EventsDiffer DEF FreeEvent, Entry
<1>4. \A e \in F : \E l \in Link : e = FreeEvent(q, l, t)
  BY DEF FreeEvents
<1>5. \A l \in Link : FreeEvent(q, l, t) \in F
  BY DEF FreeEvents
<1> HIDE DEF F
<1>6. \A e \in w : e.id \in Nat /\ e.time \in Nat /\ e.id <= issued
  BY DEF CalendarOKAt, Entry
<1>7. \A l \in Link : /\ issued + Rank(l) \in Nat
                      /\ issued + Rank(l) > issued
                      /\ issued + Rank(l) <= issued'
  BY <1>1, RanksDiffer, LinksCounted
<1>8. CalendarOKAt(waiting', t, issued')
  <2>1. waiting' \in SUBSET Entry
    BY <1>1, <1>3, <1>4 DEF CalendarOKAt
  <2>2. \A e \in waiting' : e.time >= t /\ e.id <= issued'
    <3>1. \A e \in w : e.id <= issued'
      BY <1>2, <1>6
    <3> QED BY <1>1, <1>3, <1>4, <1>7, <3>1 DEF CalendarOKAt
  <2>3. \A e, g \in waiting' : e.id = g.id => e = g
    <3>1. \A e \in w, g \in F : e.id # g.id
      BY <1>3, <1>4, <1>6, <1>7
    <3>2. \A e, g \in F : e.id = g.id => e = g
      <4> SUFFICES ASSUME NEW l \in Link, NEW m \in Link,
                          issued + Rank(l) = issued + Rank(m)
                   PROVE  l = m
        BY <1>3, <1>4
      <4>1. Rank(l) \in Nat /\ Rank(m) \in Nat
        BY RanksDiffer, LinksCounted
      <4>2. Rank(l) = Rank(m)
        BY <4>1
      <4> QED BY <4>2, RanksDiffer
    <3> QED BY <1>1, <3>1, <3>2 DEF CalendarOKAt
  <2> QED BY <2>1, <2>2, <2>3 DEF CalendarOKAt
<1>9. \A c : At(waiting', Arrival(c)) = At(w, Arrival(c))
  BY <1>1, <1>3, <1>4, EventsDiffer DEF At
<1>10. \A l \in Link : At(waiting', Free(l)) # {}
  BY <1>1, <1>3, <1>5 DEF At
<1> QED BY <1>1, <1>2, <1>8, <1>9, <1>10

(* The pending lists after a chunk that waits nowhere is appended to one. *)
LEMMA AfterAppend ==
  ASSUME pending_chunks \in [Link -> Seq(Chunk)], OnePendingPlace,
         NEW l \in Link, NEW c \in Chunk, \A m \in Link : ~IsPending(c, m),
         pending_chunks' = [pending_chunks EXCEPT ![l] = Append(@, c)]
  PROVE  /\ pending_chunks' \in [Link -> Seq(Chunk)]
         /\ OnePendingPlace'
         /\ \A d \in Chunk, m \in Link :
               IsPending(d, m)' <=> IsPending(d, m) \/ (d = c /\ m = l)
         /\ \A m \in Link \ {l} : pending_chunks'[m] = pending_chunks[m]
<1>1. \A d, m : IsPending(d, m) <=> Occurs(pending_chunks, d, m)
  BY DEF IsPending, Occurs
<1>2. \A d, m : IsPending(d, m)' <=> Occurs(pending_chunks', d, m)
  BY DEF IsPending, Occurs
<1>3. PlacesDiffer(pending_chunks, Link)
  BY DEF OnePendingPlace, PlacesDiffer
<1>4. \A m \in Link : ~Occurs(pending_chunks, c, m)
  BY <1>1
<1>5. pending_chunks' = Appended(pending_chunks, Link, l, c)
  BY DEF Appended
<1>6. CameIn(Chunk, Link, pending_chunks, l, c, Appended(pending_chunks, Link, l, c))
  BY <1>3, <1>4, ListsAfterAppend
<1>7. OnePendingPlace'
  <2>1. PlacesDiffer(pending_chunks', Link)
    BY ONLY <1>5, <1>6 DEF CameIn
  <2> QED BY ONLY <2>1 DEF OnePendingPlace, PlacesDiffer
<1>8. /\ pending_chunks' \in [Link -> Seq(Chunk)]
      /\ \A m \in Link \ {l} : pending_chunks'[m] = pending_chunks[m]
  BY ONLY <1>5, <1>6 DEF CameIn
<1>9. \A d \in Chunk, m \in Link :
        Occurs(pending_chunks', d, m) <=> Occurs(pending_chunks, d, m) \/ (d = c /\ m = l)
  BY ONLY <1>5, <1>6 DEF CameIn
<1> QED BY ONLY <1>1, <1>2, <1>7, <1>8, <1>9

(* The pending lists after the first chunk of one is taken out. *)
LEMMA AfterPop ==
  ASSUME pending_chunks \in [Link -> Seq(Chunk)], OnePendingPlace,
         NEW l \in Link, pending_chunks[l] # <<>>,
         pending_chunks' = [pending_chunks EXCEPT ![l] = Tail(@)]
  PROVE  /\ pending_chunks' \in [Link -> Seq(Chunk)]
         /\ OnePendingPlace'
         /\ Head(pending_chunks[l]) \in Chunk
         /\ IsPending(Head(pending_chunks[l]), l)
         /\ \A d \in Chunk, m \in Link :
               IsPending(d, m)' <=> IsPending(d, m) /\ d # Head(pending_chunks[l])
         /\ \A m \in Link \ {l} : pending_chunks'[m] = pending_chunks[m]
<1>1. \A d, m : IsPending(d, m) <=> Occurs(pending_chunks, d, m)
  BY DEF IsPending, Occurs
<1>2. \A d, m : IsPending(d, m)' <=> Occurs(pending_chunks', d, m)
  BY DEF IsPending, Occurs
<1>3. PlacesDiffer(pending_chunks, Link)
  BY DEF OnePendingPlace, PlacesDiffer
<1>4. pending_chunks' = Popped(pending_chunks, Link, l)
  BY DEF Popped
<1>5. WentOut(Chunk, Link, pending_chunks, l, Head(pending_chunks[l]),
              Popped(pending_chunks, Link, l))
  BY <1>3, ListsAfterPop
<1>6. OnePendingPlace'
  <2>1. PlacesDiffer(pending_chunks', Link)
    BY <1>4, <1>5 DEF WentOut
  <2> QED BY ONLY <2>1 DEF OnePendingPlace, PlacesDiffer
<1> QED BY <1>1, <1>2, <1>4, <1>5, <1>6 DEF WentOut

(* What has become of chunk c when a device has sent it by its route own, whose *)
(* first link is l: it has got into one arrival event, or into the list of l,   *)
(* which will be looked at again.                                               *)
SentOver(c, own, l, it, t, w) ==
  /\ route' = [route EXCEPT ![c] = own]
  /\ CalendarOKAt(waiting', t, issued') /\ issued' \in Nat
  /\ busy' \in [Link -> BOOLEAN]
  /\ pending_chunks' \in [Link -> Seq(Chunk)]
  /\ serving_until' \in [Link -> Nat]
  /\ \A m \in Link : busy'[m] => At(waiting', Free(m)) # {}
  /\ \A m \in Link : At(w, Free(m)) # {} => At(waiting', Free(m)) # {}
  /\ \A d \in Chunk \ {c} : At(waiting', Arrival(d)) = At(w, Arrival(d))
  /\ \A e, f \in At(waiting', Arrival(c)) : e = f
  /\ OnePendingPlace'
  /\ \A d \in Chunk \ {c}, m \in Link : IsPending(d, m)' <=> IsPending(d, m)
  /\ \A m \in Link : IsPending(c, m)' => m = l
  /\ At(waiting', Arrival(c)) # {} <=> ~IsPending(c, l)'
  /\ At(waiting', Arrival(c)) # {} => it <= device_iteration
  /\ \A m \in Link : pending_chunks'[m] # <<>> =>
        \/ pending_chunks[m] # <<>>
        \/ At(waiting', Free(m)) # {}
        \/ m = l /\ bandwidth(l) = 0
        \/ it > device_iteration

(* The route a device has to the next device of r. *)
Own(r) == Routes[installed.bandwidths][NextLink(r)]

LEMMA AfterDeviceSend ==
  ASSUME TypeOK, OnePendingPlace,
         NEW c \in Chunk, NEW r, NextLink(Own(r)) \in Link,
         NEW it \in Nat, NEW t \in Nat, NEW w,
         CalendarOKAt(w, t, issued),
         \A m \in Link : busy[m] => At(w, Free(m)) # {},
         At(w, Arrival(c)) = {}, \A m \in Link : ~IsPending(c, m),
         DeviceSend(c, r, it, t, w)
  PROVE  SentOver(c, Own(r), NextLink(Own(r)), it, t, w)
<1>o. PICK own : own = Own(r)
  OBVIOUS
<1>l. PICK l \in Link : l = NextLink(own)
  BY <1>o
<1>d. IF busy[l] \/ bandwidth(l) = 0 \/ it > device_iteration
      THEN /\ pending_chunks' = [pending_chunks EXCEPT ![l] = Append(@, c)]
           /\ waiting' = w
           /\ UNCHANGED <<busy, issued, serving_until>>
      ELSE /\ Transmit(l, c, t, w)
           /\ UNCHANGED pending_chunks
  BY <1>o, <1>l DEF DeviceSend, Own
<1>r. route' = [route EXCEPT ![c] = own]
  BY <1>o DEF DeviceSend, Own
<1> SUFFICES SentOver(c, own, l, it, t, w)
  BY <1>o, <1>l
<1>t. /\ issued \in Nat /\ busy \in [Link -> BOOLEAN] /\ device_iteration \in Nat
      /\ pending_chunks \in [Link -> Seq(Chunk)] /\ serving_until \in [Link -> Nat]
  BY DEF TypeOK
<1>1. CASE busy[l] \/ bandwidth(l) = 0 \/ it > device_iteration
  <2>1. /\ pending_chunks' = [pending_chunks EXCEPT ![l] = Append(@, c)]
        /\ waiting' = w /\ busy' = busy /\ issued' = issued
        /\ serving_until' = serving_until
    BY <1>1, <1>d
  <2>2. /\ pending_chunks' \in [Link -> Seq(Chunk)]
        /\ OnePendingPlace'
        /\ \A d \in Chunk, m \in Link :
              IsPending(d, m)' <=> IsPending(d, m) \/ (d = c /\ m = l)
        /\ \A m \in Link \ {l} : pending_chunks'[m] = pending_chunks[m]
    BY <1>t, <2>1, AfterAppend
  <2>3. \A m \in Link : pending_chunks'[m] # <<>> =>
               \/ pending_chunks[m] # <<>>
               \/ At(waiting', Free(m)) # {}
               \/ m = l /\ bandwidth(l) = 0
               \/ it > device_iteration
    BY <1>1, <2>1, <2>2
  <2>4. /\ CalendarOKAt(waiting', t, issued') /\ issued' \in Nat
        /\ busy' \in [Link -> BOOLEAN]
        /\ serving_until' \in [Link -> Nat]
        /\ \A m \in Link : busy'[m] => At(waiting', Free(m)) # {}
        /\ \A m \in Link : At(w, Free(m)) # {} => At(waiting', Free(m)) # {}
        /\ \A d \in Chunk \ {c} : At(waiting', Arrival(d)) = At(w, Arrival(d))
        /\ At(waiting', Arrival(c)) = {}
    BY <1>t, <2>1
  <2> QED BY <1>r, <2>2, <2>3, <2>4 DEF SentOver
<1>2. CASE ~(busy[l] \/ bandwidth(l) = 0 \/ it > device_iteration)
  <2>1. Transmit(l, c, t, w) /\ pending_chunks' = pending_chunks
    BY <1>2, <1>d
  <2>2. /\ CalendarOKAt(waiting', t, issued')
        /\ issued' \in Nat
        /\ busy' = [busy EXCEPT ![l] = TRUE]
        /\ serving_until' \in [Link -> Nat]
        /\ \A ev : ev # Arrival(c) /\ ev # Free(l) => At(waiting', ev) = At(w, ev)
        /\ At(waiting', Arrival(c)) # {}
        /\ \A e, f \in At(waiting', Arrival(c)) : e = f
        /\ At(waiting', Free(l)) # {}
    BY <2>1, AfterTransmit
  <2>3. busy' \in [Link -> BOOLEAN] /\ \A m \in Link \ {l} : busy'[m] = busy[m]
    BY <1>t, <2>2
  <2>4. /\ \A d \in Chunk \ {c} : At(waiting', Arrival(d)) = At(w, Arrival(d))
        /\ \A m \in Link \ {l} : At(waiting', Free(m)) = At(w, Free(m))
    BY <2>2, EventsDiffer
  <2>5. \A m \in Link : busy'[m] => At(waiting', Free(m)) # {}
    BY <2>2, <2>3, <2>4
  <2>6. \A m \in Link : At(w, Free(m)) # {} => At(waiting', Free(m)) # {}
    BY <2>2, <2>4
  <2>7. \A d, m : IsPending(d, m)' <=> IsPending(d, m)
    BY <2>1 DEF IsPending
  <2>8. OnePendingPlace'
    BY <2>1 DEF OnePendingPlace
  <2>9. it <= device_iteration
    BY <1>t, <1>2
  <2>10. pending_chunks' \in [Link -> Seq(Chunk)]
    BY <1>t, <2>1
  <2>11. pending_chunks' = pending_chunks
    BY <2>1
  <2> QED BY <1>r, <2>2, <2>3, <2>4, <2>5, <2>6, <2>7, <2>8, <2>9, <2>10, <2>11 DEF SentOver
<1> QED BY <1>1, <1>2

-----------------------------------------------------------------------------
(* How the parts of the invariant are kept *)

(* The two ways to write the entries for an event. *)
LEMMA EntriesAreAt ==
  /\ \A ev : EntriesFor(ev) = At(waiting, ev)
  /\ \A ev : EntriesFor(ev)' = At(waiting', ev)
  /\ \A c : InFlight(c) <=> At(waiting, Arrival(c)) # {}
  /\ \A c : InFlight(c)' <=> At(waiting', Arrival(c)) # {}
BY DEF EntriesFor, At, InFlight

(* While the network drains, a link that was counted stays counted, and one *)
(* that is going to be freed still is.                                      *)
LEMMA CountKept ==
  ASSUME EveryLinkIsCounted,
         reconfiguring' => /\ reconfiguring
                           /\ num_drained_links' = num_drained_links
                           /\ num_drained_links \in Nat,
         \A l \in Link : At(waiting, Free(l)) # {} => At(waiting', Free(l)) # {}
  PROVE  EveryLinkIsCounted'
<1> SUFFICES ASSUME reconfiguring'
             PROVE  num_drained_links' + Cardinality(FreeComing(waiting')) >= links_count
  <2>1. {l \in Link : EntriesFor(Free(l))' # {}} = FreeComing(waiting')
    BY EntriesAreAt DEF FreeComing
  <2> QED BY <2>1 DEF EveryLinkIsCounted
<1>1. {l \in Link : EntriesFor(Free(l)) # {}} = FreeComing(waiting)
  BY EntriesAreAt DEF FreeComing
<1>2. num_drained_links + Cardinality(FreeComing(waiting)) >= links_count
  BY <1>1 DEF EveryLinkIsCounted
<1>3. FreeComing(waiting) \subseteq FreeComing(waiting') /\ FreeComing(waiting') \subseteq Link
  BY DEF FreeComing
<1>4. /\ IsFiniteSet(FreeComing(waiting')) /\ IsFiniteSet(FreeComing(waiting))
      /\ Cardinality(FreeComing(waiting)) <= Cardinality(FreeComing(waiting'))
  BY <1>3, LinksCounted, FS_Subset
<1>5. /\ Cardinality(FreeComing(waiting)) \in Nat
      /\ Cardinality(FreeComing(waiting')) \in Nat
  BY <1>4, FS_CardinalityType
<1> QED BY <1>2, <1>4, <1>5, LinksCounted

(* The chunks when none of them moves. *)
LEMMA ChunksStay ==
  ASSUME IInv, UNCHANGED <<pending_chunks, chunks>>,
         \A c \in Chunk : At(waiting', Arrival(c)) = At(waiting, Arrival(c)),
         topology_iteration' \in Nat, topology_iteration' >= topology_iteration,
         device_iteration' \in Nat, device_iteration' >= device_iteration,
         installed' = installed \/ installed'.bandwidths \in TopoId
  PROVE  /\ OnePlacePerChunk'
         /\ ChunksKeepUp'
         /\ NothingSentAhead'
         /\ RoutesInstalled'
         /\ CallbackAtMostOnce'
         /\ ShortRoutesStayShort'
<1> USE DEF IInv
<1>1. /\ pending_chunks' = pending_chunks /\ route' = route /\ dest' = dest
      /\ chunk_iteration' = chunk_iteration /\ invoked' = invoked
  BY DEF chunks
<1>2. /\ \A c, l : IsPending(c, l)' <=> IsPending(c, l)
      /\ \A c : Sent(c)' <=> Sent(c)
      /\ \A c : UnderWay(c)' <=> UnderWay(c)
  BY <1>1 DEF IsPending, Sent, UnderWay
<1>3. \A c \in Chunk : InFlight(c)' <=> InFlight(c)
  BY EntriesAreAt
<1>4. OneArrival'
  BY EntriesAreAt DEF OnePlacePerChunk, OneArrival
<1>5. OnePendingPlace'
  BY <1>1 DEF OnePlacePerChunk, OnePendingPlace
<1>6. NotInBoth' /\ SomewhereWhileUnderWay'
  BY <1>2, <1>3 DEF OnePlacePerChunk, NotInBoth, SomewhereWhileUnderWay
<1>7. PendingForItsRoute'
  BY <1>1, <1>2 DEF OnePlacePerChunk, PendingForItsRoute
<1>8. /\ topology_iteration \in Nat /\ device_iteration \in Nat
      /\ \A c \in Chunk : chunk_iteration[c] \in Nat
  BY DEF TypeOK
<1>9. ChunksKeepUp'
  BY <1>1, <1>8 DEF ChunksKeepUp
<1>10. NothingSentAhead'
  BY <1>1, <1>3, <1>8 DEF NothingSentAhead
<1>11. RoutesInstalled'
  BY <1>2 DEF RoutesInstalled
<1>12. CallbackAtMostOnce'
  BY <1>1 DEF CallbackAtMostOnce
<1>13. ShortRoutesStayShort'
  BY <1>1, <1>2 DEF ShortRoutesStayShort
<1> QED BY <1>4, <1>5, <1>6, <1>7, <1>9, <1>10, <1>11, <1>12, <1>13 DEF OnePlacePerChunk

(* That a chunk of an iteration to come waits only during a drain follows from *)
(* how the iterations of manager and devices are related.                      *)
LEMMA ManagerStays ==
  ASSUME IInv, UNCHANGED <<topology_iteration, requested, reconfiguring, device_iteration,
                           installed>>,
         chunk_iteration' \in [Chunk -> Nat], ChunksKeepUp'
  PROVE  DevicesFollowManager' /\ TopologyRequested'
<1>1. topology_iteration' \in Nat /\ device_iteration' \in Nat
  BY DEF IInv, TypeOK
<1>2. \A c \in Chunk : chunk_iteration'[c] \in Nat /\ chunk_iteration'[c] <= topology_iteration'
  BY DEF ChunksKeepUp
<1>3. topology_iteration' = device_iteration' + (IF reconfiguring' THEN 1 ELSE 0)
  BY DEF IInv, DevicesFollowManager
<1>4. \A c \in Chunk : chunk_iteration'[c] > device_iteration' => reconfiguring'
  BY <1>1, <1>2, <1>3
<1>5. /\ ~reconfiguring' => /\ installed'.bandwidths = requested'.bandwidths
                            /\ installed'.latencies = requested'.latencies
      /\ TopologyRequested'
  BY DEF IInv, DevicesFollowManager, TopologyRequested
<1> QED BY <1>3, <1>4, <1>5 DEF DevicesFollowManager

-----------------------------------------------------------------------------
(* The steps *)

(* A chunk that is nowhere is sent over a link by a device: by route and send *)
(* of the program, or on its way.                                             *)
LEMMA HandedOn ==
  ASSUME IInv, NEW c \in Chunk, NEW r, NextLink(r) \in Link,
         NEW it \in Nat, it <= topology_iteration,
         NEW t \in Nat, now' = t, NEW w, CalendarOKAt(w, t, issued),
         \A ev : ev # Arrival(c) => At(w, ev) = EntriesFor(ev),
         At(w, Arrival(c)) = {}, \A m \in Link : ~IsPending(c, m),
         invoked[c] = 0, installed.bandwidths \in TopoId,
         chunk_iteration' = [chunk_iteration EXCEPT ![c] = it],
         dest' \in [Chunk -> Device], \A d \in Chunk \ {c} : dest'[d] = dest[d],
         ShortRoutes => r[2] = dest'[c],
         UNCHANGED <<manager, invoked>>,
         DeviceSend(c, r, it, t, w)
  PROVE  IInv'
<1> USE DEF IInv
<1>o. PICK own : own = Own(r)
  OBVIOUS
<1>l. PICK l : l = NextLink(own)
  OBVIOUS
<1>1. /\ own \in Seq(Device) /\ Len(own) \in Nat /\ Len(own) >= 2 /\ own # <<>>
      /\ own[Len(own)] = NextLink(r)[2]
      /\ l \in Link
      /\ \A i \in 1..(Len(own) - 1) : <<own[i], own[i + 1]>> \in Link
      /\ ShortRoutes => Len(own) <= 3
  BY <1>o, <1>l, RouteFacts DEF Own
<1>2. UNCHANGED <<settings, topology_iteration, cur_topo_id, requested, reconfiguring,
                  num_drained_links, device_iteration, installed>>
  BY DEF manager
<1>3. /\ \A m \in Link : At(w, Free(m)) = EntriesFor(Free(m))
      /\ \A d \in Chunk \ {c} : At(w, Arrival(d)) = EntriesFor(Arrival(d))
  BY EventsDiffer
<1>s. SentOver(c, own, l, it, t, w)
  <2>1. \A m \in Link : busy[m] => At(w, Free(m)) # {}
    BY <1>3 DEF BusyWillBeFreed
  <2>2. TypeOK /\ OnePendingPlace
    BY DEF OnePlacePerChunk
  <2> HIDE DEF IInv
  <2> QED BY <1>o, <1>l, <1>1, <2>1, <2>2, AfterDeviceSend
<1>4. /\ route' = [route EXCEPT ![c] = own]
      /\ CalendarOKAt(waiting', t, issued') /\ issued' \in Nat
      /\ busy' \in [Link -> BOOLEAN]
      /\ pending_chunks' \in [Link -> Seq(Chunk)]
      /\ serving_until' \in [Link -> Nat]
      /\ \A m \in Link : busy'[m] => At(waiting', Free(m)) # {}
      /\ \A m \in Link : At(w, Free(m)) # {} => At(waiting', Free(m)) # {}
      /\ \A d \in Chunk \ {c} : At(waiting', Arrival(d)) = At(w, Arrival(d))
      /\ \A e, f \in At(waiting', Arrival(c)) : e = f
      /\ OnePendingPlace'
      /\ \A d \in Chunk \ {c}, m \in Link : IsPending(d, m)' <=> IsPending(d, m)
      /\ \A m \in Link : IsPending(c, m)' => m = l
      /\ At(waiting', Arrival(c)) # {} <=> ~IsPending(c, l)'
      /\ At(waiting', Arrival(c)) # {} => it <= device_iteration
      /\ \A m \in Link : pending_chunks'[m] # <<>> =>
            \/ pending_chunks[m] # <<>>
            \/ At(waiting', Free(m)) # {}
            \/ m = l /\ bandwidth(l) = 0
            \/ it > device_iteration
  BY ONLY <1>s DEF SentOver
<1>5. /\ route' \in [Chunk -> Seq(Device)]
      /\ route'[c] = own /\ \A d \in Chunk \ {c} : route'[d] = route[d]
      /\ chunk_iteration' \in [Chunk -> Nat]
      /\ chunk_iteration'[c] = it
      /\ \A d \in Chunk \ {c} : chunk_iteration'[d] = chunk_iteration[d]
      /\ invoked' = invoked
  BY <1>1, <1>4 DEF TypeOK
<1>6. TypeOK'
  BY <1>2, <1>4, <1>5 DEF TypeOK, CalendarOKAt
<1>7. CalendarOK'
  BY <1>4 DEF CalendarOK
<1>8. BusyWillBeFreed'
  BY <1>4, EntriesAreAt DEF BusyWillBeFreed
<1>9. EveryLinkIsCounted'
  <2>1. \A m \in Link : At(waiting, Free(m)) # {} => At(waiting', Free(m)) # {}
    BY <1>3, <1>4, EntriesAreAt
  <2>2. num_drained_links \in Nat
    BY LinksCounted DEF TypeOK
  <2> QED BY <1>2, <2>1, <2>2, CountKept
<1>10. ChunksKeepUp'
  BY <1>2, <1>5 DEF ChunksKeepUp
<1>11. DevicesFollowManager' /\ TopologyRequested'
  BY <1>2, <1>5, <1>10, ManagerStays
<1>12. it > device_iteration => reconfiguring
  <2>1. topology_iteration = device_iteration + (IF reconfiguring THEN 1 ELSE 0)
    BY DEF DevicesFollowManager
  <2>2. topology_iteration \in Nat /\ device_iteration \in Nat
    BY DEF TypeOK
  <2> QED BY <2>1, <2>2
<1>13. PendingIsLookedAtAgain'
  <2>1. \A m : bandwidth(m)' = bandwidth(m)
    BY <1>2 DEF bandwidth
  <2>2. \A m \in Link : EntriesFor(Free(m)) # {} => At(waiting', Free(m)) # {}
    BY <1>3, <1>4
  <2> QED BY <1>2, <1>4, <1>12, <2>1, <2>2, EntriesAreAt DEF PendingIsLookedAtAgain
<1>p. PendingIsServed'
  <2> SUFFICES ASSUME CircuitRoutes, NEW m \in Link, pending_chunks'[m] # <<>>
               PROVE  At(waiting', Free(m)) # {} \/ reconfiguring'
    BY EntriesAreAt DEF PendingIsServed
  <2>1. bandwidth(l) # 0
    <3>1. BandwidthOf(installed.bandwidths, NextLink(Routes[installed.bandwidths][NextLink(r)])) # 0
      BY DEF CircuitRoutes
    <3> QED BY <1>o, <1>l, <3>1 DEF Own, bandwidth
  <2>2. pending_chunks[m] # <<>> => At(w, Free(m)) # {} \/ reconfiguring
    BY <1>3 DEF PendingIsServed
  <2> QED BY <1>2, <1>4, <1>12, <2>1, <2>2
<1>14. \A d \in Chunk \ {c} : /\ InFlight(d)' <=> InFlight(d)
                              /\ Sent(d)' <=> Sent(d)
                              /\ UnderWay(d)' <=> UnderWay(d)
  BY <1>3, <1>4, <1>5, EntriesAreAt DEF Sent, UnderWay
<1>15. Sent(c)' /\ UnderWay(c)'
  BY <1>1, <1>5 DEF Sent, UnderWay
<1>16. NothingSentAhead'
  BY <1>2, <1>4, <1>5, <1>14, EntriesAreAt DEF NothingSentAhead
<1>17. OneArrival'
  BY <1>3, <1>4, EntriesAreAt DEF OnePlacePerChunk, OneArrival
<1>18. NotInBoth'
  BY <1>4, <1>14, EntriesAreAt DEF OnePlacePerChunk, NotInBoth
<1>19. PendingForItsRoute'
  BY <1>l, <1>4, <1>5 DEF OnePlacePerChunk, PendingForItsRoute
<1>20. SomewhereWhileUnderWay'
  <2> SUFFICES ASSUME NEW d \in Chunk
               PROVE  ((InFlight(d) \/ \E m \in Link : IsPending(d, m)) <=> UnderWay(d))'
    BY DEF SomewhereWhileUnderWay
  <2>1. CASE d = c
    BY <1>1, <1>4, <1>15, <2>1, EntriesAreAt
  <2>2. CASE d # c
    BY <1>4, <1>14, <2>2 DEF OnePlacePerChunk, SomewhereWhileUnderWay
  <2> QED BY <2>1, <2>2
<1>21. RoutesInstalled'
  BY <1>2 DEF RoutesInstalled
<1>22. CallbackAtMostOnce'
  <2> SUFFICES ASSUME NEW d \in Chunk
               PROVE  /\ invoked'[d] \in {0, 1}
                      /\ invoked'[d] = 1 <=> Len(route'[d]) = 1
                      /\ \A i \in 1..(Len(route'[d]) - 1) :
                            <<route'[d][i], route'[d][i + 1]>> \in Link
    BY DEF CallbackAtMostOnce
  <2>1. CASE d = c
    BY <1>1, <1>5, <2>1
  <2>2. CASE d # c
    BY <1>5, <2>2 DEF CallbackAtMostOnce
  <2> QED BY <2>1, <2>2
<1>23. ShortRoutesStayShort'
  <2> SUFFICES ASSUME ShortRoutes, NEW d \in Chunk, Sent(d)'
               PROVE  Len(route'[d]) <= 3 /\ route'[d][Len(route'[d])] = dest'[d]
    BY DEF ShortRoutesStayShort
  <2>1. CASE d = c
    BY <1>1, <1>5, <2>1 DEF NextLink
  <2>2. CASE d # c
    BY <1>5, <1>14, <2>2 DEF ShortRoutesStayShort
  <2> QED BY <2>1, <2>2
<1> QED BY <1>4, <1>6, <1>7, <1>8, <1>9, <1>10, <1>11, <1>13, <1>16, <1>17, <1>18, <1>19,
           <1>20, <1>21, <1>22, <1>23, <1>p DEF OnePlacePerChunk

(* route and send of a new chunk. *)
LEMMA SendStep ==
  ASSUME IInv, NEW c \in Chunk, NEW src \in NPU, NEW d \in NPU,
         NEW it \in {0, topology_iteration}, NEW t \in 0..LastCall, Send(c, src, d, it, t)
  PROVE  IInv'
<1>1. /\ route[c] = <<>> /\ src # d
      /\ t >= now /\ \A e \in waiting : t <= e.time
      /\ now' = t
      /\ chunk_iteration' = [chunk_iteration EXCEPT ![c] = it]
      /\ dest' = [dest EXCEPT ![c] = d]
      /\ DeviceSend(c, <<src, d>>, it, t, waiting)
      /\ UNCHANGED <<manager, invoked>>
  BY DEF Send, CallAt
<1>2. t \in Nat /\ it \in Nat /\ it <= topology_iteration
  BY MatricesAssumption DEF IInv, TypeOK
<1>3. src \in Device /\ d \in Device
  BY MatricesAssumption DEF NPU, Device
<1>r. PICK r : r = <<src, d>>
  OBVIOUS
<1>4. NextLink(r) \in Link /\ r[2] = d
  BY <1>1, <1>3, <1>r DEF NextLink, Link
<1>5. dest' \in [Chunk -> Device] /\ dest'[c] = d /\ \A b \in Chunk \ {c} : dest'[b] = dest[b]
  BY <1>1, <1>3 DEF IInv, TypeOK
<1>6. CalendarOKAt(waiting, t, issued)
  BY <1>1 DEF IInv, CalendarOK, CalendarOKAt
<1>7. invoked[c] = 0
  <2>1. Len(route[c]) = 0
    BY <1>1
  <2> QED BY <2>1 DEF IInv, CallbackAtMostOnce
<1>8. At(waiting, Arrival(c)) = {} /\ \A m \in Link : ~IsPending(c, m)
  BY <1>1, EntriesAreAt DEF IInv, OnePlacePerChunk, SomewhereWhileUnderWay, UnderWay, Sent
<1>9. installed.bandwidths \in TopoId
  <2>1. installed.bandwidths # NoTopo
    BY DEF Send
  <2>2. installed.bandwidths \in TopoId \cup {NoTopo}
    BY DEF IInv, TypeOK
  <2> QED BY <2>1, <2>2
<1>10. \A ev : ev # Arrival(c) => At(waiting, ev) = EntriesFor(ev)
  BY EntriesAreAt
<1>11. DeviceSend(c, r, it, t, waiting) /\ UNCHANGED <<manager, invoked>>
  BY <1>1, <1>r
<1> QED BY <1>1, <1>2, <1>4, <1>5, <1>6, <1>7, <1>8, <1>9, <1>10, <1>11, HandedOn

(* The arrival of a chunk, where it is sent on. *)
LEMMA SentOnStep ==
  ASSUME IInv, NEW e \in waiting, NEW c \in Chunk, ChunkArrivedNextDevice(e, c),
         Len(route[c]) # 2
  PROVE  IInv'
<1>w. PICK w : w = waiting \ {e}
  OBVIOUS
<1>r. PICK r : r = Tail(route[c])
  OBVIOUS
<1>i. PICK it : it = chunk_iteration[c]
  OBVIOUS
<1>1. /\ IsNext(e, waiting) /\ e.event = Arrival(c) /\ now' = e.time
      /\ DeviceSend(c, r, it, e.time, w)
      /\ UNCHANGED <<manager, invoked, chunk_iteration, dest>>
  BY <1>w, <1>r, <1>i DEF ChunkArrivedNextDevice
<1>2. /\ e.time \in Nat
      /\ CalendarOKAt(w, e.time, issued)
      /\ \A ev : ev # Arrival(c) => At(w, ev) = EntriesFor(ev)
      /\ At(w, Arrival(c)) = EntriesFor(Arrival(c)) \ {e}
      /\ e \in EntriesFor(Arrival(c))
  BY <1>w, <1>1, AfterTake DEF IInv, TypeOK
<1>3. At(w, Arrival(c)) = {}
  BY <1>2 DEF IInv, OnePlacePerChunk, OneArrival
<1>4. /\ InFlight(c) /\ route[c] # <<>> /\ invoked[c] = 0
      /\ \A m \in Link : ~IsPending(c, m)
  BY <1>2 DEF IInv, OnePlacePerChunk, SomewhereWhileUnderWay, NotInBoth, InFlight, UnderWay, Sent
<1>5. /\ route[c] \in Seq(Device) /\ Len(route[c]) \in Nat /\ Len(route[c]) >= 3
      /\ Len(r) = Len(route[c]) - 1
      /\ \A i \in 1..Len(r) : r[i] = route[c][i + 1]
  <2>1. route[c] \in Seq(Device)
    BY DEF IInv, TypeOK
  <2>2. Len(route[c]) \in Nat \ {0} /\ Len(route[c]) # 1
    BY <1>4, <2>1, EmptySeq DEF IInv, CallbackAtMostOnce
  <2>3. Len(r) = Len(route[c]) - 1 /\ \A i \in 1..Len(r) : r[i] = route[c][i + 1]
    BY <1>r, <1>4, <2>1, HeadTailProperties
  <2>4. \A n \in Nat \ {0} : n # 1 /\ n # 2 => n >= 3
    OBVIOUS
  <2> QED BY <2>1, <2>2, <2>3, <2>4
<1>6. r[1] = route[c][2] /\ r[2] = route[c][3]
  BY <1>5
<1>7. NextLink(r) \in Link
  <2>1. 2 \in 1..(Len(route[c]) - 1)
    BY <1>5
  <2>2. <<route[c][2], route[c][2 + 1]>> \in Link
    BY <2>1 DEF IInv, CallbackAtMostOnce
  <2> QED BY <1>6, <2>2 DEF NextLink
<1>8. ShortRoutes => r[2] = dest'[c]
  <2> SUFFICES ASSUME ShortRoutes PROVE r[2] = dest'[c]
    OBVIOUS
  <2>1. Len(route[c]) <= 3 /\ route[c][Len(route[c])] = dest[c]
    BY <1>4 DEF IInv, ShortRoutesStayShort, Sent
  <2>2. \A n \in Nat : n >= 3 /\ n <= 3 => n = 3
    OBVIOUS
  <2>3. Len(route[c]) = 3
    BY <1>5, <2>1, <2>2
  <2> QED BY <1>1, <1>6, <2>1, <2>3
<1>9. it \in Nat /\ it <= topology_iteration
  BY <1>i DEF IInv, TypeOK, ChunksKeepUp
<1>10. chunk_iteration' = [chunk_iteration EXCEPT ![c] = it] /\ dest' \in [Chunk -> Device]
  BY <1>1, <1>i DEF IInv, TypeOK
<1>11. installed.bandwidths \in TopoId
  BY <1>4 DEF IInv, RoutesInstalled, Sent
<1>12. /\ now' = e.time /\ \A d \in Chunk \ {c} : dest'[d] = dest[d]
       /\ UNCHANGED <<manager, invoked>>
  BY <1>1
<1> QED BY <1>1, <1>2, <1>3, <1>4, <1>7, <1>8, <1>9, <1>10, <1>11, <1>12, HandedOn

(* The arrival of a chunk at its destination. *)
LEMMA ArrivedStep ==
  ASSUME IInv, NEW e \in waiting, NEW c \in Chunk, ChunkArrivedNextDevice(e, c),
         Len(route[c]) = 2
  PROVE  IInv'
<1> USE DEF IInv
<1>w. PICK w : w = waiting \ {e}
  OBVIOUS
<1>r. PICK r : r = Tail(route[c])
  OBVIOUS
<1>1. /\ IsNext(e, waiting) /\ e.event = Arrival(c) /\ now' = e.time
      /\ route' = [route EXCEPT ![c] = r]
      /\ invoked' = [invoked EXCEPT ![c] = @ + 1]
      /\ waiting' = w
      /\ UNCHANGED <<issued, pending_chunks, busy, serving_until, chunk_iteration, dest>>
      /\ UNCHANGED <<settings, topology_iteration, cur_topo_id, requested, reconfiguring,
                     num_drained_links, device_iteration, installed>>
  BY <1>w, <1>r DEF ChunkArrivedNextDevice, network, manager
<1>2. /\ e.time \in Nat
      /\ CalendarOKAt(w, e.time, issued)
      /\ \A ev : ev # Arrival(c) => At(w, ev) = EntriesFor(ev)
      /\ At(w, Arrival(c)) = EntriesFor(Arrival(c)) \ {e}
      /\ e \in EntriesFor(Arrival(c))
  BY <1>w, <1>1, AfterTake DEF TypeOK
<1>3. At(waiting', Arrival(c)) = {}
  BY <1>1, <1>2 DEF OnePlacePerChunk, OneArrival
<1>4. /\ \A d \in Chunk \ {c} : At(waiting', Arrival(d)) = EntriesFor(Arrival(d))
      /\ \A m \in Link : At(waiting', Free(m)) = EntriesFor(Free(m))
  BY <1>1, <1>2, EventsDiffer
<1>5. /\ route[c] # <<>> /\ invoked[c] = 0
      /\ \A m \in Link : ~IsPending(c, m)
  BY <1>2 DEF OnePlacePerChunk, SomewhereWhileUnderWay, NotInBoth, InFlight, UnderWay, Sent
<1>6. r \in Seq(Device) /\ Len(r) = 1 /\ r # <<>> /\ r[1] = route[c][2]
  <2>1. route[c] \in Seq(Device)
    BY DEF TypeOK
  <2>2. /\ r \in Seq(Device) /\ Len(r) = Len(route[c]) - 1
        /\ \A i \in 1..Len(r) : r[i] = route[c][i + 1]
    BY <1>r, <1>5, <2>1, HeadTailProperties
  <2>3. Len(r) = 1
    BY <2>2
  <2> QED BY <2>2, <2>3
<1>7. /\ route' \in [Chunk -> Seq(Device)]
      /\ route'[c] = r /\ \A d \in Chunk \ {c} : route'[d] = route[d]
      /\ invoked' \in [Chunk -> Nat]
      /\ invoked'[c] = 1 /\ \A d \in Chunk \ {c} : invoked'[d] = invoked[d]
  BY <1>1, <1>5, <1>6 DEF TypeOK
<1>8. TypeOK'
  BY <1>1, <1>2, <1>7 DEF TypeOK, CalendarOKAt
<1>9. CalendarOK'
  BY <1>1, <1>2 DEF CalendarOK
<1>10. BusyWillBeFreed'
  BY <1>1, <1>4, EntriesAreAt DEF BusyWillBeFreed
<1>11. EveryLinkIsCounted'
  <2>1. \A m \in Link : At(waiting, Free(m)) # {} => At(waiting', Free(m)) # {}
    BY <1>4, EntriesAreAt
  <2>2. num_drained_links \in Nat
    BY LinksCounted DEF TypeOK
  <2> QED BY <1>1, <2>1, <2>2, CountKept
<1>12. PendingIsLookedAtAgain' /\ PendingIsServed'
  BY <1>1, <1>4, EntriesAreAt DEF PendingIsLookedAtAgain, PendingIsServed, bandwidth
<1>13. ChunksKeepUp'
  BY <1>1 DEF ChunksKeepUp
<1>14. DevicesFollowManager' /\ TopologyRequested'
  BY <1>1, <1>8, <1>13, ManagerStays DEF TypeOK
<1>15. \A d, m : IsPending(d, m)' <=> IsPending(d, m)
  BY <1>1 DEF IsPending
<1>16. /\ ~InFlight(c)' /\ Sent(c)' /\ Sent(c) /\ ~UnderWay(c)'
       /\ \A d \in Chunk \ {c} : /\ InFlight(d)' <=> InFlight(d)
                                 /\ Sent(d)' <=> Sent(d)
                                 /\ UnderWay(d)' <=> UnderWay(d)
  BY <1>3, <1>4, <1>5, <1>6, <1>7, EntriesAreAt DEF Sent, UnderWay
<1>17. NothingSentAhead'
  BY <1>1, <1>16 DEF NothingSentAhead
<1>18. OneArrival' /\ OnePendingPlace' /\ NotInBoth' /\ PendingForItsRoute'
  <2>1. OneArrival'
    BY <1>3, <1>4, EntriesAreAt DEF OnePlacePerChunk, OneArrival
  <2>2. OnePendingPlace'
    BY <1>1 DEF OnePlacePerChunk, OnePendingPlace
  <2>3. NotInBoth'
    BY <1>15, <1>16 DEF OnePlacePerChunk, NotInBoth
  <2>4. PendingForItsRoute'
    BY <1>5, <1>7, <1>15 DEF OnePlacePerChunk, PendingForItsRoute
  <2> QED BY <2>1, <2>2, <2>3, <2>4
<1>19. SomewhereWhileUnderWay'
  <2> SUFFICES ASSUME NEW d \in Chunk
               PROVE  ((InFlight(d) \/ \E m \in Link : IsPending(d, m)) <=> UnderWay(d))'
    BY DEF SomewhereWhileUnderWay
  <2>1. CASE d = c
    BY <1>5, <1>15, <1>16, <2>1
  <2>2. CASE d # c
    BY <1>15, <1>16, <2>2 DEF OnePlacePerChunk, SomewhereWhileUnderWay
  <2> QED BY <2>1, <2>2
<1>20. RoutesInstalled'
  BY <1>1, <1>16 DEF RoutesInstalled
<1>21. CallbackAtMostOnce'
  <2> SUFFICES ASSUME NEW d \in Chunk
               PROVE  /\ invoked'[d] \in {0, 1}
                      /\ invoked'[d] = 1 <=> Len(route'[d]) = 1
                      /\ \A i \in 1..(Len(route'[d]) - 1) :
                            <<route'[d][i], route'[d][i + 1]>> \in Link
    BY DEF CallbackAtMostOnce
  <2>1. CASE d = c
    BY <1>6, <1>7, <2>1
  <2>2. CASE d # c
    BY <1>7, <2>2 DEF CallbackAtMostOnce
  <2> QED BY <2>1, <2>2
<1>22. ShortRoutesStayShort'
  <2> SUFFICES ASSUME ShortRoutes, NEW d \in Chunk, Sent(d)'
               PROVE  Len(route'[d]) <= 3 /\ route'[d][Len(route'[d])] = dest'[d]
    BY DEF ShortRoutesStayShort
  <2>1. CASE d = c
    <3>1. route[c][Len(route[c])] = dest[c]
      BY <1>16 DEF ShortRoutesStayShort
    <3>2. route[c][2] = dest[c]
      BY <3>1
    <3>3. Len(r) = 1 /\ r[1] = dest[c]
      BY <1>6, <3>2
    <3>4. dest' = dest /\ route'[d] = r
      BY <1>1, <1>7, <2>1
    <3> HIDE DEF IInv
    <3> QED BY <2>1, <3>3, <3>4
  <2>2. CASE d # c
    BY <1>1, <1>7, <1>16, <2>2 DEF ShortRoutesStayShort
  <2> QED BY <2>1, <2>2
<1> QED BY <1>8, <1>9, <1>10, <1>11, <1>12, <1>13, <1>14, <1>17, <1>18, <1>19, <1>20, <1>21,
           <1>22 DEF OnePlacePerChunk

(* The end of a drain, at a request or at the last link to be counted: the *)
(* devices get the matrices the manager has then.                          *)
LEMMA DrainedStep ==
  ASSUME IInv, NEW t \in Nat, now' = t, NEW w, CalendarOKAt(w, t, issued),
         \A c \in Chunk : At(w, Arrival(c)) = EntriesFor(Arrival(c)),
         NEW b \in [Link -> BOOLEAN], NEW q, q = requested',
         q \in [bandwidths : TopoId, latencies : [Link -> Nat], reconfig_time : Nat],
         ReconfigureDevices(q, t, w, b),
         topology_iteration' = device_iteration + 1,
         cur_topo_id' \in TopoId \cup {NoTopo}, settings' \in 0..MaxSettings,
         ~reconfiguring', reconfiguring' \in BOOLEAN, num_drained_links' = 0,
         UNCHANGED <<pending_chunks, serving_until, chunks>>
  PROVE  IInv'
<1>1. /\ device_iteration' = device_iteration + 1
      /\ installed' = [bandwidths |-> q.bandwidths, latencies |-> q.latencies]
  BY DEF ReconfigureDevices
<1>2. /\ CalendarOKAt(waiting', t, issued')
      /\ issued' \in Nat
      /\ busy' \in [Link -> BOOLEAN]
      /\ \A c : At(waiting', Arrival(c)) = At(w, Arrival(c))
      /\ \A l \in Link : At(waiting', Free(l)) # {}
  <2>1. issued \in Nat /\ q.reconfig_time \in Nat
    BY DEF IInv, TypeOK
  <2> QED BY <2>1, AfterReconfigureDevices
<1>3. /\ device_iteration \in Nat /\ topology_iteration \in Nat
      /\ topology_iteration <= topology_iteration'
      /\ device_iteration' \in Nat /\ device_iteration <= device_iteration'
      /\ topology_iteration' \in Nat
  <2>1. device_iteration \in Nat /\ topology_iteration \in Nat
    BY DEF IInv, TypeOK
  <2>2. topology_iteration = device_iteration + (IF reconfiguring THEN 1 ELSE 0)
    BY DEF IInv, DevicesFollowManager
  <2> QED BY <1>1, <2>1, <2>2
<1>4. /\ installed'.bandwidths = q.bandwidths /\ installed'.latencies = q.latencies
      /\ installed'.bandwidths \in TopoId
      /\ installed' \in [bandwidths : TopoId \cup {NoTopo}, latencies : [Link -> Nat]]
  BY <1>1
<1>5. /\ OnePlacePerChunk'
      /\ ChunksKeepUp'
      /\ NothingSentAhead'
      /\ RoutesInstalled'
      /\ CallbackAtMostOnce'
      /\ ShortRoutesStayShort'
  <2>1. \A c \in Chunk : At(waiting', Arrival(c)) = At(waiting, Arrival(c))
    BY <1>2, EntriesAreAt
  <2> QED BY <1>3, <1>4, <2>1, ChunksStay
<1>6. TypeOK'
  <2>1. /\ pending_chunks' = pending_chunks /\ serving_until' = serving_until
        /\ route' = route /\ chunk_iteration' = chunk_iteration /\ invoked' = invoked
        /\ dest' = dest
    BY DEF chunks
  <2>2. num_drained_links' \in 0..(links_count - 1)
    BY LinksCounted
  <2>3. requested' \in [bandwidths : TopoId \cup {NoTopo}, latencies : [Link -> Nat],
                        reconfig_time : Nat]
    OBVIOUS
  <2>4. waiting' \in SUBSET Entry
    BY <1>2 DEF CalendarOKAt
  <2> QED BY <1>2, <1>3, <1>4, <2>1, <2>2, <2>3, <2>4 DEF IInv, TypeOK
<1>7. CalendarOK'
  BY <1>2 DEF CalendarOK
<1>8. BusyWillBeFreed' /\ PendingIsLookedAtAgain' /\ PendingIsServed'
  BY <1>2, EntriesAreAt DEF BusyWillBeFreed, PendingIsLookedAtAgain, PendingIsServed
<1>9. EveryLinkIsCounted' /\ TopologyRequested'
  BY DEF EveryLinkIsCounted, TopologyRequested
<1>10. DevicesFollowManager'
  <2>1. topology_iteration' = device_iteration' + (IF reconfiguring' THEN 1 ELSE 0)
    BY <1>1, <1>3
  <2>2. \A c \in Chunk : ~(chunk_iteration'[c] > device_iteration')
    <3>1. \A c \in Chunk : chunk_iteration'[c] \in Nat
      BY <1>6 DEF TypeOK
    <3>2. \A c \in Chunk : chunk_iteration'[c] <= device_iteration'
      BY <1>1, <1>5 DEF ChunksKeepUp
    <3> QED BY <1>3, <3>1, <3>2
  <2> QED BY <1>4, <2>1, <2>2 DEF DevicesFollowManager
<1> QED BY <1>5, <1>6, <1>7, <1>8, <1>9, <1>10 DEF IInv

(* A request, by reconfigure of either kind. *)
LEMMA RequestStep ==
  ASSUME IInv, NEW id \in TopoId, NEW t \in 0..LastCall, NEW q, q.bandwidths \in TopoId,
         q \in [bandwidths : TopoId, latencies : [Link -> Nat], reconfig_time : Nat],
         Request(id, q, t)
  PROVE  IInv'
<1>1. /\ ~reconfiguring /\ t >= now /\ \A e \in waiting : t <= e.time
      /\ now' = t /\ cur_topo_id' = id /\ requested' = q
      /\ topology_iteration' = topology_iteration + 1
      /\ DrainNetwork(q, t)
      /\ pending_chunks' = pending_chunks /\ serving_until' = serving_until
      /\ settings' = settings /\ UNCHANGED chunks
  BY DEF Request, CallAt
<1>2. t \in Nat
  BY MatricesAssumption
<1>3. CalendarOKAt(waiting, t, issued)
  BY <1>1 DEF IInv, CalendarOK, CalendarOKAt
<1>4. /\ topology_iteration = device_iteration
      /\ topology_iteration \in Nat /\ device_iteration \in Nat
  BY <1>1 DEF IInv, TypeOK, DevicesFollowManager
<1>5. CASE AllDrained(IdleLinks(busy))
  <2>1. /\ num_drained_links' = 0 /\ reconfiguring' = FALSE
        /\ ReconfigureDevices(q, t, waiting, busy)
    BY <1>1, <1>5 DEF DrainNetwork
  <2>2. busy \in [Link -> BOOLEAN] /\ settings' \in 0..MaxSettings
    BY <1>1 DEF IInv, TypeOK
  <2>3. \A c \in Chunk : At(waiting, Arrival(c)) = EntriesFor(Arrival(c))
    BY EntriesAreAt
  <2>4. ~reconfiguring' /\ reconfiguring' \in BOOLEAN
    BY <2>1
  <2>5. topology_iteration' = device_iteration + 1 /\ cur_topo_id' \in TopoId \cup {NoTopo}
    BY <1>1, <1>4
  <2> QED BY <1>1, <1>2, <1>3, <2>1, <2>2, <2>3, <2>4, <2>5, DrainedStep
<1>6. CASE ~AllDrained(IdleLinks(busy))
  <2>1. /\ num_drained_links' = IdleLinks(busy) /\ reconfiguring' = TRUE
        /\ UNCHANGED <<waiting, issued, busy, device_iteration, installed>>
    BY <1>1, <1>6 DEF DrainNetwork
  <2> DEFINE Idle == {l \in Link : ~busy[l]}
  <2>2. /\ IsFiniteSet(Idle) /\ Cardinality(Idle) \in Nat
        /\ IdleLinks(busy) = Cardinality(Idle)
    BY LinksCounted, FS_Subset, FS_CardinalityType DEF IdleLinks
  <2>3. num_drained_links' \in 0..(links_count - 1)
    <3>1. ~(Cardinality(Idle) >= links_count)
      BY <1>6, <2>2 DEF AllDrained
    <3> HIDE DEF Idle
    <3> QED BY <2>1, <2>2, <3>1, LinksCounted
  <2>4. EveryLinkIsCounted'
    <3>1. {l \in Link : EntriesFor(Free(l))' # {}} = FreeComing(waiting)
      BY <2>1, EntriesAreAt DEF FreeComing
    <3>2. Link = Idle \cup FreeComing(waiting)
      BY EntriesAreAt DEF IInv, BusyWillBeFreed, FreeComing
    <3>3. IsFiniteSet(FreeComing(waiting)) /\ Cardinality(FreeComing(waiting)) \in Nat
      BY <3>2, LinksCounted, FS_Subset, FS_CardinalityType
    <3> HIDE DEF Idle
    <3>4. /\ Cardinality(Link) = Cardinality(Idle) + Cardinality(FreeComing(waiting))
                                   - Cardinality(Idle \cap FreeComing(waiting))
          /\ IsFiniteSet(Idle \cap FreeComing(waiting))
          /\ Cardinality(Idle \cap FreeComing(waiting)) \in Nat
      BY <2>2, <3>2, <3>3, FS_Union, FS_Intersection, FS_CardinalityType
    <3>5. Cardinality(Idle) + Cardinality(FreeComing(waiting)) >= links_count
      BY <2>2, <3>3, <3>4, LinksCounted
    <3> QED BY <2>1, <2>2, <3>1, <3>5 DEF EveryLinkIsCounted
  <2>5. TypeOK'
    <3>1. UNCHANGED <<route, chunk_iteration, invoked, dest>>
      BY <1>1 DEF chunks
    <3>2. requested' \in [bandwidths : TopoId \cup {NoTopo}, latencies : [Link -> Nat],
                          reconfig_time : Nat]
      BY <1>1
    <3>3. topology_iteration' \in Nat
      BY <1>1, <1>4
    <3> QED BY <1>1, <1>2, <2>1, <2>3, <3>1, <3>2, <3>3 DEF IInv, TypeOK
  <2>6. CalendarOK'
    BY <1>1, <1>3, <2>1 DEF CalendarOK
  <2>7. BusyWillBeFreed' /\ PendingIsLookedAtAgain' /\ PendingIsServed'
    BY <1>1, <2>1, EntriesAreAt DEF IInv, BusyWillBeFreed, PendingIsLookedAtAgain,
       PendingIsServed
  <2>8. /\ OnePlacePerChunk'
        /\ ChunksKeepUp'
        /\ NothingSentAhead'
        /\ RoutesInstalled'
        /\ CallbackAtMostOnce'
        /\ ShortRoutesStayShort'
    <3>1. /\ \A c \in Chunk : At(waiting', Arrival(c)) = At(waiting, Arrival(c))
          /\ topology_iteration' \in Nat /\ topology_iteration' >= topology_iteration
          /\ device_iteration' \in Nat /\ device_iteration' >= device_iteration
      BY <1>1, <1>4, <2>1
    <3> QED BY <1>1, <2>1, <3>1, ChunksStay
  <2>9. DevicesFollowManager' /\ TopologyRequested'
    BY <1>1, <1>4, <2>1 DEF DevicesFollowManager, TopologyRequested
  <2> QED BY <2>4, <2>5, <2>6, <2>7, <2>8, <2>9 DEF IInv
<1> QED BY <1>5, <1>6

(* A call that touches nothing but the reconfiguration latency or the number of *)
(* the current topology.                                                        *)
LEMMA SetterStep ==
  ASSUME IInv, NEW t \in 0..LastCall, CallAt(t), settings' \in 0..MaxSettings,
         cur_topo_id' \in TopoId \cup {NoTopo}, requested'.reconfig_time \in Nat,
         requested' = [requested EXCEPT !.reconfig_time = requested'.reconfig_time],
         UNCHANGED <<waiting, issued, topology_iteration, reconfiguring,
                     num_drained_links, device_iteration, installed, network, chunks>>
  PROVE  IInv'
<1>1. t \in Nat /\ now' = t
  BY MatricesAssumption DEF CallAt
<1>2. CalendarOKAt(waiting, t, issued)
  BY DEF CallAt, IInv, CalendarOK, CalendarOKAt
<1>3. /\ requested'.bandwidths = requested.bandwidths
      /\ requested'.latencies = requested.latencies
      /\ requested' \in [bandwidths : TopoId \cup {NoTopo}, latencies : [Link -> Nat],
                         reconfig_time : Nat]
  BY DEF IInv, TypeOK
<1>4. /\ pending_chunks' = pending_chunks /\ busy' = busy /\ serving_until' = serving_until
      /\ UNCHANGED <<route, chunk_iteration, invoked, dest>>
  BY DEF network, chunks
<1>5. TypeOK'
  BY <1>1, <1>3, <1>4 DEF IInv, TypeOK
<1>6. CalendarOK'
  BY <1>1, <1>2 DEF CalendarOK
<1>7. BusyWillBeFreed' /\ EveryLinkIsCounted' /\ PendingIsLookedAtAgain' /\ PendingIsServed'
  BY <1>4 DEF IInv, BusyWillBeFreed, EveryLinkIsCounted, PendingIsLookedAtAgain,
     PendingIsServed, EntriesFor, bandwidth
<1>8. /\ OnePlacePerChunk'
      /\ ChunksKeepUp'
      /\ NothingSentAhead'
      /\ RoutesInstalled'
      /\ CallbackAtMostOnce'
      /\ ShortRoutesStayShort'
  <2>1. /\ \A c \in Chunk : At(waiting', Arrival(c)) = At(waiting, Arrival(c))
        /\ topology_iteration' \in Nat /\ topology_iteration' >= topology_iteration
        /\ device_iteration' \in Nat /\ device_iteration' >= device_iteration
    BY DEF IInv, TypeOK
  <2> QED BY <1>4, <2>1, ChunksStay
<1>9. DevicesFollowManager' /\ TopologyRequested'
  BY <1>3, <1>4 DEF IInv, DevicesFollowManager, TopologyRequested, IsPending
<1> QED BY <1>5, <1>6, <1>7, <1>8, <1>9 DEF IInv

(* A link became free and has nothing to send: it is counted if the network *)
(* drains, and the last one ends the drain.                                 *)
LEMMA CountedStep ==
  ASSUME IInv, NEW e \in waiting, NEW l \in Link, LinkBecomeFree(e, l), NothingToSend(l)
  PROVE  IInv'
<1>w. PICK w : w = waiting \ {e}
  OBVIOUS
<1>b. PICK b : b = [busy EXCEPT ![l] = FALSE]
  OBVIOUS
<1>1. /\ IsNext(e, waiting) /\ e.event = Free(l) /\ now' = e.time
      /\ IncrementCallback(e.time, w, b)
      /\ UNCHANGED <<pending_chunks, serving_until>>
      /\ UNCHANGED <<topology_iteration, cur_topo_id, requested, settings, chunks>>
  BY <1>w, <1>b DEF LinkBecomeFree
<1>2. /\ e.time \in Nat
      /\ CalendarOKAt(w, e.time, issued)
      /\ \A ev : ev # Free(l) => At(w, ev) = EntriesFor(ev)
      /\ e \in EntriesFor(Free(l))
  BY <1>w, <1>1, AfterTake DEF IInv, TypeOK
<1>3. /\ \A c \in Chunk : At(w, Arrival(c)) = EntriesFor(Arrival(c))
      /\ \A m \in Link \ {l} : At(w, Free(m)) = EntriesFor(Free(m))
  BY <1>2, EventsDiffer
<1>4. b \in [Link -> BOOLEAN] /\ ~b[l] /\ \A m \in Link \ {l} : b[m] = busy[m]
  BY <1>b DEF IInv, TypeOK
<1>5. /\ topology_iteration = device_iteration + (IF reconfiguring THEN 1 ELSE 0)
      /\ topology_iteration \in Nat /\ device_iteration \in Nat /\ issued \in Nat
      /\ num_drained_links \in 0..(links_count - 1)
      /\ cur_topo_id \in TopoId \cup {NoTopo} /\ settings \in 0..MaxSettings
      /\ requested \in [bandwidths : TopoId \cup {NoTopo}, latencies : [Link -> Nat],
                        reconfig_time : Nat]
  BY DEF IInv, TypeOK, DevicesFollowManager
<1>6. CASE reconfiguring /\ AllDrained(num_drained_links + 1)
  <2>1. /\ num_drained_links' = 0 /\ reconfiguring' = FALSE
        /\ ReconfigureDevices(requested, e.time, w, b)
    BY <1>1, <1>6 DEF IncrementCallback
  <2>2. requested.bandwidths \in TopoId
    BY <1>6 DEF IInv, TopologyRequested
  <2>q. PICK q : q = requested
    OBVIOUS
  <2>3. /\ q \in [bandwidths : TopoId, latencies : [Link -> Nat], reconfig_time : Nat]
        /\ q = requested'
        /\ ReconfigureDevices(q, e.time, w, b)
    BY <1>1, <1>5, <2>1, <2>2, <2>q
  <2>4. /\ topology_iteration' = device_iteration + 1
        /\ cur_topo_id' \in TopoId \cup {NoTopo} /\ settings' \in 0..MaxSettings
        /\ ~reconfiguring' /\ reconfiguring' \in BOOLEAN
        /\ UNCHANGED <<pending_chunks, serving_until, chunks>>
    BY <1>1, <1>5, <1>6, <2>1
  <2> QED BY <1>1, <1>2, <1>3, <1>4, <2>1, <2>3, <2>4, DrainedStep
<1>7. CASE ~(reconfiguring /\ AllDrained(num_drained_links + 1))
  <2>1. /\ busy' = b /\ waiting' = w
        /\ UNCHANGED <<issued, reconfiguring, device_iteration, installed>>
        /\ num_drained_links' = IF reconfiguring THEN num_drained_links + 1 ELSE 0
    BY <1>1, <1>7 DEF IncrementCallback
  <2>2. num_drained_links' \in 0..(links_count - 1)
    <3>1. CASE reconfiguring
      <4>1. ~(num_drained_links + 1 >= links_count)
        BY <1>7, <3>1 DEF AllDrained
      <4> QED BY <1>5, <2>1, <3>1, <4>1, LinksCounted
    <3>2. CASE ~reconfiguring
      BY <2>1, <3>2, LinksCounted
    <3> QED BY <3>1, <3>2
  <2>3. EveryLinkIsCounted'
    <3> SUFFICES ASSUME reconfiguring'
                 PROVE  num_drained_links' + Cardinality(FreeComing(w)) >= links_count
      <4>1. {m \in Link : EntriesFor(Free(m))' # {}} = FreeComing(w)
        BY <2>1, EntriesAreAt DEF FreeComing
      <4> QED BY <4>1 DEF EveryLinkIsCounted
    <3> DEFINE F == FreeComing(waiting)
    <3>1. F \ {l} \subseteq FreeComing(w) /\ FreeComing(w) \subseteq Link /\ F \subseteq Link
      BY <1>3, EntriesAreAt DEF FreeComing
    <3>2. l \in F
      BY <1>2, EntriesAreAt DEF FreeComing
    <3>3. num_drained_links + Cardinality(F) >= links_count
      <4>1. {m \in Link : EntriesFor(Free(m)) # {}} = F
        BY EntriesAreAt DEF FreeComing
      <4> QED BY <2>1, <4>1 DEF IInv, EveryLinkIsCounted
    <3> HIDE DEF F
    <3>4. /\ IsFiniteSet(F) /\ IsFiniteSet(FreeComing(w)) /\ IsFiniteSet(F \ {l})
          /\ Cardinality(F) \in Nat /\ Cardinality(FreeComing(w)) \in Nat
      BY <3>1, LinksCounted, FS_Subset, FS_CardinalityType
    <3>5. Cardinality(F \ {l}) = Cardinality(F) - 1
      BY <3>2, <3>4, FS_RemoveElement
    <3>6. Cardinality(F \ {l}) <= Cardinality(FreeComing(w))
      BY <3>1, <3>4, FS_Subset
    <3>7. num_drained_links' = num_drained_links + 1 /\ num_drained_links \in Nat
      BY <1>5, <2>1
    <3> QED BY <3>3, <3>4, <3>5, <3>6, <3>7, LinksCounted
  <2>4. TypeOK'
    <3>1. UNCHANGED <<route, chunk_iteration, invoked, dest>>
      BY <1>1 DEF chunks
    <3>2. waiting' \in SUBSET Entry
      BY <1>2, <2>1 DEF CalendarOKAt
    <3> QED BY <1>1, <1>2, <1>4, <2>1, <2>2, <3>1, <3>2 DEF IInv, TypeOK
  <2>5. CalendarOK'
    BY <1>1, <1>2, <2>1 DEF CalendarOK
  <2>6. BusyWillBeFreed'
    BY <1>3, <1>4, <2>1, EntriesAreAt DEF IInv, BusyWillBeFreed
  <2>7. pending_chunks[l] # <<>> => reconfiguring
    <3> SUFFICES ASSUME pending_chunks[l] # <<>> PROVE reconfiguring
      OBVIOUS
    <3>1. /\ pending_chunks[l] \in Seq(Chunk)
          /\ Head(pending_chunks[l]) \in Chunk
          /\ Head(pending_chunks[l]) = pending_chunks[l][1]
          /\ 1 \in 1..Len(pending_chunks[l])
      <4>1. pending_chunks[l] \in Seq(Chunk)
        BY DEF IInv, TypeOK
      <4> QED BY <4>1, EmptySeq, HeadTailProperties
    <3>2. IsPending(Head(pending_chunks[l]), l)
      BY <3>1 DEF IsPending
    <3>3. chunk_iteration[Head(pending_chunks[l])] > device_iteration
      BY DEF NothingToSend
    <3> QED BY <3>1, <3>2, <3>3 DEF IInv, DevicesFollowManager
  <2>8. PendingIsLookedAtAgain' /\ PendingIsServed'
    <3>1. \A m : bandwidth(m)' = bandwidth(m)
      BY <2>1 DEF bandwidth
    <3>2. \A m \in Link \ {l} : EntriesFor(Free(m))' = EntriesFor(Free(m))
      BY <1>3, <2>1, EntriesAreAt
    <3> QED BY <1>1, <2>1, <2>7, <3>1, <3>2 DEF IInv, PendingIsLookedAtAgain, PendingIsServed
  <2>9. /\ OnePlacePerChunk'
        /\ ChunksKeepUp'
        /\ NothingSentAhead'
        /\ RoutesInstalled'
        /\ CallbackAtMostOnce'
        /\ ShortRoutesStayShort'
    <3>1. /\ \A c \in Chunk : At(waiting', Arrival(c)) = At(waiting, Arrival(c))
          /\ topology_iteration' \in Nat /\ topology_iteration' >= topology_iteration
          /\ device_iteration' \in Nat /\ device_iteration' >= device_iteration
      BY <1>1, <1>3, <1>5, <2>1, EntriesAreAt
    <3> QED BY <1>1, <2>1, <3>1, ChunksStay
  <2>10. DevicesFollowManager' /\ TopologyRequested'
    <3>1. chunk_iteration' \in [Chunk -> Nat]
      BY <2>4 DEF TypeOK
    <3> QED BY <1>1, <2>1, <2>9, <3>1, ManagerStays
  <2> QED BY <2>3, <2>4, <2>5, <2>6, <2>8, <2>9, <2>10 DEF IInv
<1> QED BY <1>6, <1>7

(* A link became free and takes the first of its pending chunks. *)
LEMMA TakenStep ==
  ASSUME IInv, NEW e \in waiting, NEW l \in Link, LinkBecomeFree(e, l), ~NothingToSend(l)
  PROVE  IInv'
<1> USE DEF IInv
<1>w. PICK w : w = waiting \ {e}
  OBVIOUS
<1>c. PICK c : c = Head(pending_chunks[l])
  OBVIOUS
<1>1. /\ IsNext(e, waiting) /\ e.event = Free(l) /\ now' = e.time
      /\ pending_chunks' = [pending_chunks EXCEPT ![l] = Tail(@)]
      /\ Transmit(l, c, e.time, w)
      /\ UNCHANGED <<reconfiguring, num_drained_links, device_iteration, installed>>
      /\ UNCHANGED <<topology_iteration, cur_topo_id, requested, settings>>
      /\ UNCHANGED <<route, chunk_iteration, invoked, dest>>
  BY <1>w, <1>c DEF LinkBecomeFree, chunks
<1>2. /\ e.time \in Nat
      /\ CalendarOKAt(w, e.time, issued)
      /\ \A ev : ev # Free(l) => At(w, ev) = EntriesFor(ev)
      /\ e \in EntriesFor(Free(l))
  BY <1>w, <1>1, AfterTake DEF TypeOK
<1>3. /\ \A d \in Chunk : At(w, Arrival(d)) = EntriesFor(Arrival(d))
      /\ \A m \in Link \ {l} : At(w, Free(m)) = EntriesFor(Free(m))
  BY <1>2, EventsDiffer
<1>4. /\ pending_chunks' \in [Link -> Seq(Chunk)]
      /\ OnePendingPlace'
      /\ c \in Chunk
      /\ IsPending(c, l)
      /\ \A d \in Chunk, m \in Link : IsPending(d, m)' <=> IsPending(d, m) /\ d # c
      /\ \A m \in Link \ {l} : pending_chunks'[m] = pending_chunks[m]
  <2>1. pending_chunks[l] # <<>>
    BY DEF NothingToSend
  <2>2. pending_chunks \in [Link -> Seq(Chunk)] /\ OnePendingPlace
    BY DEF TypeOK, OnePlacePerChunk
  <2> HIDE DEF IInv
  <2> QED BY <1>1, <1>c, <2>1, <2>2, AfterPop
<1>5. /\ CalendarOKAt(waiting', e.time, issued')
      /\ issued' \in Nat
      /\ busy' = [busy EXCEPT ![l] = TRUE]
      /\ serving_until' \in [Link -> Nat]
      /\ \A ev : ev # Arrival(c) /\ ev # Free(l) => At(waiting', ev) = At(w, ev)
      /\ At(waiting', Arrival(c)) # {}
      /\ At(w, Arrival(c)) = {} => \A f, g \in At(waiting', Arrival(c)) : f = g
      /\ At(waiting', Free(l)) # {}
  BY <1>1, <1>2, <1>4, AfterTransmit
<1>6. busy' \in [Link -> BOOLEAN] /\ \A m \in Link \ {l} : busy'[m] = busy[m]
  BY <1>5 DEF TypeOK
<1>7. /\ \A d \in Chunk \ {c} : At(waiting', Arrival(d)) = EntriesFor(Arrival(d))
      /\ \A m \in Link \ {l} : At(waiting', Free(m)) = EntriesFor(Free(m))
  BY <1>3, <1>5, EventsDiffer
<1>8. At(w, Arrival(c)) = {}
  BY <1>3, <1>4 DEF OnePlacePerChunk, NotInBoth, InFlight
<1>9. TypeOK'
  BY <1>1, <1>2, <1>4, <1>5, <1>6 DEF TypeOK, CalendarOKAt
<1>10. CalendarOK'
  BY <1>1, <1>5 DEF CalendarOK
<1>11. BusyWillBeFreed'
  BY <1>5, <1>6, <1>7, EntriesAreAt DEF BusyWillBeFreed
<1>12. EveryLinkIsCounted'
  <2>1. \A m \in Link : At(waiting, Free(m)) # {} => At(waiting', Free(m)) # {}
    BY <1>5, <1>7, EntriesAreAt
  <2>2. num_drained_links \in Nat
    BY LinksCounted DEF TypeOK
  <2> QED BY <1>1, <2>1, <2>2, CountKept
<1>13. PendingIsLookedAtAgain' /\ PendingIsServed'
  <2>1. \A m : bandwidth(m)' = bandwidth(m)
    BY <1>1 DEF bandwidth
  <2>2. PendingIsLookedAtAgain'
    BY <1>1, <1>4, <1>5, <1>7, <2>1, EntriesAreAt DEF PendingIsLookedAtAgain
  <2>3. PendingIsServed'
    BY <1>1, <1>4, <1>5, <1>7, EntriesAreAt DEF PendingIsServed
  <2> QED BY <2>2, <2>3
<1>14. ChunksKeepUp'
  BY <1>1 DEF ChunksKeepUp
<1>15. DevicesFollowManager' /\ TopologyRequested'
  BY <1>1, <1>9, <1>14, ManagerStays DEF TypeOK
<1>16. /\ \A d : Sent(d)' <=> Sent(d)
       /\ \A d : UnderWay(d)' <=> UnderWay(d)
       /\ \A d \in Chunk : InFlight(d)' <=> InFlight(d) \/ d = c
  BY <1>1, <1>5, <1>7, EntriesAreAt DEF Sent, UnderWay
<1>17. NothingSentAhead'
  <2>1. chunk_iteration[c] <= device_iteration
    <3>1. ~(chunk_iteration[c] > device_iteration)
      BY <1>c DEF NothingToSend
    <3>2. chunk_iteration[c] \in Nat /\ device_iteration \in Nat
      BY <1>4 DEF TypeOK
    <3> QED BY <3>1, <3>2
  <2> QED BY <1>1, <1>16, <2>1 DEF NothingSentAhead
<1>18. OneArrival'
  BY <1>5, <1>7, <1>8, EntriesAreAt DEF OnePlacePerChunk, OneArrival
<1>19. NotInBoth'
  BY <1>4, <1>16 DEF OnePlacePerChunk, NotInBoth
<1>20. PendingForItsRoute'
  BY <1>1, <1>4 DEF OnePlacePerChunk, PendingForItsRoute
<1>21. SomewhereWhileUnderWay'
  BY <1>4, <1>16 DEF OnePlacePerChunk, SomewhereWhileUnderWay
<1>22. RoutesInstalled'
  BY <1>1, <1>16 DEF RoutesInstalled
<1>23. CallbackAtMostOnce' /\ ShortRoutesStayShort'
  BY <1>1, <1>16 DEF CallbackAtMostOnce, ShortRoutesStayShort
<1> QED BY <1>4, <1>9, <1>10, <1>11, <1>12, <1>13, <1>14, <1>15, <1>17, <1>18, <1>19, <1>20,
           <1>21, <1>22, <1>23 DEF OnePlacePerChunk

-----------------------------------------------------------------------------
LEMMA CallStep ==
  ASSUME IInv, NEW t \in 0..LastCall, Call(t)
  PROVE  IInv'
<1>1. \A id \in TopoId : Latency[id] \in [Link -> Nat]
  BY MatricesAssumption
<1>2. requested \in [bandwidths : TopoId \cup {NoTopo}, latencies : [Link -> Nat],
                     reconfig_time : Nat]
  BY DEF IInv, TypeOK
<1>3. ASSUME NEW id \in TopoId, NEW rt \in ReconfigTimes, Reconfigure(id, rt, t)
      PROVE  IInv'
  <2>1. PICK q : q = [bandwidths |-> id, latencies |-> Latency[id], reconfig_time |-> rt]
    OBVIOUS
  <2>2. q.bandwidths \in TopoId
        /\ q \in [bandwidths : TopoId, latencies : [Link -> Nat], reconfig_time : Nat]
    BY <1>1, <2>1, MatricesAssumption
  <2> QED BY <1>3, <2>1, <2>2, RequestStep DEF Reconfigure
<1>4. ASSUME NEW id \in TopoId, ReconfigureById(id, t)
      PROVE  IInv'
  <2>1. PICK q : q = [requested EXCEPT !.bandwidths = id]
    OBVIOUS
  <2>2. q.bandwidths \in TopoId
        /\ q \in [bandwidths : TopoId, latencies : [Link -> Nat], reconfig_time : Nat]
    BY <1>2, <2>1
  <2> QED BY <1>4, <2>1, <2>2, RequestStep DEF ReconfigureById
<1>5. settings < MaxSettings => settings + 1 \in 0..MaxSettings
  BY MatricesAssumption DEF IInv, TypeOK
<1>6. ASSUME NEW rt \in ReconfigTimes, SetReconfigLatency(rt, t)
      PROVE  IInv'
  <2>1. /\ CallAt(t) /\ settings' \in 0..MaxSettings
        /\ requested' = [requested EXCEPT !.reconfig_time = rt]
        /\ UNCHANGED <<waiting, issued, topology_iteration, cur_topo_id, reconfiguring,
                       num_drained_links, device_iteration, installed, network, chunks>>
    BY <1>5, <1>6 DEF SetReconfigLatency
  <2>2. rt \in Nat /\ requested'.reconfig_time = rt
    BY <1>2, <2>1, MatricesAssumption
  <2>3. cur_topo_id' \in TopoId \cup {NoTopo}
    BY <2>1 DEF IInv, TypeOK
  <2> QED BY <2>1, <2>2, <2>3, SetterStep
<1>7. ASSUME NEW id \in SetIds, SetCurTopoId(id, t)
      PROVE  IInv'
  <2>1. /\ CallAt(t) /\ settings' \in 0..MaxSettings
        /\ cur_topo_id' = id /\ requested' = requested
        /\ UNCHANGED <<waiting, issued, topology_iteration, reconfiguring,
                       num_drained_links, device_iteration, installed, network, chunks>>
    BY <1>5, <1>7 DEF SetCurTopoId
  <2>2. /\ requested'.reconfig_time \in Nat
        /\ requested' = [requested EXCEPT !.reconfig_time = requested'.reconfig_time]
    BY <1>2, <2>1
  <2>3. cur_topo_id' \in TopoId \cup {NoTopo}
    BY <2>1, MatricesAssumption
  <2> QED BY <2>1, <2>2, <2>3, SetterStep
<1>8. ASSUME NEW c \in Chunk, NEW src \in NPU, NEW d \in NPU,
             NEW it \in {0, topology_iteration}, Send(c, src, d, it, t)
      PROVE  IInv'
  BY <1>8, SendStep
<1> QED BY <1>3, <1>4, <1>6, <1>7, <1>8 DEF Call

LEMMA EventStep ==
  ASSUME IInv, RunNextEvent
  PROVE  IInv'
<1>1. PICK e \in waiting : Handle(e)
  BY DEF RunNextEvent
<1>2. e.event \in Event
  BY DEF IInv, TypeOK, Entry
<1>3. CASE e.event.handler = "chunk_arrived_next_device"
  <2>1. PICK c \in Chunk : e.event = Arrival(c)
    BY <1>2, <1>3 DEF Event, Free
  <2>2. ChunkArrivedNextDevice(e, c)
    BY <1>1, <1>3, <2>1 DEF Handle, Arrival
  <2> QED BY <2>2, SentOnStep, ArrivedStep
<1>4. CASE e.event.handler = "link_become_free"
  <2>1. PICK l \in Link : e.event = Free(l)
    BY <1>2, <1>4 DEF Event, Arrival
  <2>2. LinkBecomeFree(e, l)
    BY <1>1, <1>4, <2>1 DEF Handle, Free
  <2> QED BY <2>2, CountedStep, TakenStep
<1> QED BY <1>1, <1>3, <1>4 DEF Handle

LEMMA StutterStep ==
  ASSUME IInv, UNCHANGED vars
  PROVE  IInv'
<1>1. /\ UNCHANGED <<now, waiting, issued, topology_iteration, cur_topo_id, requested>>
      /\ UNCHANGED <<reconfiguring, num_drained_links, device_iteration, installed>>
      /\ UNCHANGED <<pending_chunks, busy, route, chunk_iteration, invoked, dest>>
      /\ UNCHANGED <<serving_until, settings>>
  BY DEF vars
<1>2. TypeOK'
  BY <1>1 DEF IInv, TypeOK
<1>3. /\ CalendarOK' /\ BusyWillBeFreed' /\ EveryLinkIsCounted' /\ PendingIsLookedAtAgain'
      /\ PendingIsServed' /\ DevicesFollowManager' /\ TopologyRequested'
  BY <1>1 DEF IInv, CalendarOK, BusyWillBeFreed, EveryLinkIsCounted, PendingIsLookedAtAgain,
     PendingIsServed, EntriesFor, bandwidth, DevicesFollowManager, TopologyRequested, IsPending
<1>4. /\ OnePlacePerChunk'
      /\ ChunksKeepUp'
      /\ NothingSentAhead'
      /\ RoutesInstalled'
      /\ CallbackAtMostOnce'
      /\ ShortRoutesStayShort'
  <2>1. /\ \A c \in Chunk : At(waiting', Arrival(c)) = At(waiting, Arrival(c))
        /\ topology_iteration' \in Nat /\ topology_iteration' >= topology_iteration
        /\ device_iteration' \in Nat /\ device_iteration' >= device_iteration
        /\ UNCHANGED <<pending_chunks, chunks>>
    BY <1>1 DEF IInv, TypeOK, chunks
  <2> QED BY <1>1, <2>1, ChunksStay
<1> QED BY <1>2, <1>3, <1>4 DEF IInv

LEMMA InvStep == IInv /\ [Next]_vars => IInv'
BY CallStep, EventStep, StutterStep DEF Next

LEMMA InvInit == Init => IInv
<1> SUFFICES ASSUME Init PROVE IInv
  OBVIOUS
<1>1. \A ev : EntriesFor(ev) = {}
  BY DEF Init, EntriesFor
<1>2. /\ <<>> \in Seq(Chunk) /\ <<>> \in Seq(Device) /\ Len(<<>>) = 0
      /\ 0 \in Device /\ 0 \in 0..(links_count - 1) /\ 0 \in 0..MaxSettings
  <2>1. <<>> \in Seq(Chunk) /\ <<>> \in Seq(Device) /\ Len(<<>>) = 0
    OBVIOUS
  <2>2. 0 \in Device
    BY MatricesAssumption DEF Device
  <2>3. 0 \in 0..(links_count - 1)
    BY LinksCounted
  <2>4. 0 \in 0..MaxSettings
    BY MatricesAssumption
  <2> QED BY <2>1, <2>2, <2>3, <2>4
<1>3. TypeOK
  <2>1. PICK t \in UninitializedTime :
          requested = [bandwidths |-> NoTopo, latencies |-> Zeros, reconfig_time |-> t]
    BY DEF Init
  <2>2. t \in Nat /\ Zeros \in [Link -> Nat]
    BY MatricesAssumption DEF Zeros
  <2>3. requested \in [bandwidths : TopoId \cup {NoTopo}, latencies : [Link -> Nat],
                       reconfig_time : Nat]
    BY <2>1, <2>2
  <2>4. installed \in [bandwidths : TopoId \cup {NoTopo}, latencies : [Link -> Nat]]
    BY <2>2 DEF Init
  <2> QED BY <1>2, <2>3, <2>4 DEF Init, TypeOK
<1>4. \A c \in Chunk : /\ ~Sent(c) /\ ~UnderWay(c) /\ invoked[c] = 0 /\ Len(route[c]) = 0
                       /\ chunk_iteration[c] = 0
  BY <1>2 DEF Init, Sent, UnderWay
<1>5. \A l \in Link : pending_chunks[l] = <<>> /\ ~busy[l]
  BY DEF Init
<1>6. \A c, l : l \in Link => ~IsPending(c, l)
  BY <1>2, <1>5 DEF IsPending
<1>7. ~reconfiguring /\ topology_iteration = 0 /\ device_iteration = 0
  BY DEF Init
<1>8. CalendarOK
  BY DEF Init, CalendarOK, CalendarOKAt
<1>9. BusyWillBeFreed /\ EveryLinkIsCounted /\ PendingIsLookedAtAgain /\ PendingIsServed
  BY <1>5, <1>7 DEF BusyWillBeFreed, EveryLinkIsCounted, PendingIsLookedAtAgain,
     PendingIsServed
<1>10. NothingSentAhead /\ TopologyRequested /\ ChunksKeepUp /\ RoutesInstalled
       /\ ShortRoutesStayShort
  BY <1>4, <1>7 DEF NothingSentAhead, TopologyRequested, ChunksKeepUp, RoutesInstalled,
     ShortRoutesStayShort
<1>11. DevicesFollowManager
  <2>1. /\ installed.bandwidths = requested.bandwidths
        /\ installed.latencies = requested.latencies
    BY DEF Init
  <2> QED BY <1>6, <1>7, <2>1 DEF DevicesFollowManager
<1>12. OnePlacePerChunk
  BY <1>1, <1>2, <1>4, <1>5, <1>6 DEF OnePlacePerChunk, OneArrival, OnePendingPlace, NotInBoth,
     PendingForItsRoute, SomewhereWhileUnderWay, InFlight
<1>13. CallbackAtMostOnce
  <2>1. 1..(0 - 1) = {}
    OBVIOUS
  <2> QED BY <1>4, <2>1 DEF CallbackAtMostOnce
<1> QED BY <1>3, <1>8, <1>9, <1>10, <1>11, <1>12, <1>13 DEF IInv

(* The inductive invariant holds of every reachable state. *)
THEOREM Invariant == Spec => []IInv
BY InvInit, InvStep, PTL DEF Spec

-----------------------------------------------------------------------------
(* Every state of manager, devices, links and chunks is well typed; the count *)
(* of drained links stays below the number of links.                          *)
THEOREM ReconfigurableTypeCorrect == Spec => []TypeOK
<1>1. IInv => TypeOK
  BY DEF IInv
<1> QED BY <1>1, Invariant, PTL

(* A chunk under way is in exactly one place, across reconfigurations. *)
THEOREM ChunksAreConservedAcrossReconfigurations == Spec => []OnePlacePerChunk
<1>1. IInv => OnePlacePerChunk
  BY DEF IInv
<1> QED BY <1>1, Invariant, PTL

(* A busy link has an event coming that frees it. *)
THEOREM BusyLinksAreFreed == Spec => []BusyWillBeFreed
<1>1. IInv => BusyWillBeFreed
  BY DEF IInv
<1> QED BY <1>1, Invariant, PTL

(* No chunk is transmitted before the iteration it was sent in is installed. *)
THEOREM NoChunkAheadOfItsTopology == Spec => []NothingSentAhead
<1>1. IInv => NothingSentAhead
  BY DEF IInv
<1> QED BY <1>1, Invariant, PTL

(* A drain cannot get stuck: what was counted and what is still to be counted *)
(* reach the number of links.                                                 *)
THEOREM DrainCannotStall == Spec => []EveryLinkIsCounted
<1>1. IInv => EveryLinkIsCounted
  BY DEF IInv
<1> QED BY <1>1, Invariant, PTL

(* No wakeup of a pending chunk is lost. *)
THEOREM PendingIsNeverForgotten == Spec => []PendingIsLookedAtAgain
<1>1. IInv => PendingIsLookedAtAgain
  BY DEF IInv
<1> QED BY <1>1, Invariant, PTL

(* The devices are where the manager is, or one iteration behind it while the *)
(* network drains.                                                            *)
THEOREM DevicesKeepUpWithManager == Spec => []DevicesFollowManager
<1>1. IInv => DevicesFollowManager
  BY DEF IInv
<1> QED BY <1>1, Invariant, PTL

(* With routes of two hops at most, every chunk ends where it was sent. *)
THEOREM ShortRoutesDeliver == Spec => []ShortRoutesEndAtDestination
<1>1. IInv => ShortRoutesEndAtDestination
  <2> SUFFICES ASSUME IInv, ShortRoutes, NEW c \in Chunk, Sent(c)
               PROVE  /\ route[c][Len(route[c])] = dest[c]
                      /\ invoked[c] > 0 => Len(route[c]) = 1
    BY DEF ShortRoutesEndAtDestination
  <2>1. route[c][Len(route[c])] = dest[c]
    BY DEF IInv, ShortRoutesStayShort
  <2>2. invoked[c] \in {0, 1} /\ (invoked[c] = 1 <=> Len(route[c]) = 1)
    BY DEF IInv, CallbackAtMostOnce
  <2> QED BY <2>1, <2>2
<1> QED BY <1>1, Invariant, PTL

(* When the event queue is empty no drain is under way, no link is busy, and a  *)
(* chunk whose callback has not been invoked waits for a circuit and nothing    *)
(* else; if the routes have circuits there is no such chunk.  The simulation    *)
(* cannot stop in the middle of a reconfiguration.                              *)
THEOREM QueueEmptiesWhenDone == Spec => []NothingLeftBehind
<1>1. IInv => NothingLeftBehind
  <2> SUFFICES ASSUME IInv, waiting = {}
               PROVE  /\ ~reconfiguring
                      /\ \A l \in Link : ~busy[l]
                      /\ \A l \in Link : pending_chunks[l] # <<>> => bandwidth(l) = 0
                      /\ \A c \in Chunk : UnderWay(c) =>
                           \E l \in Link : /\ IsPending(c, l) /\ l = NextLink(route[c])
                                          /\ bandwidth(l) = 0
                      /\ CircuitRoutes => \A c \in Chunk : Sent(c) => invoked[c] = 1
    BY DEF NothingLeftBehind
  <2>1. \A ev : EntriesFor(ev) = {}
    BY DEF EntriesFor
  <2>2. ~reconfiguring
    <3>1. {l \in Link : EntriesFor(Free(l)) # {}} = {}
      BY <2>1
    <3>2. num_drained_links \in Nat /\ num_drained_links < links_count
      BY LinksCounted DEF IInv, TypeOK
    <3>3. reconfiguring => num_drained_links + 0 >= links_count
      BY <3>1, FS_EmptySet DEF IInv, EveryLinkIsCounted
    <3> QED BY <3>2, <3>3, LinksCounted
  <2>3. \A l \in Link : ~busy[l]
    BY <2>1 DEF IInv, BusyWillBeFreed
  <2>4. \A l \in Link : pending_chunks[l] # <<>> => bandwidth(l) = 0
    BY <2>1, <2>2 DEF IInv, PendingIsLookedAtAgain
  <2>5. ASSUME NEW c \in Chunk, UnderWay(c)
        PROVE  \E l \in Link : /\ IsPending(c, l) /\ l = NextLink(route[c])
                              /\ bandwidth(l) = 0
    <3>1. ~InFlight(c)
      BY <2>1 DEF InFlight
    <3>2. PICK l \in Link : IsPending(c, l)
      BY <2>5, <3>1 DEF IInv, OnePlacePerChunk, SomewhereWhileUnderWay
    <3>3. l = NextLink(route[c])
      BY <3>2 DEF IInv, OnePlacePerChunk, PendingForItsRoute
    <3>4. pending_chunks[l] # <<>>
      BY <3>2 DEF IsPending
    <3> QED BY <2>4, <3>2, <3>3, <3>4
  <2>6. ASSUME CircuitRoutes, NEW c \in Chunk, Sent(c) PROVE invoked[c] = 1
    <3>1. \A l \in Link : pending_chunks[l] = <<>>
      BY <2>1, <2>2, <2>6 DEF IInv, PendingIsServed
    <3>2. \A l \in Link : ~IsPending(c, l)
      BY <3>1 DEF IsPending
    <3>3. ~UnderWay(c)
      BY <2>5, <3>2
    <3>4. invoked[c] \in {0, 1}
      BY DEF IInv, CallbackAtMostOnce
    <3> QED BY <2>6, <3>3, <3>4 DEF UnderWay
  <2> QED BY <2>2, <2>3, <2>4, <2>5, <2>6
<1> QED BY <1>1, Invariant, PTL

(* No callback is invoked twice, and none before a single device is left of *)
(* the chunk's route, whatever the routes.                                  *)
THEOREM CallbacksAreNotRepeated == Spec => []CallbackAtMostOnce
<1>1. IInv => CallbackAtMostOnce
  BY DEF IInv
<1> QED BY <1>1, Invariant, PTL
=============================================================================
