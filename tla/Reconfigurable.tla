--------------------------- MODULE Reconfigurable ----------------------------
(***************************************************************************)
(* The reconfigurable backend: TopologyManager, its Devices and Links, and *)
(* the chunks, on top of the event queue.                                  *)
(*                                                                         *)
(* TopologyManager::reconfigure starts draining: links that are not busy   *)
(* are counted at once, the others when they become free with nothing to   *)
(* send.  When the count reaches the number of links, every device gets    *)
(* the routes, bandwidths and latencies of the new topology, and every     *)
(* link an event that frees it.  A chunk carries the topology iteration it *)
(* was sent in; chunks of an iteration that is not installed yet wait.     *)
(* Besides, the program may set the reconfiguration latency and the number *)
(* of the current topology at any time, also while the network drains.     *)
(*                                                                         *)
(* All devices are reconfigured in one call, so their topology_iteration   *)
(* and the topology their links and routes come from are one variable      *)
(* each.  The build is the default one (Release): assertions do nothing.   *)
(***************************************************************************)
EXTENDS EventOrder, Sequences, FiniteSets

CONSTANTS devices_count,  \* devices are 0 .. devices_count - 1
          npus_count,     \* the first of them are NPUs
          Chunk,          \* the chunks the program may send
          TopoId,         \* the topologies the program may ask for
          Bandwidth,      \* Bandwidth[id][l]: bytes per ns, 0 for no circuit
          Latency,        \* Latency[id][l]: in ns
          Routes,         \* Routes[id][l]: what precomputeRoutes stores
          Size,           \* the size of each chunk, in bytes
          ReconfigTimes,  \* the reconfiguration latencies it sets, in ns
          UninitializedTime, \* what reconfig_time may be before it is set
          UndefinedDelay, \* outcomes of converting an infinite delay
          SetIds,         \* the numbers it gives set_cur_topo_id
          Stamped,        \* the chunks it may give an iteration itself
          LastCall,       \* bound on the time of the program's calls
          MaxIteration,   \* bound on the number of reconfigurations
          MaxSettings     \* bound on the number of calls of the two setters

Device == 0..(devices_count - 1)
NPU == 0..(npus_count - 1)
Link == {l \in Device \X Device : l[1] # l[2]}
NoTopo == "no topology"     \* cur_topo_id is -1; the bandwidths are the zeros
                            \* of the constructor

\* What the assertions ask of the matrices, and what precomputeRoutes makes of
\* them (module PrecomputeRoutes).
ASSUME MatricesAssumption ==
  /\ devices_count \in Nat /\ devices_count >= 2
  /\ npus_count \in 1..devices_count
  /\ NoTopo \notin TopoId
  /\ Bandwidth \in [TopoId -> [Link -> Nat]]
  /\ Latency \in [TopoId -> [Link -> Nat]]
  /\ Size \in [Chunk -> Nat \ {0}]
  /\ ReconfigTimes \subseteq Nat
  /\ SetIds \subseteq TopoId \cup {NoTopo}
  /\ Stamped \subseteq Chunk
  /\ UninitializedTime \in (SUBSET Nat) \ {{}}
  /\ UndefinedDelay \in (SUBSET Nat) \ {{}}
  /\ LastCall \in Nat /\ MaxIteration \in Nat /\ MaxSettings \in Nat

ASSUME RoutesAssumption ==
  \A id \in TopoId, l \in Link :
    LET r == Routes[id][l]
    IN  /\ r \in Seq(Device) /\ Len(r) >= 2
        /\ r[1] = l[1] /\ r[Len(r)] = l[2]
        /\ \A i \in 1..(Len(r) - 1) : <<r[i], r[i + 1]>> \in Link

VARIABLES now, waiting, issued,   \* the event queue
          topology_iteration,     \* TopologyManager
          cur_topo_id,
          requested,              \* bandwidths, latencies and reconfig_time; the
                                  \* bandwidths by the name of their topology,
                                  \* which the routes go with
          reconfiguring,
          num_drained_links,
          device_iteration,       \* Device: topology_iteration of every device
          installed,              \* the bandwidths (and routes) and latencies
                                  \* its links have
          pending_chunks,
          busy,                   \* Link
          route,                  \* Chunk: <<>> when it has not been sent
          chunk_iteration,
          invoked,                \* how often its callback was invoked
          settings,               \* history: calls of the setters so far
          dest,                   \* history: where the program sent it
          serving_until           \* history: the end of the last transmission
                                  \* started on a link

clock == <<now, waiting, issued>>
manager == <<settings, topology_iteration, cur_topo_id, requested, reconfiguring,
             num_drained_links, device_iteration, installed>>
network == <<pending_chunks, busy, serving_until>>
chunks == <<route, chunk_iteration, invoked, dest>>
vars == <<now, waiting, issued, topology_iteration, cur_topo_id, requested,
          reconfiguring, num_drained_links, device_iteration, installed, pending_chunks, busy,
          route, chunk_iteration, invoked, dest, serving_until, settings>>

Arrival(c) == [handler |-> "chunk_arrived_next_device", arg |-> c]
Free(l) == [handler |-> "link_become_free", arg |-> l]
Event == {Arrival(c) : c \in Chunk} \cup {Free(l) : l \in Link}
Entry == [id : Nat, time : Nat, event : Event]
links_count == devices_count * (devices_count - 1)

Zeros == [l \in Link |-> 0]

TypeOK ==
  /\ now \in Nat
  /\ waiting \in SUBSET Entry
  /\ issued \in Nat
  /\ topology_iteration \in Nat
  /\ cur_topo_id \in TopoId \cup {NoTopo}
  /\ requested \in [bandwidths : TopoId \cup {NoTopo}, latencies : [Link -> Nat],
                    reconfig_time : Nat]
  /\ reconfiguring \in BOOLEAN
  /\ num_drained_links \in 0..(links_count - 1)
  /\ device_iteration \in Nat
  /\ installed \in [bandwidths : TopoId \cup {NoTopo}, latencies : [Link -> Nat]]
  /\ pending_chunks \in [Link -> Seq(Chunk)]
  /\ busy \in [Link -> BOOLEAN]
  /\ route \in [Chunk -> Seq(Device)]
  /\ chunk_iteration \in [Chunk -> Nat]
  /\ invoked \in [Chunk -> Nat]
  /\ dest \in [Chunk -> Device]
  /\ serving_until \in [Link -> Nat]
  /\ settings \in 0..MaxSettings

Init ==
  /\ now = 0 /\ waiting = {} /\ issued = 0
  /\ topology_iteration = 0 /\ device_iteration = 0
  /\ cur_topo_id = NoTopo
  /\ \E t \in UninitializedTime :
       requested = [bandwidths |-> NoTopo, latencies |-> Zeros, reconfig_time |-> t]
  /\ installed = [bandwidths |-> NoTopo, latencies |-> Zeros]
  /\ reconfiguring = FALSE /\ num_drained_links = 0
  /\ pending_chunks = [l \in Link |-> <<>>]
  /\ busy = [l \in Link |-> FALSE]
  /\ route = [c \in Chunk |-> <<>>]
  /\ chunk_iteration = [c \in Chunk |-> 0]
  /\ invoked = [c \in Chunk |-> 0]
  /\ dest = [c \in Chunk |-> 0]
  /\ serving_until = [l \in Link |-> 0]
  /\ settings = 0
-----------------------------------------------------------------------------
(* Link *)

\* The entry of the bandwidths that have the name id.
BandwidthOf(id, l) == IF id = NoTopo THEN 0 ELSE Bandwidth[id][l]

\* Links are made with bandwidth 0 and latency 0.
bandwidth(l) == BandwidthOf(installed.bandwidths, l)
latency(l) == installed.latencies[l]

\* The delays in whole ns: the values the conversion of size / bandwidth to an
\* EventTime can take.  Without bandwidth the quotient is infinite, and what its
\* conversion gives is undefined.
serialization_delay(l, c) ==
  IF bandwidth(l) = 0 THEN UndefinedDelay ELSE {Size[c] \div bandwidth(l)}
communication_delay(l, c) ==
  IF bandwidth(l) = 0 THEN UndefinedDelay ELSE {latency(l) + Size[c] \div bandwidth(l)}

\* Link::send at time t, and the event its Device schedules for the time at
\* which it becomes free; w are the entries of the queue.
Transmit(l, c, t, w) ==
  \E arrive \in communication_delay(l, c), free \in serialization_delay(l, c) :
    /\ busy' = [busy EXCEPT ![l] = TRUE]
    /\ waiting' = w \cup
         {[id |-> issued + 1, time |-> t + arrive, event |-> Arrival(c)],
          [id |-> issued + 2, time |-> t + free, event |-> Free(l)]}
    /\ issued' = issued + 2
    /\ serving_until' = [serving_until EXCEPT ![l] = t + free]

-----------------------------------------------------------------------------
(* Device *)

NextLink(r) == <<r[1], r[2]>>

\* Device::send of a chunk c that has the route r and the iteration it: the
\* route is replaced by the device's own route to the next device of r.
DeviceSend(c, r, it, t, w) ==
  LET own == Routes[installed.bandwidths][NextLink(r)]
      l == NextLink(own)
  IN  /\ route' = [route EXCEPT ![c] = own]
      /\ IF busy[l] \/ bandwidth(l) = 0 \/ it > device_iteration
         THEN /\ pending_chunks' = [pending_chunks EXCEPT ![l] = Append(@, c)]
              /\ waiting' = w
              /\ UNCHANGED <<busy, issued, serving_until>>
         ELSE /\ Transmit(l, c, t, w)
              /\ UNCHANGED pending_chunks

\* The order in which the devices and their links are reconfigured.
Rank(l) ==
  l[1] * (devices_count - 1) + (IF l[2] < l[1] THEN l[2] + 1 ELSE l[2])

\* q are the matrices a reconfiguration installs, and the time it takes.
Changes(q, l) ==
  BandwidthOf(q.bandwidths, l) # bandwidth(l) \/ q.latencies[l] # latency(l)

\* The events that free the links after a reconfiguration at time t: a link that
\* does not change is freed 1 ns later, although it was not made busy.
FreeEvent(q, l, t) ==
  [id |-> issued + Rank(l),
   time |-> t + (IF Changes(q, l) THEN q.reconfig_time ELSE 1),
   event |-> Free(l)]

\* Mutant: the links that do not change get no event.
FreeChangedOnly(q, t) == {FreeEvent(q, l, t) : l \in {m \in Link : Changes(q, m)}}

\* Mutant: the links that change get no event.
FreeUnchangedOnly(q, t) == {FreeEvent(q, l, t) : l \in {m \in Link : ~Changes(q, m)}}

FreeEvents(q, t) == {FreeEvent(q, l, t) : l \in Link}

\* Device::reconfigure of every device, with Link::reconfigure of every link; b
\* is what the links' busy flags are at that time.
ReconfigureDevices(q, t, w, b) ==
  /\ device_iteration' = device_iteration + 1
  /\ installed' = [bandwidths |-> q.bandwidths, latencies |-> q.latencies]
  /\ busy' = [l \in Link |-> b[l] \/ Changes(q, l)]
  /\ waiting' = w \cup FreeEvents(q, t)
  /\ issued' = issued + links_count

-----------------------------------------------------------------------------
(* TopologyManager *)

\* Mutant: the test is <= for <, one more link is waited for.
AllDrainedLate(drained) == drained > links_count

\* The number of drained links ends the drain.
AllDrained(drained) == drained >= links_count

\* Mutant: the end of the drain leaves reconfiguring set.
CallbackLeavesReconfiguring(t, w, b) ==
  /\ UNCHANGED reconfiguring
  /\ IF reconfiguring /\ AllDrained(num_drained_links + 1)
     THEN num_drained_links' = 0 /\ ReconfigureDevices(requested, t, w, b)
     ELSE /\ num_drained_links' = IF reconfiguring THEN num_drained_links + 1 ELSE 0
          /\ busy' = b
          /\ waiting' = w
          /\ UNCHANGED <<issued, device_iteration, installed>>

\* increment_callback: one more link is drained.
IncrementCallback(t, w, b) ==
  \/ /\ reconfiguring
     /\ AllDrained(num_drained_links + 1)
     /\ num_drained_links' = 0
     /\ reconfiguring' = FALSE
     /\ ReconfigureDevices(requested, t, w, b)
  \/ /\ reconfiguring
     /\ ~AllDrained(num_drained_links + 1)
     /\ num_drained_links' = num_drained_links + 1
     /\ busy' = b
     /\ waiting' = w
     /\ UNCHANGED <<issued, reconfiguring, device_iteration, installed>>
  \/ /\ ~reconfiguring
     /\ num_drained_links' = 0
     /\ busy' = b
     /\ waiting' = w
     /\ UNCHANGED <<issued, reconfiguring, device_iteration, installed>>

\* Mutant: the links that are not busy are not counted.
NoneIdle(b) == 0

IdleLinks(b) == Cardinality({l \in Link : ~b[l]})

\* drain_network: every link that is not busy calls increment_callback.
DrainNetwork(q, t) ==
  LET idle == IdleLinks(busy)
  IN  IF AllDrained(idle)
      THEN /\ num_drained_links' = 0
           /\ reconfiguring' = FALSE
           /\ ReconfigureDevices(q, t, waiting, busy)
      ELSE /\ num_drained_links' = idle
           /\ reconfiguring' = TRUE
           /\ UNCHANGED <<waiting, issued, busy, device_iteration, installed>>

\* The program's own code runs at time t, no event before t being left.
CallAt(t) ==
  /\ t >= now
  /\ \A e \in waiting : t <= e.time
  /\ now' = t

\* A request of the topology id with the matrices and the time q.  One for the
\* current topology is ignored, and one during a drain, or while a collective is
\* in flight, is refused: neither changes anything.
Request(id, q, t) ==
  /\ topology_iteration < MaxIteration
  /\ id # cur_topo_id
  /\ ~reconfiguring
  /\ CallAt(t)
  /\ cur_topo_id' = id
  /\ requested' = q
  /\ topology_iteration' = topology_iteration + 1
  /\ DrainNetwork(q, t)
  /\ UNCHANGED <<pending_chunks, serving_until, settings, chunks>>

\* reconfigure(bandwidths, latencies, reconfig_time, topo_id)
Reconfigure(id, rt, t) ==
  Request(id, [bandwidths |-> id, latencies |-> Latency[id], reconfig_time |-> rt], t)

\* reconfigure(topo_id): the bandwidths of circuit_schedules, with the latencies
\* and the reconfiguration latency the manager has.
ReconfigureById(id, t) == Request(id, [requested EXCEPT !.bandwidths = id], t)

\* set_reconfig_latency
SetReconfigLatency(rt, t) ==
  /\ settings < MaxSettings
  /\ settings' = settings + 1
  /\ CallAt(t)
  /\ requested' = [requested EXCEPT !.reconfig_time = rt]
  /\ UNCHANGED <<waiting, issued, topology_iteration, cur_topo_id, reconfiguring,
                 num_drained_links, device_iteration, installed, network, chunks>>

\* set_cur_topo_id
SetCurTopoId(id, t) ==
  /\ settings < MaxSettings
  /\ settings' = settings + 1
  /\ CallAt(t)
  /\ cur_topo_id' = id
  /\ UNCHANGED <<waiting, issued, topology_iteration, requested, reconfiguring,
                 num_drained_links, device_iteration, installed, network, chunks>>

\* route and send of a new chunk, which gets the current iteration unless the
\* program gave it the iteration 0, as example.cpp does.  Before the first
\* reconfiguration the devices have no routes to send by.
Send(c, src, d, it, t) ==
  /\ route[c] = <<>>
  /\ installed.bandwidths # NoTopo
  /\ src # d
  /\ it = topology_iteration \/ (it = 0 /\ c \in Stamped)
  /\ CallAt(t)
  /\ chunk_iteration' = [chunk_iteration EXCEPT ![c] = it]
  /\ dest' = [dest EXCEPT ![c] = d]
  /\ DeviceSend(c, <<src, d>>, it, t, waiting)
  /\ UNCHANGED <<manager, invoked>>

-----------------------------------------------------------------------------
(* The handlers of the two events. *)

\* Mutant: the callback is invoked one hop before the destination.
CallbackOneHopEarly(e, c) ==
  /\ e.event = Arrival(c)
  /\ IsNext(e, waiting)
  /\ now' = e.time
  /\ IF Len(route[c]) <= 3
     THEN /\ route' = [route EXCEPT ![c] = Tail(@)]
          /\ invoked' = [invoked EXCEPT ![c] = @ + 1]
          /\ waiting' = waiting \ {e}
          /\ UNCHANGED <<issued, network>>
     ELSE /\ DeviceSend(c, Tail(route[c]), chunk_iteration[c], e.time, waiting \ {e})
          /\ UNCHANGED invoked
  /\ UNCHANGED <<manager, chunk_iteration, dest>>

\* Chunk::chunk_arrived_next_device
ChunkArrivedNextDevice(e, c) ==
  /\ e.event = Arrival(c)
  /\ IsNext(e, waiting)
  /\ now' = e.time
  /\ IF Len(route[c]) = 2
     THEN /\ route' = [route EXCEPT ![c] = Tail(@)]
          /\ invoked' = [invoked EXCEPT ![c] = @ + 1]
          /\ waiting' = waiting \ {e}
          /\ UNCHANGED <<issued, network>>
     ELSE /\ DeviceSend(c, Tail(route[c]), chunk_iteration[c], e.time, waiting \ {e})
          /\ UNCHANGED invoked
  /\ UNCHANGED <<manager, chunk_iteration, dest>>

\* Mutant: the iteration of the chunk is not looked at.
NothingPending(l) == pending_chunks[l] = <<>>

\* A link that became free has nothing to send: no chunk is pending, or the
\* first one is of an iteration that is not installed yet.
NothingToSend(l) ==
  \/ pending_chunks[l] = <<>>
  \/ chunk_iteration[Head(pending_chunks[l])] > device_iteration

\* Mutant: the chunk that is transmitted stays pending.
LinkBecomeFreeWithoutPop(e, l) ==
  /\ e.event = Free(l)
  /\ IsNext(e, waiting)
  /\ now' = e.time
  /\ IF NothingToSend(l)
     THEN IncrementCallback(e.time, waiting \ {e}, [busy EXCEPT ![l] = FALSE]) /\ UNCHANGED serving_until
     ELSE /\ Transmit(l, Head(pending_chunks[l]), e.time, waiting \ {e})
          /\ UNCHANGED <<reconfiguring, num_drained_links, device_iteration, installed>>
  /\ UNCHANGED <<topology_iteration, cur_topo_id, requested, settings, pending_chunks, chunks>>

\* Device::link_become_free
LinkBecomeFree(e, l) ==
  /\ e.event = Free(l)
  /\ IsNext(e, waiting)
  /\ now' = e.time
  /\ IF NothingToSend(l)
     THEN /\ IncrementCallback(e.time, waiting \ {e}, [busy EXCEPT ![l] = FALSE])
          /\ UNCHANGED <<pending_chunks, serving_until>>
     ELSE /\ pending_chunks' = [pending_chunks EXCEPT ![l] = Tail(@)]
          /\ Transmit(l, Head(pending_chunks[l]), e.time, waiting \ {e})
          /\ UNCHANGED <<reconfiguring, num_drained_links, device_iteration, installed>>
  /\ UNCHANGED <<topology_iteration, cur_topo_id, requested, settings, chunks>>

Handle(e) == \/ /\ e.event.handler = "chunk_arrived_next_device"
                /\ ChunkArrivedNextDevice(e, e.event.arg)
             \/ /\ e.event.handler = "link_become_free"
                /\ LinkBecomeFree(e, e.event.arg)

RunNextEvent == \E e \in waiting : Handle(e)

\* The calls of the program.
Call(t) == \/ \E id \in TopoId, rt \in ReconfigTimes : Reconfigure(id, rt, t)
           \/ \E id \in TopoId : ReconfigureById(id, t)
           \/ \E rt \in ReconfigTimes : SetReconfigLatency(rt, t)
           \/ \E id \in SetIds : SetCurTopoId(id, t)
           \/ \E c \in Chunk, src, d \in NPU, it \in {0, topology_iteration} :
                Send(c, src, d, it, t)

Next == \/ \E t \in 0..LastCall : Call(t)
        \/ RunNextEvent

\* The main loop calls proceed() while the queue is not finished.
Spec == Init /\ [][Next]_vars /\ WF_vars(RunNextEvent)

-----------------------------------------------------------------------------
Sent(c) == route[c] # <<>>
EntriesFor(ev) == {e \in waiting : e.event = ev}
InFlight(c) == EntriesFor(Arrival(c)) # {}
IsPending(c, l) == \E i \in 1..Len(pending_chunks[l]) : pending_chunks[l][i] = c
UnderWay(c) == Sent(c) /\ invoked[c] = 0

\* A chunk has at most one arrival event, and one place in one pending list.
OneArrival == \A c \in Chunk : \A e, f \in EntriesFor(Arrival(c)) : e = f
OnePendingPlace ==
  \A l, m \in Link :
     \A i \in 1..Len(pending_chunks[l]), j \in 1..Len(pending_chunks[m]) :
        pending_chunks[l][i] = pending_chunks[m][j] => l = m /\ i = j
NotInBoth == \A c \in Chunk, l \in Link : ~(InFlight(c) /\ IsPending(c, l))
\* It waits for the first link of its route.
PendingForItsRoute ==
  \A c \in Chunk, l \in Link : IsPending(c, l) => l = NextLink(route[c])
\* It is somewhere from the moment it is sent until its callback is invoked.
SomewhereWhileUnderWay ==
  \A c \in Chunk : (InFlight(c) \/ \E l \in Link : IsPending(c, l)) <=> UnderWay(c)

\* A chunk under way is in exactly one place, in an arrival event or in the
\* pending list of the first link of its route, and a chunk that is not under
\* way is nowhere: none is lost or duplicated across reconfigurations, whatever
\* becomes of the routes and links it was waiting for (Device.cpp:112-134, 64-75).
OnePlacePerChunk ==
  /\ OneArrival
  /\ OnePendingPlace
  /\ NotInBoth
  /\ PendingForItsRoute
  /\ SomewhereWhileUnderWay

\* A busy link has an event coming that frees it, whether it is transmitting or
\* being reconfigured, or was made free too early (Device.cpp:67-75, 171-176).
BusyWillBeFreed == \A l \in Link : busy[l] => EntriesFor(Free(l)) # {}

\* No chunk is transmitted before the iteration it was sent in is installed
\* (the two tests of Device.cpp:52 and 123).
NothingSentAhead ==
  \A c \in Chunk : InFlight(c) => chunk_iteration[c] <= device_iteration

\* The drain cannot get stuck: what has been counted and the links that have an
\* event coming, after which they are counted, are together as many as there
\* are links, so that the count is reached.  They may be more: a link can be
\* counted twice, see ReconfiguredLinksAreFree (TopologyManager.cpp:53-86).
EveryLinkIsCounted ==
  reconfiguring =>
    num_drained_links + Cardinality({l \in Link : EntriesFor(Free(l)) # {}}) >= links_count

\* A chunk that waits for a link is looked at again: an event that frees the
\* link is coming, or a reconfiguration that will schedule one, or there is no
\* circuit and it takes a new reconfiguration (Device.cpp:52-59, 123-128).
PendingIsLookedAtAgain ==
  \A l \in Link : pending_chunks[l] # <<>> =>
     \/ EntriesFor(Free(l)) # {}
     \/ reconfiguring
     \/ bandwidth(l) = 0

\* The manager is one iteration ahead of the devices exactly while it drains,
\* and otherwise they have its matrices, whatever the program set in between.  A
\* chunk of an iteration to come, which keeps those behind it waiting whatever
\* theirs is, waits in no list unless the drain that installs it is under way
\* (TopologyManager.cpp:74-110, 154-164, Device.cpp:52 and 123).
DevicesFollowManager ==
  /\ topology_iteration = device_iteration + (IF reconfiguring THEN 1 ELSE 0)
  /\ ~reconfiguring => /\ installed.bandwidths = requested.bandwidths
                       /\ installed.latencies = requested.latencies
  /\ \A c \in Chunk, l \in Link :
        IsPending(c, l) /\ chunk_iteration[c] > device_iteration => reconfiguring

\* If no route has more than two hops, every chunk ends where the program sent
\* it, although each device on the way replaces its route and the topology may
\* change under it: what is left of a route always ends at the destination, and
\* that is all that is left when the callback is invoked.  With longer routes it
\* does not, see CallbackAtDestination below (Device.cpp:112, Chunk.cpp:15-35).
ShortRoutes == \A id \in TopoId, l \in Link : Len(Routes[id][l]) <= 3
ShortRoutesEndAtDestination ==
  ShortRoutes =>
    \A c \in Chunk : Sent(c) => /\ route[c][Len(route[c])] = dest[c]
                                /\ invoked[c] > 0 => Len(route[c]) = 1

\* Every drain ends: chunks that keep arriving and being sent on do not keep a
\* reconfiguration waiting for ever.
DrainEnds == reconfiguring ~> ~reconfiguring

\* The callback of every chunk that is sent is invoked, if the topologies connect
\* all devices: while chunks are under way, there comes a time when none is any
\* more, across drains and with chunks that wait behind those of an iteration to
\* come (Device.cpp:52-75, 123-134).
EveryChunkEnds == (\E c \in Chunk : UnderWay(c)) ~> (\A c \in Chunk : ~UnderWay(c))

-----------------------------------------------------------------------------
(* What the sources say, and the program does not do. *)

\* Chunk.h:24: the final callback is invoked if the chunk arrived at its
\* destination.
CallbackAtDestination ==
  \A c \in Chunk : invoked[c] > 0 => route[c] = <<dest[c]>>

\* Link.cpp:130, assert(!busy): a link that changes is not busy.  It is when the
\* drain counts another link twice, as idle and at an event that was still to
\* free it, or counts a link over which a chunk is sent on afterwards.
ReconfiguredLinksAreFree ==
  [][installed' # installed =>
       \A l \in Link : Changes(installed', l) =>
          ~busy[l] \/ \E e \in waiting : IsNext(e, waiting) /\ e.event = Free(l)]_vars

\* Link.h:132-133: a transmission keeps the link busy for its serialization
\* delay, so no other transmission starts on it before.  One does if a
\* reconfiguration left the link as it was: its event frees the link 1 ns later.
OneTransmissionAtATime ==
  [][\A l \in Link : serving_until'[l] # serving_until[l] => serving_until[l] <= now']_vars
=============================================================================
