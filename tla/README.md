# A TLA+ model of the analytical network simulator

The repository is a discrete-event simulator of networks of NPUs, the network
backend of ASTRA-sim. It has three backends on one event queue:

- **congestion aware** (`src/congestion_aware`): chunks occupy links, links carry
  one chunk at a time, later chunks wait;
- **congestion unaware** (`src/congestion_unaware`): the delay of a message is a
  formula of its hops and its size;
- **reconfigurable** (`src/reconfigurable`): a full mesh of links, all of bandwidth 0
  at first, whose bandwidths and latencies are changed at run time, after the network
  has been drained.

The program is sequential. What makes it hard is that everything after the first
`send` happens in callbacks of the event queue: the order of events, the state
a handler finds when it runs, and what it schedules meanwhile. This directory
holds a model of it, the configurations that check the model with TLC, and proofs
that TLAPS checks.

## The parts of the system

| Part | State | Operations | What makes it correct |
|---|---|---|---|
| `EventQueue`, `EventList`, `Event` (`common/event-queue`) | the clock, a list of lists of events | `schedule_event`, `proceed`, `finished` | events run by time, FIFO at equal times; the clock never goes back; every event runs |
| congestion aware `Link` | `busy`, `pending_chunks` | `send`, `link_become_free` | a busy link is freed exactly once; nobody waits for a free link |
| congestion aware `Device`, `Chunk` | links; the rest of the route, the callback | `send`, `chunk_arrived_next_device` | a chunk is in one place until its callback is invoked, once, at its destination |
| congestion aware `Ring`, `FullyConnected`, `Switch` | the connections | the constructors, `route` | routes lead over links that exist, and are shortest |
| congestion unaware `Ring`, `FullyConnected`, `Switch` | none that changes | `compute_hops_count`, `send` | hops agree with the other backend |
| `MultiDimTopology` | the dimensions | `append_dimension`, `send` | addresses are in range and determine the NPU |
| `TopologyManager` | requested matrices, routes, `reconfiguring`, the iteration, the count of drained links | `reconfigure` (with matrices, or by number), `set_reconfig_latency`, `set_cur_topo_id`, `increment_callback`, `precomputeRoutes`, `send` | routes are shortest; every drain ends; devices are reconfigured when they are drained |
| reconfigurable `Topology` | the mesh of links | the constructor, `route`, `send` | every device has one link to every device |
| reconfigurable `Device`, `Link`, `Chunk` | routes, `pending_chunks`, the iteration; `busy`, bandwidth, latency; route and iteration of the chunk | `send`, `link_become_free`, `reconfigure`, `chunk_arrived_next_device` | no chunk lost over a reconfiguration, none sent ahead of its iteration |
| `NetworkParser` | the parsed values | the constructor | what it accepts is what the constructors assume |

They interact by calls and by callbacks. `Topology::send` calls `Device::send`, which
calls `Link::send`, which registers two events: the arrival of the chunk and the
link becoming free. The handler of an arrival calls `Device::send` of the next
device; the handler of a free link starts the next pending chunk. In the reconfigurable
backend a link that becomes free with nothing to send calls `increment_callback` of the
`TopologyManager`, and the call that completes the count reconfigures all devices,
inside the handler of the last link. The user's callbacks call `send` and
`reconfigure` again.

There are no threads, nothing is persisted, and no message is lost: the hard behaviour is
the order of events, especially at equal times, state that is stale when an event finds it
(a free event after a reconfiguration, a route of an older topology), counters that are
reached too early or never, and liveness. `hazards` of `PROJECT.json` lists the places.

## The modules

| Module | Models | Notes |
|---|---|---|
| `EventOrder` | which of two scheduled events must run first | used by every module with events |
| `Calendar` | the abstract specification of the event queue: a set of entries, the least one runs | |
| `EventQueue` | `EventQueue.cpp`, `EventList.cpp` | one action per `schedule_event`, start of `proceed`, and turn of the loop of `invoke_events`, so that callbacks schedule while their own list runs |
| `EventQueueProofs` | | theorems about `EventQueue` |
| `CongestionAware` | `Link`, `Device`, `Chunk` of the congestion aware backend | one action per handler; the queue is the calendar, one handler per step |
| `MCCongestionAware` | | instances for TLC, on links and routes of `Topologies` |
| `CongestionAwareProofs` | | theorems about `CongestionAware` |
| `ProofLemmas` | | induction over a set of numbers, loops as recursive functions, division, lists of pending chunks, paths and levels: what several proofs need |
| `Delivery` | the abstract specification of the congestion aware network, what it promises the program that sends: chunks go hop by hop, no hop faster than its link, the callback at the end, every chunk arrives | nothing of busy links, lists or events |
| `LinkHistory` | `CongestionAware` with a record of what the links did | every action is the network's and an addition to the record; implements `Delivery` |
| `MCLinkHistory` | | a switch with three NPUs |
| `LinkHistoryProofs` | | theorems about `LinkHistory`, on top of those about `CongestionAware` |
| `Topologies` | the `connect` calls, routes and hop counts of the shapes | pure operators; each loop of the code is a recursive function, one value per turn |
| `Paths` | paths and distances, the reference the algorithms are compared with | no code |
| `BasicTopologies` | `construct_topology` of the congestion aware and the reconfigurable backend, with their exits; construction call by call; then a call of `route` | composes `NetworkParser` and `Topologies` |
| `BasicTopologiesProofs` | | theorems about `BasicTopologies` |
| `NetworkParser` | which configurations the parser accepts | pure operators |
| `CongestionUnaware` | the parser, `construct_topology`, `MultiDimTopology` and `BasicTopology` of the congestion unaware backend | one step per appended dimension and per turn of the loop of `translate_address` |
| `MCCongestionUnaware` | | refused files and networks of up to three dimensions |
| `CongestionUnawareProofs` | | theorems about `CongestionUnaware` |
| `PrecomputeRoutes` | `TopologyManager::precomputeRoutes` | one step per turn of the search's loop, and one for storing the routes of a source |
| `MCPrecomputeRoutes` | | all graphs over the devices |
| `PrecomputeRoutesProofs` | | theorems about `PrecomputeRoutes` |
| `Reconfigurable` | `TopologyManager`, `Device`, `Link`, `Chunk` of the reconfigurable backend | one action per handler and per call of the program |
| `MCReconfigurable` | | a line (0, 2, .., 1) and a one-way cycle as topologies |
| `ReconfigurableProofs` | | theorems about `Reconfigurable` |

How the state corresponds:

- *Events.* In `EventQueue` an event is the number of the `schedule_event` call that
  made it. `event_queue` is the list of lists, `current_list` the copy that `proceed`
  took out; its head is the event whose callback is running. In the network modules
  `waiting` is the set of entries `[id, time, event]`; `IsNext` picks the one that runs. That
  the queue of lists behaves like this set is `ImplementsCalendar`. The network
  modules take a handler and the start of its event in one step: `Dispatch` of
  `Calendar`, the `Schedule` steps of that handler, and `Rest`.
- *Chunks.* A chunk is a value; its object's state is `route[c]`, which loses its head
  at each arrival. `unique_ptr` ownership is not a variable: that a chunk has one owner is
  the property `OnePlacePerChunk`.
- *Calls of the program* (`Send`, `Reconfigure`, `ReconfigureById`, `SetReconfigLatency`,
  `SetCurTopoId`) happen at any time at which no earlier
  event waits. That covers calls before the main loop, between two `proceed`s and from
  the user's callbacks, which are the last thing a handler does.
- *Delays* are computed in double precision and cut to whole ns. The models
  take integer bandwidths in bytes per ns; in `CongestionAware` latencies may be fractions
  of a ns (`Resolution` ticks to one).
- *The record of `LinkHistory`.* `offered` gets a chunk when `Link::send` is called with it,
  `started` gets a transmission for each arrival event the step schedules, `reached` gets a
  chunk when its arrival runs, and `since` is when a chunk got to where it is. No action reads
  them. `since` and the network's own `now`, `route` and `invoked` are the state of `Delivery`.
- *`CongestionUnaware`.* `send` is `const`, so the model explores one call in every network.
  Its local variables are the model's (`dim`, `leftover`, `denominator`, `address`, the last
  one being the result for `dest` once `src_address` is set); dimensions count from 1.
  `strides` is history. The assertions of `BasicTopology` are not guards, except that
  a network of one dimension is not asked for a message of an NPU to itself.
- *`Reconfigurable`.* All devices are reconfigured in one call, so their iteration is one
  variable, and bandwidths, latencies and routes are those of `installed`. `requested` is what
  the manager holds: the matrices and `reconfig_time`, which a request with matrices sets, a
  request by number takes as it finds them (latencies still zero, and `reconfig_time`
  uninitialized, if nothing set them: any value of `UninitializedTime`), and
  `set_reconfig_latency` changes at any time, also for the reconfiguration that a drain is about
  to end. A request for the current topology, during a drain, or while `inflight_coll` is not
  zero changes nothing and is a stuttering step; so `inflight_coll`, which only code around the
  library changes, is no variable. A chunk gets the manager's iteration, or 0 if the
  program constructed it so (`Stamped`, as `example.cpp` does). `Rank` is the order of the two
  loops, which gives the events their identities. `dest`, `serving_until` and `settings` are
  history; only the bound on the setters reads one of them (`settings`). The default build is Release,
  assertions are absent, and the model goes on where one would fail.
- *Undefined behaviour.* `link_become_free` does not test the bandwidth, so a chunk
  pending on a link without a circuit is transmitted with an infinite delay; the conversion of
  that delay to an integer is any value of `UndefinedDelay`.

## What the runs check

Passing runs:

| Run | Question | Bounds, and why they are enough |
|---|---|---|
| `EventQueue` | shape of the queue, refinement of `Calendar`, clock, liveness | 5 events at times 0..3. Insertion in an empty queue, before, between, after and into lists, and at the current time, all occur, and three events can share a time |
| `CongestionAware_Ring` | frees, wakeups, conservation of chunks, delivery | 3 chunks, a one-way ring of 3 devices, sizes 1, 2 and 4 at 2 bytes per ns: a chunk that frees its link at once, one that exactly fits and a longer one. Two-hop routes share links, so chunks meet at links as new and as forwarded ones |
| `LinkHistory_Switch` | links serve in order, without gap or overlap; overtaking by rounding is 1 ns at most and impossible with whole latencies; the network implements `Delivery` | 3 chunks over a switch of 3 NPUs, each between any two NPUs. Links to the switch carry 4 bytes per ns and have a latency of half a ns, those from it carry 2 and have 1 ns, so chunks queue at the NPU and at the switch; sizes 1, 2 and 4. A chunk of 2 bytes (0.5 + 0.5 ns, cut to 1) sent just before one of 1 byte (0.5 + 0.25, cut to 0) is overtaken by it: the first frees its link at once |
| `BasicTopologies` | routes exist, are shortest, and agree with hop counts; the mesh has each link once | 2..7 NPUs: odd and even rings, every pair. Rings of 2 to 7 have every case of wrap, direction and tie. All files of up to two dimensions with counts of 1 to 7, unknown names among them |
| `CongestionUnaware` | what the parser accepts satisfies the constructors; the loop of `translate_address` is exact at each turn; addresses determine NPUs; the dimension charged, its hops and rounding | 12 files that the parser or the backend refuses, or that have no dimension; all shapes of one and two dimensions with 2 and 3 NPUs each; three dimensions with up to 30 NPUs. All pairs of NPUs. Sizes differ per dimension, so a stride or a coordinate of the wrong dimension shows; latencies are in half ns, so delays are cut |
| `PrecomputeRoutes` | the search is exact at each step, routes are shortest, it ends | all 4096 directed graphs on 4 devices: unreachable devices, cycles, several shortest paths |
| `Reconfigurable` | conservation, drain, iterations, destinations, liveness | 3 devices of which 2 are NPUs, 2 chunks, 2 reconfigurations between a line and a cycle, one call of a setter: links gain a circuit, lose it, or stay as they are; chunks are forwarded by the third device during a drain, and wait over a reconfiguration. `SetCurTopoId` forgets the topology, so that the installed one can be asked for again and no link changes. A second request in a row is ignored or refused, a second `set_reconfig_latency` sets the same |

The bounds on times of calls (`LastSend`, `LastCall`), on the number of events (`MaxEvents`,
`Horizon`) of reconfigurations (`MaxIteration`) and of calls of the setters (`MaxSettings`) are guards of the program's calls only; no
handler is bounded. Deadlock is not checked: the simulation stops when the
queue is empty, and what must hold then is stated by `NothingStranded` and by the liveness
properties.

Runs that show a disagreement between the code and what it says of itself:

| Run | What the sources say | What happens |
|---|---|---|
| `EventQueue_SameTime` | `proceed` invokes all events registered at the time it moves to (`EventQueue.h`) | an event that a callback schedules at that time waits for the next `proceed` |
| `BasicTopologies_Twice` | no connection is made twice (`Device.cpp`) | a bidirectional ring of two NPUs does |
| `Reconfigurable_Callback` | the callback is invoked at the destination (`Chunk.h`) | on a path of three hops it is invoked at the second device: each device replaces the route by its own route to the *next* device |
| `Reconfigurable_Drained` | a link is not busy when it is reconfigured (`Link.cpp`) | a link that is not busy but still has a free event of the last reconfiguration coming is counted twice, so the drain ends while another link is transmitting. In longer behaviours a chunk that is sent on over a counted link does the same |
| `Reconfigurable_OneAtATime` | a link is busy for the serialization delay (`Link.h`) | a reconfiguration schedules an event 1 ns later for each link it leaves as it is; it ends a transmission that began meanwhile, and the next chunk starts too early |

The constants of the last two keep other causes out: no chunk is given the iteration 0 by the program
(`Stamped = {}`), and for `Reconfigurable_OneAtATime` a reconfiguration never takes 0 ns
(`UninitializedTime = {2}`). In both runs the link that starts the trouble is one that the reconfiguration
to the line or the cycle did not change.

What still holds in spite of the last three is stated by the properties of the run
`Reconfigurable`: no chunk is lost or duplicated, no link stays busy for ever, every drain
ends and every callback is invoked. `ShortRoutesEndAtDestination` marks where the fault of
`CallbackAtDestination` begins: with topologies of at most two hops between devices, every
chunk still ends where it was sent, through all reconfigurations. `EveryChunkEnds` says that
whenever chunks are under way there comes a time when none is; it needs topologies that connect
all devices, as the line and the cycle do.

### Fairness

All specifications assume only that the main loop goes on: the programs call `proceed()`
while the queue is not finished (`example.cpp`, `simulate.cpp`), and a callback
returns. That is weak fairness of `Proceed` and `PopEvent`, of `RunNextEvent` in the network
modules, of `RunNextEventH` in `LinkHistory`, and of `Next` in `PrecomputeRoutes`, a function that runs by itself. Nothing is
assumed of the program's calls: it may stop sending at any time.

## What is proved

TLAPS proves, for every value of the constants, every invariant that the runs check, the action
property and the refinement of the event queue, and the safety part of the refinement of
`Delivery`. `theorems` of `PROJECT.json` lists the results. Each proof has an
inductive invariant, `Init => IInv` and `IInv /\ [Next]_vars => IInv'` with one lemma or step
per action.

- **`EventQueueProofs`**: type correctness, `QueueWellFormed`, `ClockMovesForward` and that
  the queue implements `Calendar`. `QueueWellFormed` is inductive as it stands, since each
  of its parts needs the others: that times increase makes the position the search finds unique;
  that no list is in the past keeps the clock monotonic; that the list of the current time, made
  while its predecessor runs, holds later events only is what makes the head of the queue the
  least entry of the calendar. `ScheduleEvent` has the assertion that no event is of the past as a
  guard; that the handlers of the congestion aware network schedule nothing in the past is its
  `CalendarOK`. The refinement maps `Proceed` to `Dispatch`, `PopEvent` to
  `Dispatch` of the next event or to `Rest`, and `ScheduleEvent` to `Schedule`.
- **`CongestionAwareProofs`**: type correctness and the safety invariants of the network,
  for every set of links, routes, sizes and delays. The inductive invariant `IInv` is
  their conjunction without `NothingStranded`, with `CalendarOK`: identities of entries are
  unique and not yet handed out, without which a new free event could coincide with an old
  one. `NothingStranded` follows: with no entry waiting, `BusyUntilFreed` says no link is
  busy, `PendingOnlyBehindBusy` that none has a pending chunk, and `OnePlacePerChunk` that a
  chunk which was sent has been delivered.
- **`LinkHistoryProofs`**: `ServedInOrder`, `WorkConserving` and `OvertakesByRounding`, on top of
  the invariant of the network. The record is tied to the state: what was offered to a link is
  what it started, followed by what is pending (hence the order); the last
  start and the free event that is waiting are a serialization delay apart (hence no gap and
  no overlap, and with the lemma that the two delays are cut by one ns at most, no overtaking by
  more); and on a link of whole latency the chunks that cross it are the starts whose arrival has
  not run, their events in the order of the starts. `NetworkKeepsItsPromise` states the safety part of
  `ImplementsDelivery`: a behaviour of the network begins in `Promise!Init` and takes steps of
  `Promise!Next` only.
- **`ReconfigurableProofs`**: type correctness and the invariants of the run, for every number
  of devices, every set of topologies with their routes, and every program. Besides them `IInv` has
  - `CalendarOK`, as above;
  - `TopologyRequested`: what a drain installs has been asked for;
  - `ChunksKeepUp`: no chunk has an iteration that the manager has not reached, so that at the end
    of a drain no chunk is left to a later iteration;
  - `RoutesInstalled`: a chunk is sent only when the devices have routes;
  - `CallbackAtMostOnce`: the callback has run exactly when one device is left of the route, and
    the rest of the route leads over links. `OnePlacePerChunk` rests on it, since
    every device replaces the route by one of its own: without it a chunk could
    be under way again after its callback;
  - `ShortRoutesStayShort`: with topologies of at most two hops, the rest of a route ends where
    the program sent the chunk and never has more than three devices. The length is
    what `ShortRoutesEndAtDestination` lacks to be inductive: after one hop at most one is left,
    so that the device the next one sends to, by a route of its own, is the destination.
  - `PendingIsServed`: where routes lead over circuits only, a pending chunk has an event or
    a reconfiguration coming, without the exception that `PendingIsLookedAtAgain` makes for links
    without a circuit: a device sends by its own route of the topology that is installed, and a link
    that loses its circuit while chunks wait gets an event with the reconfiguration.

  `QueueEmptiesWhenDone` says what is left when the simulation stops: no drain, no busy link, and
  every callback invoked, but for chunks that wait for a circuit their topology does not have. It is
  the safety half of `DrainEnds` and `EveryChunkEnds`.

  The drain is counted with cardinalities: `num_drained_links` and the links with an event coming
  make up all links, or more (a link may be counted twice, see the run
  `Reconfigurable_Drained`), so the count is reached. `Rank`, the order of the
  events that the reconfiguration schedules, is shown to be one-to-one.
- **`CongestionUnawareProofs`**: type correctness, `TranslationIsExact`, `AddressDeterminesNPU`,
  `ExitsOnlyForSameNPU` and `DelayOfFirstDifference`, for every list of configurations and every
  number and size of dimensions. `UInv` adds what one call relies on of another: the number of
  NPUs is the product that `append_dimension` keeps (`NetworkShape`), only an accepted file becomes a
  network (`ConstructionOK`), a message is asked for in a complete network (`RequestOK`), and at
  the head of a turn of `translate_address` the denominator is the stride of the dimensions left
  and the leftover the number modulo it (`LoopOK`). Exactness and uniqueness of addresses
  are then facts about division and remainder.
- **`PrecomputeRoutesProofs`**: type correctness, `SearchIsExact` and `RoutesAreShortest`, for
  every number of devices and every bandwidth matrix. `RInv` is the argument by which
  breadth-first search is right: the parents make a tree of found devices (`TreeOK`), each found
  device is at its distance (`DistancesOK`), the queue is ordered and spans two levels at most
  (`QueueOK`), and a device that has been taken off the queue has only found neighbours
  (`VisitedOK`). Following the parents from a destination gives a path of that length.
- **`BasicTopologiesProofs`**: type correctness, `RoutesAreShortestPaths`, `BackendsAgreeOnHops`
  and `MeshIsComplete`, for every number of NPUs. `BInv` says that the connections are
  those of the calls of `connect` made so far, and that a route is asked for only of a complete
  topology. What the constructors' loops leave is proved by induction over their turns.
  A route is shortest by levels: the devices are numbered, 0 for the source, so
  that no link leads up by more than one (in a two-way ring the smaller of the two
  ways around); a path to level k then has k links, and the route has exactly so many.

A recursive function is, for the provers, a `CHOOSE` of a function that satisfies its equation.
`Iteration` and `CollectExists` of `ProofLemmas` show that there is one, and `SetInduction`, stated with
a set instead of a predicate, gives induction over its argument. That is how the algorithms of the last
two modules, which are loops of the code, are within reach.

The assumptions are those of the modules, and TLC evaluates them in the runs:

| Assumption | It says | Where the code has it |
|---|---|---|
| `BoundsAssumption` (`EventQueue`), `MaxNPUsAssumption` | bounds of the model are natural numbers | |
| `RoutesAssumption`, `DelaysAssumption` (`CongestionAware`) | routes have two devices or more and their hops are links; sizes and bandwidths are positive | assertions of the constructors of `Chunk` and `Link` and of `next_device`; the routes are those of `BasicTopologiesProofs` |
| `UnawareAssumption`, `FilesAssumption` (`CongestionUnaware`) | chunk sizes are positive; a file has a list of values of one type for every key | assertion of `send`; `parse_vector` |
| `CountAssumption` (`PrecomputeRoutes`) | there is a device | the constructor's assertion |
| `MatricesAssumption` (`Reconfigurable`) | two devices or more (with one a drain never ends, see the hazards), matrices of natural numbers, positive sizes, values left to chance are natural numbers | types of the members; assertions of the constructor |
| `RoutesAssumption` (`Reconfigurable`) | a route goes from its source to its destination over links of the mesh | `precomputeRoutes`, `PrecomputeRoutesProofs` |

`RoutesAssumption` of the two networks is not taken from nowhere: that the algorithms produce such routes is
`RoutesAreShortestPaths` and `RoutesAreShortest`. The modules are not joined by a proof, since the
networks take any routes.

Only model-checked: the liveness properties (`EveryEventRuns`, `EveryChunkDelivered`,
`DrainEnds`, `EveryChunkEnds`, `AllRoutesComputed`), and with them the liveness part of `ImplementsDelivery`;
TLAPS does not reason about fairness or `ENABLED`. The five runs that show a disagreement are
counterexamples of TLC's.

## Not modelled

- The value of the parser's `reconfig_time`, uninitialized when the file has none: the one
  caller of its getter does not use it. YAML itself is a library's.
- `get_basic_topology_type`, a getter nothing calls. (The constructors of `Ring` and `Switch` of
  the congestion aware backend never set what it returns; `BasicTopology.cpp:41` asserts it.)
- `NetworkFunction.cpp`, a unit conversion in floating point.
- `example.cpp`, `AllReduce.cpp` and `simulate.cpp`: callers of the library. Their main loop
  is the fairness above, their calls are among those of the program in the models. Those of the
  reconfigurable backend call a constructor of `TopologyManager` with three arguments where the
  class has one with four, so what their build would do is not determined; `simulate.cpp`
  also asks for every matrix under the number 0.
- `Device::disconnect` and the flags `draining` and `reconfiguring` of `Device`: nothing in the
  repository calls or reads them. `inflight_coll`, see above.
- `exit(1)` of a request by a number that no schedule has: the program's end.
- Sending before the first reconfiguration: the devices have no routes yet, and reading the next
  device of an empty route is undefined.
- Output.

## Plan

Done: the models of all parts listed as modelled, their runs, and the proofs above (`EventQueue`,
`CongestionAware`, `LinkHistory`, `Reconfigurable`, `CongestionUnaware`, `PrecomputeRoutes`,
`BasicTopologies`).

Left:

1. That the steps of the two networks with events are steps of `Calendar`, as those of the event queue are.
2. Action properties of `Reconfigurable`: what a handler may change of `installed` and of the
   iteration of the devices.
3. From the routes that `PrecomputeRoutesProofs` and `BasicTopologiesProofs` prove shortest to the
   assumptions on routes of the two networks, by a lemma instead of in words.
