-------------------------- MODULE CongestionAware ---------------------------
(***************************************************************************)
(* The congestion aware network: chunks travel along their routes over     *)
(* links that carry one chunk at a time.                                   *)
(*                                                                         *)
(* Link::send starts a transmission when the link is free and queues the   *)
(* chunk when it is busy.  A transmission schedules two events: the        *)
(* arrival of the chunk at the next device after the communication delay,  *)
(* and the link becoming free after the serialization delay.  A link that  *)
(* becomes free starts on its first pending chunk at once; a chunk that    *)
(* arrives leaves the first device of its route and is sent on, or, when   *)
(* that was the last hop, its callback is invoked.                         *)
(*                                                                         *)
(* The event queue is the one of module Calendar: a set of waiting entries *)
(* run by time and, at equal times, in the order of their scheduling, one  *)
(* whole handler per step.                                                 *)
(***************************************************************************)
EXTENDS EventOrder, Sequences, FiniteSets

CONSTANTS Chunk,        \* the chunks the program may send
          Link,         \* the links made by connect(), pairs <<from, to>>
          Routes,       \* the routes the program may ask for
          Size,         \* the size of each chunk, in bytes
          Bandwidth,    \* the bandwidth of each link, in bytes per ns
          Latency,      \* the latency of each link, in ticks
          Resolution,   \* number of ticks in a nanosecond
          LastSend      \* bound on the time at which the program sends

\* What the assertions of Chunk, Link and Device ask for: a route has a source
\* and another device, and its hops are links; sizes and bandwidths are positive.
Device == UNION {{l[1], l[2]} : l \in Link}

ASSUME RoutesAssumption ==
  \A r \in Routes : /\ r \in Seq(Device)
                    /\ Len(r) >= 2
                    /\ \A i \in 1..(Len(r) - 1) : <<r[i], r[i + 1]>> \in Link

ASSUME DelaysAssumption ==
  /\ Size \in [Chunk -> Nat \ {0}]
  /\ Bandwidth \in [Link -> Nat \ {0}]
  /\ Latency \in [Link -> Nat]
  /\ Resolution \in Nat \ {0}
  /\ LastSend \in Nat

VARIABLES now,              \* the event queue's current time
          waiting,          \* its entries
          issued,           \* the number of entries scheduled so far
          busy,             \* busy[l]: link l is transmitting
          pending_chunks,   \* pending_chunks[l]: chunks waiting for link l
          route,            \* route[c]: what is left of c's route, <<>> when
                            \* c has not been sent
          invoked           \* invoked[c]: how often c's callback was invoked

vars == <<now, waiting, issued, busy, pending_chunks, route, invoked>>

\* The two handlers the network registers, with their argument.
Arrival(c) == [handler |-> "chunk_arrived_next_device", arg |-> c]
Free(l) == [handler |-> "link_become_free", arg |-> l]
Event == {Arrival(c) : c \in Chunk} \cup {Free(l) : l \in Link}
Entry == [id : Nat, time : Nat, event : Event]

TypeOK ==
  /\ now \in Nat
  /\ waiting \in SUBSET Entry
  /\ issued \in Nat
  /\ busy \in [Link -> BOOLEAN]
  /\ pending_chunks \in [Link -> Seq(Chunk)]
  /\ route \in [Chunk -> Seq(Device)]
  /\ invoked \in [Chunk -> Nat]

Init == /\ now = 0
        /\ waiting = {}
        /\ issued = 0
        /\ busy = [l \in Link |-> FALSE]
        /\ pending_chunks = [l \in Link |-> <<>>]
        /\ route = [c \in Chunk |-> <<>>]
        /\ invoked = [c \in Chunk |-> 0]

-----------------------------------------------------------------------------
(* Both delays are computed in double precision and cut to whole ns. *)

\* Link::serialization_delay
serialization_delay(l, c) == Size[c] \div Bandwidth[l]

\* Mutant: the latency is subtracted from the delay.
DelayWithoutLatency(l, c) ==
  (Size[c] * Resolution - Latency[l] * Bandwidth[l]) \div (Bandwidth[l] * Resolution)

\* Link::communication_delay: latency + size / bandwidth, in ns.
communication_delay(l, c) ==
  (Latency[l] * Bandwidth[l] + Size[c] * Resolution) \div (Bandwidth[l] * Resolution)

\* The link a chunk with what is left of its route takes next.
NextLink(r) == <<r[1], r[2]>>

\* Mutant: set_busy is missing.
TransmitWithoutBusy(l, c, t, w) ==
  /\ waiting' = w \cup
       {[id |-> issued + 1, time |-> t + communication_delay(l, c), event |-> Arrival(c)],
        [id |-> issued + 2, time |-> t + serialization_delay(l, c), event |-> Free(l)]}
  /\ issued' = issued + 2
  /\ UNCHANGED busy

\* Mutant: the events are scheduled at the delays, not at the delays from now.
TransmitAtDelay(l, c, t, w) ==
  /\ busy' = [busy EXCEPT ![l] = TRUE]
  /\ waiting' = w \cup
       {[id |-> issued + 1, time |-> communication_delay(l, c), event |-> Arrival(c)],
        [id |-> issued + 2, time |-> serialization_delay(l, c), event |-> Free(l)]}
  /\ issued' = issued + 2

\* Mutant: the two delays are swapped.
TransmitSwapped(l, c, t, w) ==
  /\ busy' = [busy EXCEPT ![l] = TRUE]
  /\ waiting' = w \cup
       {[id |-> issued + 1, time |-> t + serialization_delay(l, c), event |-> Arrival(c)],
        [id |-> issued + 2, time |-> t + communication_delay(l, c), event |-> Free(l)]}
  /\ issued' = issued + 2

\* Mutant: the link becomes free without the serialization delay.
TransmitFreeAtOnce(l, c, t, w) ==
  /\ busy' = [busy EXCEPT ![l] = TRUE]
  /\ waiting' = w \cup
       {[id |-> issued + 1, time |-> t + communication_delay(l, c), event |-> Arrival(c)],
        [id |-> issued + 2, time |-> t, event |-> Free(l)]}
  /\ issued' = issued + 2

\* Link::schedule_chunk_transmission at time t, w being the entries of the
\* queue: the arrival is scheduled first, then the link becoming free.
ScheduleTransmission(l, c, t, w) ==
  /\ busy' = [busy EXCEPT ![l] = TRUE]
  /\ waiting' = w \cup
       {[id |-> issued + 1, time |-> t + communication_delay(l, c), event |-> Arrival(c)],
        [id |-> issued + 2, time |-> t + serialization_delay(l, c), event |-> Free(l)]}
  /\ issued' = issued + 2

\* Mutant: a chunk sent to a busy link is dropped.
LinkSendOrDrop(l, c, t, w) ==
  /\ UNCHANGED pending_chunks
  /\ IF busy[l] THEN waiting' = w /\ UNCHANGED <<busy, issued>>
     ELSE ScheduleTransmission(l, c, t, w)

\* Device::send and Link::send of chunk c over link l.
LinkSend(l, c, t, w) ==
  \/ /\ busy[l]
     /\ pending_chunks' = [pending_chunks EXCEPT ![l] = Append(@, c)]
     /\ waiting' = w
     /\ UNCHANGED <<busy, issued>>
  \/ /\ ~busy[l]
     /\ ScheduleTransmission(l, c, t, w)
     /\ UNCHANGED pending_chunks

\* Topology::send of a new chunk on route r, by the program's own code at time
\* t: no event of the network between now and t is skipped.
Send(c, r, t) ==
  /\ route[c] = <<>>
  /\ t >= now
  /\ \A e \in waiting : t <= e.time
  /\ now' = t
  /\ route' = [route EXCEPT ![c] = r]
  /\ LinkSend(NextLink(r), c, t, waiting)
  /\ UNCHANGED invoked

\* Mutant: the callback is invoked one hop before the destination.
CallbackOneHopEarly(e, c) ==
  /\ IsNext(e, waiting)
  /\ e.event = Arrival(c)
  /\ now' = e.time
  /\ route' = [route EXCEPT ![c] = Tail(@)]
  /\ IF Len(route[c]) <= 3
     THEN /\ invoked' = [invoked EXCEPT ![c] = @ + 1]
          /\ waiting' = waiting \ {e}
          /\ UNCHANGED <<busy, pending_chunks, issued>>
     ELSE /\ LinkSend(NextLink(Tail(route[c])), c, e.time, waiting \ {e})
          /\ UNCHANGED invoked

\* The handler Chunk::chunk_arrived_next_device.
ChunkArrivedNextDevice(e, c) ==
  /\ IsNext(e, waiting)
  /\ e.event = Arrival(c)
  /\ now' = e.time
  /\ route' = [route EXCEPT ![c] = Tail(@)]
  /\ IF Len(route[c]) = 2
     THEN \* arrived_dest: the callback is invoked and the chunk destroyed
          /\ invoked' = [invoked EXCEPT ![c] = @ + 1]
          /\ waiting' = waiting \ {e}
          /\ UNCHANGED <<busy, pending_chunks, issued>>
     ELSE \* sent on from the device it arrived at
          /\ LinkSend(NextLink(Tail(route[c])), c, e.time, waiting \ {e})
          /\ UNCHANGED invoked

\* Mutant: the pending chunk is transmitted and stays at the head of the list.
ProcessWithoutPop(l, t, w) ==
  /\ ScheduleTransmission(l, Head(pending_chunks[l]), t, w)
  /\ UNCHANGED pending_chunks

\* Mutant: the chunk that came last is transmitted first.
ProcessLast(l, t, w) ==
  LET n == Len(pending_chunks[l]) IN
  /\ pending_chunks' = [pending_chunks EXCEPT ![l] = SubSeq(@, 1, n - 1)]
  /\ ScheduleTransmission(l, pending_chunks[l][n], t, w)

\* Link::process_pending_transmission at time t, w being the other entries.
ProcessPendingTransmission(l, t, w) ==
  /\ pending_chunks' = [pending_chunks EXCEPT ![l] = Tail(@)]
  /\ ScheduleTransmission(l, Head(pending_chunks[l]), t, w)

\* Mutant: the link becomes free without looking at its pending chunks.
FreeWithoutProcessing(e, l) ==
  /\ IsNext(e, waiting)
  /\ e.event = Free(l)
  /\ now' = e.time
  /\ busy' = [busy EXCEPT ![l] = FALSE]
  /\ waiting' = waiting \ {e}
  /\ UNCHANGED <<pending_chunks, issued, route, invoked>>

\* The handler Link::link_become_free.
LinkBecomeFree(e, l) ==
  /\ IsNext(e, waiting)
  /\ e.event = Free(l)
  /\ now' = e.time
  /\ IF pending_chunks[l] = <<>>
     THEN /\ busy' = [busy EXCEPT ![l] = FALSE]
          /\ waiting' = waiting \ {e}
          /\ UNCHANGED <<pending_chunks, issued>>
     ELSE ProcessPendingTransmission(l, e.time, waiting \ {e})
  /\ UNCHANGED <<route, invoked>>

Handle(e) == \/ \E c \in Chunk : ChunkArrivedNextDevice(e, c)
             \/ \E l \in Link : LinkBecomeFree(e, l)

RunNextEvent == \E e \in waiting : Handle(e)

Next == \/ \E c \in Chunk, r \in Routes, t \in 0..LastSend : Send(c, r, t)
        \/ RunNextEvent

\* The main loop calls proceed() while the queue is not finished.
Spec == Init /\ [][Next]_vars /\ WF_vars(RunNextEvent)

-----------------------------------------------------------------------------
Sent(c) == route[c] # <<>>
EntriesFor(ev) == {e \in waiting : e.event = ev}
InFlight(c) == EntriesFor(Arrival(c)) # {}
IsPending(c, l) == \E i \in 1..Len(pending_chunks[l]) : pending_chunks[l][i] = c

\* The queue's own discipline: nothing waits in the past, identities are those
\* handed out, and no two entries share one.
CalendarOK ==
  /\ \A e \in waiting : e.time >= now /\ e.id <= issued
  /\ \A e, f \in waiting : e.id = f.id => e = f

\* A link is busy exactly while one event that frees it is waiting: it never
\* stays busy for ever, and it is never freed in the middle of the transmission
\* of a later chunk (Link.cpp:35-51, 131-168; the assertion !busy of line 135).
BusyUntilFreed ==
  \A l \in Link :
     /\ busy[l] <=> EntriesFor(Free(l)) # {}
     /\ \A e, f \in EntriesFor(Free(l)) : e = f

\* No wakeup is lost: chunks wait for a link only while it is busy, hence only
\* while an event that will serve them is waiting (Link.cpp:72-82, 35-51).
PendingOnlyBehindBusy ==
  \A l \in Link : pending_chunks[l] # <<>> => busy[l]

\* A chunk has at most one arrival event, and one place in one pending list.
OneArrival == \A c \in Chunk : \A e, f \in EntriesFor(Arrival(c)) : e = f
OnePendingPlace ==
  \A l, m \in Link :
     \A i \in 1..Len(pending_chunks[l]), j \in 1..Len(pending_chunks[m]) :
        pending_chunks[l][i] = pending_chunks[m][j] => l = m /\ i = j
NotInBoth == \A c \in Chunk, l \in Link : ~(InFlight(c) /\ IsPending(c, l))
\* It waits for the link its route takes next.
PendingForItsRoute ==
  \A c \in Chunk, l \in Link : IsPending(c, l) => l = NextLink(route[c])
\* It is somewhere from the moment it is sent until its callback is invoked.
SomewhereWhileUnderWay ==
  \A c \in Chunk :
     (InFlight(c) \/ \E l \in Link : IsPending(c, l)) <=> (Sent(c) /\ invoked[c] = 0)

\* A chunk under way is in exactly one place, in an arrival event or in the
\* pending list of the link its route takes next, and a chunk that is not under
\* way is nowhere.  This is what the ownership by unique_ptr, released into the
\* event and taken back from it (Link.cpp:160, Chunk.cpp:18), has to amount to.
OnePlacePerChunk ==
  /\ OneArrival
  /\ OnePendingPlace
  /\ NotInBoth
  /\ PendingForItsRoute
  /\ SomewhereWhileUnderWay

\* The callback of a chunk is invoked at most once, exactly when nothing but the
\* destination is left of its route, and until then the route still leads over
\* links from where the chunk is (the assertions of Chunk.cpp:51-69).
CallbackOnceAtDestination ==
  \A c \in Chunk :
     /\ invoked[c] \in {0, 1}
     /\ invoked[c] = 1 <=> Len(route[c]) = 1
     /\ \A i \in 1..(Len(route[c]) - 1) : <<route[c][i], route[c][i + 1]>> \in Link

\* When the queue is finished the simulation is complete: every chunk that was
\* sent has been delivered, no link is busy and no chunk is waiting for one.
NothingStranded ==
  waiting = {} =>
     /\ \A c \in Chunk : Sent(c) => invoked[c] = 1
     /\ \A l \in Link : ~busy[l] /\ pending_chunks[l] = <<>>

\* Every chunk that is sent reaches its destination.
EveryChunkDelivered == \A c \in Chunk : Sent(c) ~> invoked[c] = 1
=============================================================================
