------------------------ MODULE CongestionAwareProofs -----------------------
(***************************************************************************)
(* Proofs about CongestionAware for every set of chunks, links, routes,    *)
(* sizes, bandwidths and latencies, and every bound on the sends.          *)
(***************************************************************************)
EXTENDS CongestionAware, ProofLemmas

(* The entries of a set w of entries for one event. *)
At(w, ev) == {e \in w : e.event = ev}

(* There is one element in S, and no other. *)
IsSingle(S) == S # {} /\ \A e, f \in S : e = f

(* What CalendarOK says, of any set of entries, time and number of entries. *)
CalendarOKAt(w, t, n) ==
  /\ w \in SUBSET Entry
  /\ \A e \in w : e.time >= t /\ e.id <= n
  /\ \A e, f \in w : e.id = f.id => e = f

LEMMA DelayTypes ==
  ASSUME NEW l \in Link, NEW c \in Chunk
  PROVE  serialization_delay(l, c) \in Nat /\ communication_delay(l, c) \in Nat
<1>1. /\ Size[c] \in Nat \ {0} /\ Bandwidth[l] \in Nat \ {0}
      /\ Latency[l] \in Nat /\ Resolution \in Nat \ {0}
  BY DelaysAssumption
<1>2. \A a \in Nat, b \in Nat \ {0} : a \div b \in Nat
  OBVIOUS
<1>3. /\ Latency[l] * Bandwidth[l] + Size[c] * Resolution \in Nat
      /\ Bandwidth[l] * Resolution \in Nat \ {0}
  BY <1>1
<1> QED BY <1>1, <1>2, <1>3 DEF serialization_delay, communication_delay

(* The events of different handlers, or of different arguments, differ. *)
LEMMA EventsDiffer ==
  /\ \A c \in Chunk : Arrival(c) \in Event
  /\ \A l \in Link : Free(l) \in Event
  /\ \A c, d : Arrival(c) = Arrival(d) <=> c = d
  /\ \A l, m : Free(l) = Free(m) <=> l = m
  /\ \A c, l : Arrival(c) # Free(l)
BY DEF Event, Arrival, Free

(* The queue once the transmission of chunk c over link l is scheduled. *)
LEMMA AfterTransmission ==
  ASSUME issued \in Nat, busy \in [Link -> BOOLEAN],
         NEW l \in Link, NEW c \in Chunk, NEW t \in Nat, NEW w,
         CalendarOKAt(w, t, issued),
         ScheduleTransmission(l, c, t, w)
  PROVE  /\ CalendarOKAt(waiting', t, issued')
         /\ issued' \in Nat
         /\ busy' \in [Link -> BOOLEAN]
         /\ busy'[l] /\ \A m \in Link \ {l} : busy'[m] = busy[m]
         /\ \A ev : ev # Arrival(c) /\ ev # Free(l) => At(waiting', ev) = At(w, ev)
         /\ At(w, Arrival(c)) = {} => IsSingle(At(waiting', Arrival(c)))
         /\ At(w, Free(l)) = {} => IsSingle(At(waiting', Free(l)))
<1> DEFINE a == [id |-> issued + 1, time |-> t + communication_delay(l, c),
                 event |-> Arrival(c)]
           f == [id |-> issued + 2, time |-> t + serialization_delay(l, c),
                 event |-> Free(l)]
<1>1. waiting' = w \cup {a, f} /\ issued' = issued + 2
      /\ busy' = [busy EXCEPT ![l] = TRUE]
  BY DEF ScheduleTransmission
<1>2. /\ a \in Entry /\ f \in Entry
      /\ a.time >= t /\ f.time >= t
      /\ a.id = issued + 1 /\ f.id = issued + 2
      /\ a.event = Arrival(c) /\ f.event = Free(l)
  BY DelayTypes, EventsDiffer DEF Entry
<1> HIDE DEF a, f
<1>3. \A e \in w : e.id \in Nat /\ e.time \in Nat
  BY DEF CalendarOKAt, Entry
<1>4. CalendarOKAt(waiting', t, issued')
  <2>1. waiting' \in SUBSET Entry
    BY <1>1, <1>2 DEF CalendarOKAt
  <2>2. \A e \in waiting' : e.time >= t /\ e.id <= issued'
    BY <1>1, <1>2, <1>3 DEF CalendarOKAt
  <2>3. \A e, g \in waiting' : e.id = g.id => e = g
    <3>1. \A e \in w : e.id # a.id /\ e.id # f.id
      BY <1>2, <1>3 DEF CalendarOKAt
    <3>2. a.id # f.id
      BY <1>2
    <3> QED BY <1>1, <3>1, <3>2 DEF CalendarOKAt
  <2> QED BY <2>1, <2>2, <2>3 DEF CalendarOKAt
<1>5. \A ev : ev # Arrival(c) /\ ev # Free(l) => At(waiting', ev) = At(w, ev)
  BY <1>1, <1>2 DEF At
<1>6. At(w, Arrival(c)) = {} => IsSingle(At(waiting', Arrival(c)))
  BY <1>1, <1>2, EventsDiffer DEF At, IsSingle
<1>7. At(w, Free(l)) = {} => IsSingle(At(waiting', Free(l)))
  BY <1>1, <1>2, EventsDiffer DEF At, IsSingle
<1> QED BY <1>1, <1>4, <1>5, <1>6, <1>7

(* The queue once the next entry has been taken out. *)
LEMMA AfterTake ==
  ASSUME TypeOK, CalendarOK, NEW e \in waiting, IsNext(e, waiting)
  PROVE  /\ e.time \in Nat /\ e.time >= now
         /\ CalendarOKAt(waiting \ {e}, e.time, issued)
         /\ \A ev : ev # e.event => At(waiting \ {e}, ev) = EntriesFor(ev)
         /\ At(waiting \ {e}, e.event) = EntriesFor(e.event) \ {e}
         /\ e \in EntriesFor(e.event)
<1>1. \A f \in waiting : f \in Entry /\ f.time \in Nat /\ f.id \in Nat
  BY DEF TypeOK, Entry
<1>2. e.time >= now
  BY DEF CalendarOK
<1>3. \A f \in waiting \ {e} : f.time >= e.time
  BY <1>1 DEF IsNext, Precedes
<1>4. CalendarOKAt(waiting \ {e}, e.time, issued)
  BY <1>1, <1>3 DEF CalendarOKAt, CalendarOK
<1> QED BY <1>1, <1>2, <1>4 DEF At, EntriesFor

(* CalendarOKAt is CalendarOK together with the type of the queue. *)
LEMMA CalendarOKIs ==
  ASSUME TypeOK
  PROVE  CalendarOK <=> CalendarOKAt(waiting, now, issued)
BY DEF TypeOK, CalendarOK, CalendarOKAt

-----------------------------------------------------------------------------
(* The pending lists after a chunk that waits nowhere is appended to one. *)
LEMMA AfterAppend ==
  ASSUME pending_chunks \in [Link -> Seq(Chunk)], OnePendingPlace,
         NEW l \in Link, NEW c \in Chunk, \A m \in Link : ~IsPending(c, m),
         pending_chunks' = [pending_chunks EXCEPT ![l] = Append(@, c)]
  PROVE  /\ pending_chunks' \in [Link -> Seq(Chunk)]
         /\ OnePendingPlace'
         /\ \A d \in Chunk, m \in Link :
               IsPending(d, m)' <=> IsPending(d, m) \/ (d = c /\ m = l)
         /\ pending_chunks'[l] # <<>>
         /\ \A m \in Link \ {l} : pending_chunks'[m] = pending_chunks[m]
<1>e. pending_chunks' = Appended(pending_chunks, Link, l, c)
  BY DEF Appended
<1>1. \A d, m : IsPending(d, m) <=> Occurs(pending_chunks, d, m)
  BY DEF IsPending, Occurs
<1>2. \A d, m : IsPending(d, m)' <=> Occurs(pending_chunks', d, m)
  BY DEF IsPending, Occurs
<1>3. PlacesDiffer(pending_chunks, Link)
  BY DEF OnePendingPlace, PlacesDiffer
<1>4. \A m \in Link : ~Occurs(pending_chunks, c, m)
  BY <1>1
<1>5. CameIn(Chunk, Link, pending_chunks, l, c, Appended(pending_chunks, Link, l, c))
  BY <1>3, <1>4, ListsAfterAppend
<1>6. /\ pending_chunks' \in [Link -> Seq(Chunk)]
      /\ PlacesDiffer(pending_chunks', Link)
      /\ pending_chunks'[l] # <<>>
      /\ \A m \in Link \ {l} : pending_chunks'[m] = pending_chunks[m]
  BY ONLY <1>5, <1>e DEF CameIn
<1>7. \A d \in Chunk, m \in Link :
        Occurs(pending_chunks', d, m) <=> Occurs(pending_chunks, d, m) \/ (d = c /\ m = l)
  BY ONLY <1>5, <1>e DEF CameIn
<1>8. OnePendingPlace'
  BY ONLY <1>6 DEF OnePendingPlace, PlacesDiffer
<1> QED BY ONLY <1>1, <1>2, <1>6, <1>7, <1>8

(* The pending lists after the first chunk of one is taken out. *)
LEMMA AfterPop ==
  ASSUME pending_chunks \in [Link -> Seq(Chunk)], OnePendingPlace,
         NEW l \in Link, pending_chunks[l] # <<>>,
         pending_chunks' = [pending_chunks EXCEPT ![l] = Tail(@)]
  PROVE  /\ pending_chunks' \in [Link -> Seq(Chunk)]
         /\ OnePendingPlace'
         /\ Head(pending_chunks[l]) \in Chunk
         /\ IsPending(Head(pending_chunks[l]), l)
         /\ \A d \in Chunk, m \in Link :
               IsPending(d, m)' <=> IsPending(d, m) /\ d # Head(pending_chunks[l])
         /\ \A m \in Link \ {l} : pending_chunks'[m] = pending_chunks[m]
<1>e. pending_chunks' = Popped(pending_chunks, Link, l)
  BY DEF Popped
<1>1. \A d, m : IsPending(d, m) <=> Occurs(pending_chunks, d, m)
  BY DEF IsPending, Occurs
<1>2. \A d, m : IsPending(d, m)' <=> Occurs(pending_chunks', d, m)
  BY DEF IsPending, Occurs
<1>3. PlacesDiffer(pending_chunks, Link)
  BY DEF OnePendingPlace, PlacesDiffer
<1>5. WentOut(Chunk, Link, pending_chunks, l, Head(pending_chunks[l]),
              Popped(pending_chunks, Link, l))
  BY <1>3, ListsAfterPop
<1>6. OnePendingPlace'
  BY <1>5, <1>e DEF WentOut, OnePendingPlace, PlacesDiffer
<1> QED BY <1>1, <1>2, <1>5, <1>6, <1>e DEF WentOut

-----------------------------------------------------------------------------
(* BusyUntilFreed, of any set of entries and any state of the links. *)
BusyAt(w, b) ==
  \A l \in Link : /\ b[l] <=> At(w, Free(l)) # {}
                  /\ \A e, f \in At(w, Free(l)) : e = f

(* Handing a chunk that is nowhere to a link puts it in one place. *)
LEMMA AfterLinkSend ==
  ASSUME TypeOK, PendingOnlyBehindBusy, OnePendingPlace,
         NEW l \in Link, NEW c \in Chunk, NEW t \in Nat, NEW w,
         CalendarOKAt(w, t, issued), BusyAt(w, busy),
         \A d \in Chunk : \A e, f \in At(w, Arrival(d)) : e = f,
         \A d \in Chunk, m \in Link : ~(At(w, Arrival(d)) # {} /\ IsPending(d, m)),
         At(w, Arrival(c)) = {}, \A m \in Link : ~IsPending(c, m),
         LinkSend(l, c, t, w)
  PROVE  /\ CalendarOKAt(waiting', t, issued')
         /\ issued' \in Nat
         /\ busy' \in [Link -> BOOLEAN]
         /\ pending_chunks' \in [Link -> Seq(Chunk)]
         /\ BusyAt(waiting', busy')
         /\ PendingOnlyBehindBusy'
         /\ OneArrival' /\ OnePendingPlace' /\ NotInBoth'
         /\ \A d \in Chunk \ {c} : At(waiting', Arrival(d)) = At(w, Arrival(d))
         /\ \A d \in Chunk \ {c}, m \in Link : IsPending(d, m)' <=> IsPending(d, m)
         /\ \A m \in Link : IsPending(c, m)' => m = l
         /\ InFlight(c)' \/ IsPending(c, l)'
<1>t. /\ issued \in Nat /\ busy \in [Link -> BOOLEAN]
      /\ pending_chunks \in [Link -> Seq(Chunk)]
  BY DEF TypeOK
<1>1. CASE busy[l]
  <2>1. /\ pending_chunks' = [pending_chunks EXCEPT ![l] = Append(@, c)]
        /\ waiting' = w /\ busy' = busy /\ issued' = issued
    BY <1>1 DEF LinkSend
  <2>2. /\ pending_chunks' \in [Link -> Seq(Chunk)]
        /\ OnePendingPlace'
        /\ \A d \in Chunk, m \in Link :
              IsPending(d, m)' <=> IsPending(d, m) \/ (d = c /\ m = l)
        /\ \A m \in Link \ {l} : pending_chunks'[m] = pending_chunks[m]
    BY <1>t, <2>1, AfterAppend
  <2>3. PendingOnlyBehindBusy'
    BY <1>1, <2>1, <2>2 DEF PendingOnlyBehindBusy
  <2>4. OneArrival' /\ NotInBoth'
    BY <2>1, <2>2 DEF OneArrival, NotInBoth, InFlight, EntriesFor, At
  <2>5. CalendarOKAt(waiting', t, issued') /\ issued' \in Nat /\ busy' \in [Link -> BOOLEAN]
    BY <1>t, <2>1
  <2>6. BusyAt(waiting', busy')
    BY <2>1
  <2>7. \A d \in Chunk \ {c} : At(waiting', Arrival(d)) = At(w, Arrival(d))
    BY <2>1
  <2>8. /\ \A d \in Chunk \ {c}, m \in Link : IsPending(d, m)' <=> IsPending(d, m)
        /\ \A m \in Link : IsPending(c, m)' => m = l
        /\ IsPending(c, l)'
    BY <2>2
  <2> QED BY <2>2, <2>3, <2>4, <2>5, <2>6, <2>7, <2>8
<1>2. CASE ~busy[l]
  <2>1. ScheduleTransmission(l, c, t, w) /\ pending_chunks' = pending_chunks
    BY <1>2 DEF LinkSend
  <2>2. /\ CalendarOKAt(waiting', t, issued')
        /\ issued' \in Nat
        /\ busy' \in [Link -> BOOLEAN]
        /\ busy'[l] /\ \A m \in Link \ {l} : busy'[m] = busy[m]
        /\ \A ev : ev # Arrival(c) /\ ev # Free(l) => At(waiting', ev) = At(w, ev)
    BY <1>t, <2>1, AfterTransmission
  <2>3. IsSingle(At(waiting', Arrival(c))) /\ IsSingle(At(waiting', Free(l)))
    <3>1. At(w, Free(l)) = {}
      BY <1>2 DEF BusyAt
    <3> QED BY <1>t, <2>1, <3>1, AfterTransmission
  <2>4. \A d, m : IsPending(d, m)' <=> IsPending(d, m)
    BY <2>1 DEF IsPending
  <2>5. \A d \in Chunk \ {c} : At(waiting', Arrival(d)) = At(w, Arrival(d))
    BY <2>2, EventsDiffer
  <2>6. \A m \in Link \ {l} : At(waiting', Free(m)) = At(w, Free(m))
    BY <2>2, EventsDiffer
  <2>7. BusyAt(waiting', busy')
    BY <2>2, <2>3, <2>6 DEF BusyAt, IsSingle
  <2>8. PendingOnlyBehindBusy'
    BY <2>1, <2>2 DEF PendingOnlyBehindBusy
  <2>9. OneArrival'
    BY <2>3, <2>5 DEF OneArrival, EntriesFor, At, IsSingle
  <2>10. OnePendingPlace'
    BY <2>1 DEF OnePendingPlace
  <2>11. NotInBoth'
    BY <2>4, <2>5 DEF NotInBoth, InFlight, EntriesFor, At
  <2>12. InFlight(c)'
    BY <2>3 DEF InFlight, EntriesFor, At, IsSingle
  <2> QED BY <1>t, <2>1, <2>2, <2>4, <2>5, <2>7, <2>8, <2>9, <2>10, <2>11, <2>12
<1> QED BY <1>1, <1>2

-----------------------------------------------------------------------------
(* The inductive invariant: the safety properties need one another.  That a *)
(* link is freed by one event at most needs that none is waiting when a     *)
(* transmission starts, which needs the links' state; that the place of a   *)
(* chunk is unique needs that a chunk handed on was in its arrival event.   *)
IInv ==
  /\ TypeOK
  /\ CalendarOK
  /\ BusyUntilFreed
  /\ PendingOnlyBehindBusy
  /\ OnePlacePerChunk
  /\ CallbackOnceAtDestination

(* IInv in the terms of AfterLinkSend. *)
LEMMA IInvAt ==
  ASSUME IInv
  PROVE  /\ CalendarOKAt(waiting, now, issued)
         /\ BusyAt(waiting, busy)
         /\ \A ev : At(waiting, ev) = EntriesFor(ev)
BY CalendarOKIs DEF IInv, BusyAt, BusyUntilFreed, At, EntriesFor

(* A route asked for by the program starts on a link. *)
LEMMA FirstHop ==
  ASSUME NEW r \in Routes
  PROVE  /\ r \in Seq(Device) /\ Len(r) \in Nat /\ Len(r) >= 2 /\ r # <<>>
         /\ NextLink(r) \in Link
         /\ \A i \in 1..(Len(r) - 1) : <<r[i], r[i + 1]>> \in Link
<1>1. /\ r \in Seq(Device) /\ Len(r) >= 2 /\ Len(r) \in Nat
      /\ \A i \in 1..(Len(r) - 1) : <<r[i], r[i + 1]>> \in Link
  BY RoutesAssumption
<1>2. 1 \in 1..(Len(r) - 1)
  BY <1>1
<1>3. NextLink(r) \in Link
  BY <1>1, <1>2 DEF NextLink
<1>4. r # <<>>
  BY <1>1, EmptySeq
<1> QED BY <1>1, <1>3, <1>4

LEMMA SendStep ==
  ASSUME IInv, NEW c \in Chunk, NEW r \in Routes, NEW t \in 0..LastSend, Send(c, r, t)
  PROVE  IInv'
<1> USE DEF IInv
<1>t. t \in Nat
  BY DelaysAssumption
<1>1. /\ route[c] = <<>> /\ t >= now
      /\ \A e \in waiting : t <= e.time
      /\ now' = t /\ invoked' = invoked
      /\ route' = [route EXCEPT ![c] = r]
      /\ LinkSend(NextLink(r), c, t, waiting)
  BY DEF Send
<1>2. /\ route' \in [Chunk -> Seq(Device)]
      /\ route'[c] = r /\ \A d \in Chunk \ {c} : route'[d] = route[d]
  BY <1>1, FirstHop DEF TypeOK
<1>3. invoked[c] = 0
  BY <1>1, EmptySeq DEF CallbackOnceAtDestination
<1>4. EntriesFor(Arrival(c)) = {} /\ \A m \in Link : ~IsPending(c, m)
  BY <1>1 DEF OnePlacePerChunk, SomewhereWhileUnderWay, Sent, InFlight
<1>5. CalendarOKAt(waiting, t, issued)
  BY <1>1, IInvAt DEF CalendarOKAt
<1>6. /\ CalendarOKAt(waiting', t, issued')
      /\ issued' \in Nat
      /\ busy' \in [Link -> BOOLEAN]
      /\ pending_chunks' \in [Link -> Seq(Chunk)]
      /\ BusyAt(waiting', busy')
      /\ PendingOnlyBehindBusy'
      /\ OneArrival' /\ OnePendingPlace' /\ NotInBoth'
      /\ \A d \in Chunk \ {c} : At(waiting', Arrival(d)) = At(waiting, Arrival(d))
      /\ \A d \in Chunk \ {c}, m \in Link : IsPending(d, m)' <=> IsPending(d, m)
      /\ \A m \in Link : IsPending(c, m)' => m = NextLink(r)
      /\ InFlight(c)' \/ IsPending(c, NextLink(r))'
  <2>1. \A d \in Chunk : \A e, f \in At(waiting, Arrival(d)) : e = f
    BY IInvAt DEF OnePlacePerChunk, OneArrival
  <2>2. \A d \in Chunk, m \in Link : ~(At(waiting, Arrival(d)) # {} /\ IsPending(d, m))
    BY IInvAt DEF OnePlacePerChunk, NotInBoth, InFlight
  <2>3. At(waiting, Arrival(c)) = {}
    BY <1>4, IInvAt
  <2>4. NextLink(r) \in Link
    BY FirstHop
  <2> HIDE DEF IInv
  <2>5. TypeOK /\ PendingOnlyBehindBusy /\ OnePendingPlace /\ BusyAt(waiting, busy)
    BY IInvAt DEF IInv, OnePlacePerChunk
  <2> QED BY <1>1, <1>t, <1>4, <1>5, <2>1, <2>2, <2>3, <2>4, <2>5, AfterLinkSend
<1>7. TypeOK'
  BY <1>1, <1>2, <1>6, <1>t DEF TypeOK, CalendarOKAt
<1>8. CalendarOK'
  BY <1>1, <1>6 DEF CalendarOK, CalendarOKAt
<1>9. BusyUntilFreed'
  BY <1>6 DEF BusyUntilFreed, BusyAt, At, EntriesFor
<1>10. PendingForItsRoute'
  BY <1>2, <1>6 DEF PendingForItsRoute, OnePlacePerChunk
<1>11. SomewhereWhileUnderWay'
  <2> SUFFICES ASSUME NEW d \in Chunk
               PROVE  ((InFlight(d) \/ \E l \in Link : IsPending(d, l))
                          <=> (Sent(d) /\ invoked[d] = 0))'
    BY DEF SomewhereWhileUnderWay
  <2>1. CASE d = c
    <3>1. Sent(c)' /\ invoked'[c] = 0
      BY <1>1, <1>2, <1>3, FirstHop DEF Sent
    <3>2. NextLink(r) \in Link
      BY FirstHop
    <3> QED BY <1>6, <2>1, <3>1, <3>2
  <2>2. CASE d # c
    <3>1. InFlight(d)' <=> InFlight(d)
      BY <1>6, <2>2 DEF InFlight, EntriesFor, At
    <3>2. \A m \in Link : IsPending(d, m)' <=> IsPending(d, m)
      BY <1>6, <2>2
    <3>3. Sent(d)' <=> Sent(d)
      BY <1>2, <2>2 DEF Sent
    <3>4. invoked'[d] = invoked[d]
      BY <1>1
    <3> QED BY <3>1, <3>2, <3>3, <3>4 DEF OnePlacePerChunk, SomewhereWhileUnderWay
  <2> QED BY <2>1, <2>2
<1>12. CallbackOnceAtDestination'
  <2> SUFFICES ASSUME NEW d \in Chunk
               PROVE  /\ invoked'[d] \in {0, 1}
                      /\ invoked'[d] = 1 <=> Len(route'[d]) = 1
                      /\ \A i \in 1..(Len(route'[d]) - 1) :
                            <<route'[d][i], route'[d][i + 1]>> \in Link
    BY DEF CallbackOnceAtDestination
  <2>1. CASE d = c
    BY <1>1, <1>2, <1>3, <2>1, FirstHop
  <2>2. CASE d # c
    BY <1>1, <1>2, <2>2 DEF CallbackOnceAtDestination
  <2> QED BY <2>1, <2>2
<1> QED BY <1>6, <1>7, <1>8, <1>9, <1>10, <1>11, <1>12 DEF OnePlacePerChunk

LEMMA ArrivalStep ==
  ASSUME IInv, NEW e \in waiting, NEW c \in Chunk, ChunkArrivedNextDevice(e, c)
  PROVE  IInv'
<1> USE DEF IInv
<1>w. PICK w : w = waiting \ {e}
  OBVIOUS
<1>r. PICK r : r = Tail(route[c])
  OBVIOUS
<1>1. /\ IsNext(e, waiting) /\ e.event = Arrival(c) /\ now' = e.time
      /\ route' = [route EXCEPT ![c] = r]
  BY <1>r DEF ChunkArrivedNextDevice
<1>2. /\ e.time \in Nat
      /\ CalendarOKAt(w, e.time, issued)
      /\ \A ev : ev # Arrival(c) => At(w, ev) = EntriesFor(ev)
      /\ At(w, Arrival(c)) = EntriesFor(Arrival(c)) \ {e}
      /\ e \in EntriesFor(Arrival(c))
  BY <1>w, <1>1, AfterTake
<1>3. At(w, Arrival(c)) = {}
  BY <1>2 DEF OnePlacePerChunk, OneArrival
<1>4. /\ route[c] # <<>> /\ invoked[c] = 0
      /\ \A m \in Link : ~IsPending(c, m)
  BY <1>2 DEF OnePlacePerChunk, SomewhereWhileUnderWay, NotInBoth, InFlight, Sent
<1>5. /\ route[c] \in Seq(Device) /\ Len(route[c]) \in Nat /\ Len(route[c]) >= 2
      /\ r \in Seq(Device) /\ Len(r) = Len(route[c]) - 1
      /\ \A i \in 1..Len(r) : r[i] = route[c][i + 1]
      /\ r # <<>>
  <2>1. route[c] \in Seq(Device)
    BY DEF TypeOK
  <2>2. Len(route[c]) \in Nat \ {0} /\ Len(route[c]) # 1
    BY <1>4, <2>1, EmptySeq DEF CallbackOnceAtDestination
  <2>3. /\ r \in Seq(Device) /\ Len(r) = Len(route[c]) - 1
        /\ \A i \in 1..Len(r) : r[i] = route[c][i + 1]
    BY <1>r, <1>4, <2>1, HeadTailProperties
  <2>4. Len(r) # 0
    BY <2>2, <2>3
  <2>5. r # <<>>
    BY <2>4
  <2> QED BY <2>1, <2>2, <2>3, <2>5
<1>6. \A i \in 1..(Len(r) - 1) : <<r[i], r[i + 1]>> \in Link
  <2> SUFFICES ASSUME NEW i \in 1..(Len(r) - 1) PROVE <<r[i], r[i + 1]>> \in Link
    OBVIOUS
  <2>1. /\ i \in 1..Len(r) /\ i + 1 \in 1..Len(r)
        /\ i + 1 \in 1..(Len(route[c]) - 1)
    BY <1>5
  <2>2. r[i] = route[c][i + 1] /\ r[i + 1] = route[c][(i + 1) + 1]
    BY <1>5, <2>1
  <2> QED BY <2>1, <2>2 DEF CallbackOnceAtDestination
<1>7. /\ route' \in [Chunk -> Seq(Device)]
      /\ route'[c] = r /\ \A d \in Chunk \ {c} : route'[d] = route[d]
  BY <1>1, <1>5 DEF TypeOK
<1>8. BusyAt(w, busy)
  <2>1. \A m \in Link : At(w, Free(m)) = EntriesFor(Free(m))
    BY <1>2, EventsDiffer
  <2> QED BY <2>1 DEF BusyAt, BusyUntilFreed
<1>9. \A d \in Chunk \ {c} : At(w, Arrival(d)) = EntriesFor(Arrival(d))
  BY <1>2, EventsDiffer
<1>10. CASE Len(route[c]) = 2
  <2>1. /\ invoked' = [invoked EXCEPT ![c] = @ + 1]
        /\ waiting' = w
        /\ UNCHANGED <<busy, pending_chunks, issued>>
    BY <1>w, <1>10 DEF ChunkArrivedNextDevice
  <2>2. /\ invoked' \in [Chunk -> Nat] /\ invoked'[c] = 1
        /\ \A d \in Chunk \ {c} : invoked'[d] = invoked[d]
    BY <1>4, <2>1 DEF TypeOK
  <2>3. TypeOK'
    BY <1>1, <1>2, <1>7, <2>1, <2>2 DEF TypeOK, CalendarOKAt
  <2>4. CalendarOK'
    BY <1>1, <1>2, <2>1 DEF CalendarOK, CalendarOKAt
  <2>5. BusyUntilFreed'
    BY <1>8, <2>1 DEF BusyUntilFreed, BusyAt, At, EntriesFor
  <2>6. PendingOnlyBehindBusy'
    BY <2>1 DEF PendingOnlyBehindBusy
  <2>p. \A d, m : IsPending(d, m)' <=> IsPending(d, m)
    BY <2>1 DEF IsPending
  <2>f. \A d \in Chunk : InFlight(d)' <=> d # c /\ InFlight(d)
    BY <1>3, <1>9, <2>1 DEF InFlight, EntriesFor, At
  <2>7. OneArrival' /\ OnePendingPlace' /\ NotInBoth' /\ PendingForItsRoute'
    <3>1. OneArrival'
      BY <1>w, <2>1 DEF OnePlacePerChunk, OneArrival, EntriesFor
    <3>2. OnePendingPlace'
      BY <2>1 DEF OnePlacePerChunk, OnePendingPlace
    <3>3. NotInBoth'
      BY <2>p, <2>f DEF OnePlacePerChunk, NotInBoth
    <3>4. PendingForItsRoute'
      BY <1>4, <1>7, <2>p DEF OnePlacePerChunk, PendingForItsRoute
    <3> QED BY <3>1, <3>2, <3>3, <3>4
  <2>8. SomewhereWhileUnderWay'
    <3> SUFFICES ASSUME NEW d \in Chunk
                 PROVE  ((InFlight(d) \/ \E l \in Link : IsPending(d, l))
                            <=> (Sent(d) /\ invoked[d] = 0))'
      BY DEF SomewhereWhileUnderWay
    <3>1. CASE d = c
      BY <1>4, <2>2, <2>p, <2>f, <3>1
    <3>2. CASE d # c
      BY <1>7, <2>2, <2>p, <2>f, <3>2 DEF Sent, OnePlacePerChunk, SomewhereWhileUnderWay
    <3> QED BY <3>1, <3>2
  <2>9. CallbackOnceAtDestination'
    <3> SUFFICES ASSUME NEW d \in Chunk
                 PROVE  /\ invoked'[d] \in {0, 1}
                        /\ invoked'[d] = 1 <=> Len(route'[d]) = 1
                        /\ \A i \in 1..(Len(route'[d]) - 1) :
                              <<route'[d][i], route'[d][i + 1]>> \in Link
      BY DEF CallbackOnceAtDestination
    <3>1. CASE d = c
      BY <1>5, <1>6, <1>7, <1>10, <2>2, <3>1
    <3>2. CASE d # c
      BY <1>7, <2>2, <3>2 DEF CallbackOnceAtDestination
    <3> QED BY <3>1, <3>2
  <2> QED BY <2>3, <2>4, <2>5, <2>6, <2>7, <2>8, <2>9 DEF OnePlacePerChunk
<1>11. CASE Len(route[c]) # 2
  <2>0. Len(r) \in Nat /\ Len(r) >= 2
    <3> HIDE DEF IInv
    <3>1. \A n \in Nat : n >= 2 /\ n # 2 => n - 1 \in Nat /\ n - 1 >= 2
      OBVIOUS
    <3> QED BY <1>5, <1>11, <3>1
  <2>1. LinkSend(NextLink(r), c, e.time, w) /\ invoked' = invoked
    BY <1>w, <1>r, <1>11 DEF ChunkArrivedNextDevice
  <2>2. NextLink(r) \in Link
    <3>1. 1 \in 1..(Len(r) - 1)
      BY <2>0
    <3> QED BY <1>6, <3>1 DEF NextLink
  <2>3. /\ CalendarOKAt(waiting', e.time, issued')
        /\ issued' \in Nat
        /\ busy' \in [Link -> BOOLEAN]
        /\ pending_chunks' \in [Link -> Seq(Chunk)]
        /\ BusyAt(waiting', busy')
        /\ PendingOnlyBehindBusy'
        /\ OneArrival' /\ OnePendingPlace' /\ NotInBoth'
        /\ \A d \in Chunk \ {c} : At(waiting', Arrival(d)) = At(w, Arrival(d))
        /\ \A d \in Chunk \ {c}, m \in Link : IsPending(d, m)' <=> IsPending(d, m)
        /\ \A m \in Link : IsPending(c, m)' => m = NextLink(r)
        /\ InFlight(c)' \/ IsPending(c, NextLink(r))'
    <3>1. \A d \in Chunk : \A f, g \in At(w, Arrival(d)) : f = g
      BY <1>3, <1>9 DEF OnePlacePerChunk, OneArrival
    <3>2. \A d \in Chunk, m \in Link : ~(At(w, Arrival(d)) # {} /\ IsPending(d, m))
      BY <1>3, <1>9 DEF OnePlacePerChunk, NotInBoth, InFlight
    <3> HIDE DEF IInv
    <3>3. TypeOK /\ PendingOnlyBehindBusy /\ OnePendingPlace
      BY DEF IInv, OnePlacePerChunk
    <3> QED BY <1>2, <1>3, <1>4, <1>8, <2>1, <2>2, <3>1, <3>2, <3>3, AfterLinkSend
  <2>4. TypeOK'
    BY <1>1, <1>2, <1>7, <2>1, <2>3 DEF TypeOK, CalendarOKAt
  <2>5. CalendarOK'
    BY <1>1, <2>3 DEF CalendarOK, CalendarOKAt
  <2>6. BusyUntilFreed'
    BY <2>3 DEF BusyUntilFreed, BusyAt, At, EntriesFor
  <2>7. PendingForItsRoute'
    BY <1>7, <2>3 DEF PendingForItsRoute, OnePlacePerChunk
  <2>8. SomewhereWhileUnderWay'
    <3> SUFFICES ASSUME NEW d \in Chunk
                 PROVE  ((InFlight(d) \/ \E l \in Link : IsPending(d, l))
                            <=> (Sent(d) /\ invoked[d] = 0))'
      BY DEF SomewhereWhileUnderWay
    <3>1. CASE d = c
      <4>1. Sent(c)' /\ invoked'[c] = 0
        BY <1>4, <1>5, <1>7, <2>1 DEF Sent
      <4> QED BY <2>2, <2>3, <3>1, <4>1
    <3>2. CASE d # c
      <4>1. InFlight(d)' <=> InFlight(d)
        BY <1>9, <2>3, <3>2 DEF InFlight, EntriesFor, At
      <4>2. \A m \in Link : IsPending(d, m)' <=> IsPending(d, m)
        BY <2>3, <3>2
      <4>3. Sent(d)' <=> Sent(d)
        BY <1>7, <3>2 DEF Sent
      <4>4. invoked'[d] = invoked[d]
        BY <2>1
      <4> QED BY <4>1, <4>2, <4>3, <4>4 DEF OnePlacePerChunk, SomewhereWhileUnderWay
    <3> QED BY <3>1, <3>2
  <2>9. CallbackOnceAtDestination'
    <3> SUFFICES ASSUME NEW d \in Chunk
                 PROVE  /\ invoked'[d] \in {0, 1}
                        /\ invoked'[d] = 1 <=> Len(route'[d]) = 1
                        /\ \A i \in 1..(Len(route'[d]) - 1) :
                              <<route'[d][i], route'[d][i + 1]>> \in Link
      BY DEF CallbackOnceAtDestination
    <3>1. CASE d = c
      BY <1>4, <1>6, <1>7, <2>0, <2>1, <3>1
    <3>2. CASE d # c
      BY <1>7, <2>1, <3>2 DEF CallbackOnceAtDestination
    <3> QED BY <3>1, <3>2
  <2> QED BY <2>3, <2>4, <2>5, <2>6, <2>7, <2>8, <2>9 DEF OnePlacePerChunk
<1> QED BY <1>10, <1>11

LEMMA FreeStep ==
  ASSUME IInv, NEW e \in waiting, NEW l \in Link, LinkBecomeFree(e, l)
  PROVE  IInv'
<1> USE DEF IInv
<1>w. PICK w : w = waiting \ {e}
  OBVIOUS
<1>c. PICK c : c = Head(pending_chunks[l])
  OBVIOUS
<1>1. /\ IsNext(e, waiting) /\ e.event = Free(l) /\ now' = e.time
      /\ UNCHANGED <<route, invoked>>
  BY DEF LinkBecomeFree, ProcessPendingTransmission
<1>2. /\ e.time \in Nat
      /\ CalendarOKAt(w, e.time, issued)
      /\ \A ev : ev # Free(l) => At(w, ev) = EntriesFor(ev)
      /\ At(w, Free(l)) = EntriesFor(Free(l)) \ {e}
      /\ e \in EntriesFor(Free(l))
  BY <1>w, <1>1, AfterTake
<1>3. At(w, Free(l)) = {} /\ busy[l]
  BY <1>2 DEF BusyUntilFreed
<1>4. \A m \in Link \ {l} : At(w, Free(m)) = EntriesFor(Free(m))
  BY <1>2, EventsDiffer
<1>5. \A d \in Chunk : At(w, Arrival(d)) = EntriesFor(Arrival(d))
  BY <1>2, EventsDiffer
<1>6. CallbackOnceAtDestination'
  BY <1>1 DEF CallbackOnceAtDestination
<1>7. CASE pending_chunks[l] = <<>>
  <2>1. /\ busy' = [busy EXCEPT ![l] = FALSE]
        /\ waiting' = w
        /\ UNCHANGED <<pending_chunks, issued>>
    BY <1>w, <1>7 DEF LinkBecomeFree, ProcessPendingTransmission
  <2>2. /\ busy' \in [Link -> BOOLEAN] /\ ~busy'[l]
        /\ \A m \in Link \ {l} : busy'[m] = busy[m]
    BY <2>1 DEF TypeOK
  <2>3. TypeOK' /\ CalendarOK'
    BY <1>1, <1>2, <2>1, <2>2 DEF TypeOK, CalendarOK, CalendarOKAt
  <2>4. BusyUntilFreed'
    BY <1>3, <1>4, <2>1, <2>2 DEF BusyUntilFreed, At, EntriesFor
  <2>5. PendingOnlyBehindBusy'
    BY <1>7, <2>1, <2>2 DEF PendingOnlyBehindBusy
  <2>6. /\ \A d, m : IsPending(d, m)' <=> IsPending(d, m)
        /\ \A d \in Chunk : EntriesFor(Arrival(d))' = EntriesFor(Arrival(d))
    BY <1>5, <2>1 DEF IsPending, EntriesFor, At
  <2>7. OnePlacePerChunk'
    <3>1. OneArrival'
      BY <2>6 DEF OnePlacePerChunk, OneArrival
    <3>2. OnePendingPlace'
      BY <2>1 DEF OnePlacePerChunk, OnePendingPlace
    <3>3. NotInBoth'
      BY <2>6 DEF OnePlacePerChunk, NotInBoth, InFlight
    <3>4. PendingForItsRoute'
      BY <1>1, <2>6 DEF OnePlacePerChunk, PendingForItsRoute
    <3>5. SomewhereWhileUnderWay'
      BY <1>1, <2>6 DEF OnePlacePerChunk, SomewhereWhileUnderWay, InFlight, Sent
    <3> QED BY <3>1, <3>2, <3>3, <3>4, <3>5 DEF OnePlacePerChunk
  <2> QED BY <1>6, <2>3, <2>4, <2>5, <2>7
<1>8. CASE pending_chunks[l] # <<>>
  <2>1. /\ pending_chunks' = [pending_chunks EXCEPT ![l] = Tail(@)]
        /\ ScheduleTransmission(l, c, e.time, w)
    BY <1>w, <1>c, <1>8 DEF LinkBecomeFree, ProcessPendingTransmission
  <2>2. /\ pending_chunks' \in [Link -> Seq(Chunk)]
        /\ OnePendingPlace'
        /\ c \in Chunk
        /\ IsPending(c, l)
        /\ \A d \in Chunk, m \in Link : IsPending(d, m)' <=> IsPending(d, m) /\ d # c
        /\ \A m \in Link \ {l} : pending_chunks'[m] = pending_chunks[m]
    <3>1. pending_chunks \in [Link -> Seq(Chunk)] /\ OnePendingPlace
      BY DEF TypeOK, OnePlacePerChunk
    <3> QED BY <1>c, <1>8, <2>1, <3>1, AfterPop
  <2>3. At(w, Arrival(c)) = {}
    BY <1>5, <2>2 DEF OnePlacePerChunk, NotInBoth, InFlight
  <2>4. /\ CalendarOKAt(waiting', e.time, issued')
        /\ issued' \in Nat
        /\ busy' \in [Link -> BOOLEAN]
        /\ busy'[l] /\ \A m \in Link \ {l} : busy'[m] = busy[m]
        /\ \A ev : ev # Arrival(c) /\ ev # Free(l) => At(waiting', ev) = At(w, ev)
        /\ IsSingle(At(waiting', Arrival(c)))
        /\ IsSingle(At(waiting', Free(l)))
    <3>1. issued \in Nat /\ busy \in [Link -> BOOLEAN]
      BY DEF TypeOK
    <3> QED BY <1>2, <1>3, <2>1, <2>2, <2>3, <3>1, AfterTransmission
  <2>5. TypeOK' /\ CalendarOK'
    BY <1>1, <1>2, <2>2, <2>4 DEF TypeOK, CalendarOK, CalendarOKAt
  <2>6. BusyUntilFreed'
    <3>1. \A m \in Link \ {l} : At(waiting', Free(m)) = EntriesFor(Free(m))
      BY <1>4, <2>4, EventsDiffer
    <3> QED BY <2>4, <3>1 DEF BusyUntilFreed, At, EntriesFor, IsSingle
  <2>7. PendingOnlyBehindBusy'
    BY <2>2, <2>4 DEF PendingOnlyBehindBusy
  <2>8. \A d \in Chunk \ {c} : At(waiting', Arrival(d)) = EntriesFor(Arrival(d))
    BY <1>5, <2>4, EventsDiffer
  <2>9. OneArrival'
    BY <2>4, <2>8 DEF OnePlacePerChunk, OneArrival, At, EntriesFor, IsSingle
  <2>10. NotInBoth'
    BY <2>2, <2>8 DEF OnePlacePerChunk, NotInBoth, InFlight, At, EntriesFor
  <2>11. PendingForItsRoute'
    BY <1>1, <2>2 DEF OnePlacePerChunk, PendingForItsRoute
  <2>12. SomewhereWhileUnderWay'
    <3> SUFFICES ASSUME NEW d \in Chunk
                 PROVE  ((InFlight(d) \/ \E m \in Link : IsPending(d, m))
                            <=> (Sent(d) /\ invoked[d] = 0))'
      BY DEF SomewhereWhileUnderWay
    <3>1. CASE d = c
      <4>1. Sent(c) /\ invoked[c] = 0
        BY <2>2 DEF OnePlacePerChunk, SomewhereWhileUnderWay
      <4>2. InFlight(c)'
        BY <2>4 DEF InFlight, At, EntriesFor, IsSingle
      <4>3. Sent(c)' /\ invoked'[c] = 0
        BY <1>1, <4>1 DEF Sent
      <4> QED BY <3>1, <4>2, <4>3
    <3>2. CASE d # c
      <4>1. InFlight(d)' <=> InFlight(d)
        BY <2>8, <3>2 DEF InFlight, At, EntriesFor
      <4>2. \A m \in Link : IsPending(d, m)' <=> IsPending(d, m)
        BY <2>2, <3>2
      <4>3. (Sent(d)' <=> Sent(d)) /\ invoked'[d] = invoked[d]
        BY <1>1 DEF Sent
      <4> QED BY <4>1, <4>2, <4>3 DEF OnePlacePerChunk, SomewhereWhileUnderWay
    <3> QED BY <3>1, <3>2
  <2> QED BY <1>6, <2>2, <2>5, <2>6, <2>7, <2>9, <2>10, <2>11, <2>12 DEF OnePlacePerChunk
<1> QED BY <1>7, <1>8

LEMMA InvStep == IInv /\ [Next]_vars => IInv'
<1> SUFFICES ASSUME IInv, [Next]_vars PROVE IInv'
  OBVIOUS
<1>1. ASSUME NEW c \in Chunk, NEW r \in Routes, NEW t \in 0..LastSend, Send(c, r, t)
      PROVE  IInv'
  BY <1>1, SendStep
<1>2. ASSUME NEW e \in waiting, NEW c \in Chunk, ChunkArrivedNextDevice(e, c)
      PROVE  IInv'
  BY <1>2, ArrivalStep
<1>3. ASSUME NEW e \in waiting, NEW l \in Link, LinkBecomeFree(e, l)
      PROVE  IInv'
  BY <1>3, FreeStep
<1>4. ASSUME UNCHANGED vars PROVE IInv'
  <2> USE <1>4 DEF vars
  <2>1. TypeOK' /\ CalendarOK'
    BY DEF IInv, TypeOK, CalendarOK
  <2>2. \A ev : EntriesFor(ev)' = EntriesFor(ev)
    BY DEF EntriesFor
  <2>3. BusyUntilFreed' /\ PendingOnlyBehindBusy' /\ CallbackOnceAtDestination'
    BY <2>2 DEF IInv, BusyUntilFreed, PendingOnlyBehindBusy, CallbackOnceAtDestination
  <2>4. \A c, l : IsPending(c, l)' <=> IsPending(c, l)
    BY DEF IsPending
  <2>5. OneArrival' /\ OnePendingPlace' /\ NotInBoth'
    BY <2>2, <2>4 DEF IInv, OnePlacePerChunk, OneArrival, OnePendingPlace, NotInBoth,
       InFlight
  <2>6. PendingForItsRoute' /\ SomewhereWhileUnderWay'
    BY <2>2, <2>4 DEF IInv, OnePlacePerChunk, PendingForItsRoute,
       SomewhereWhileUnderWay, InFlight, Sent
  <2> QED BY <2>1, <2>3, <2>5, <2>6 DEF IInv, OnePlacePerChunk
<1> QED BY <1>1, <1>2, <1>3, <1>4 DEF Next, RunNextEvent, Handle

LEMMA InvInit == Init => IInv
<1> SUFFICES ASSUME Init PROVE IInv
  OBVIOUS
<1>1. \A ev : EntriesFor(ev) = {}
  BY DEF Init, EntriesFor
<1>2. \A l \in Link : pending_chunks[l] = <<>> /\ Len(pending_chunks[l]) = 0
  BY DEF Init
<1>3. \A c, l : l \in Link => ~IsPending(c, l)
  BY <1>2 DEF IsPending
<1>4. \A c \in Chunk : route[c] = <<>> /\ Len(route[c]) = 0 /\ invoked[c] = 0
  BY DEF Init
<1>5. TypeOK
  <2>1. <<>> \in Seq(Chunk) /\ <<>> \in Seq(Device)
    OBVIOUS
  <2> QED BY <2>1 DEF Init, TypeOK
<1>6. CalendarOK /\ BusyUntilFreed /\ PendingOnlyBehindBusy
  BY <1>1 DEF Init, CalendarOK, BusyUntilFreed, PendingOnlyBehindBusy
<1>7. OnePlacePerChunk
  BY <1>1, <1>2, <1>3, <1>4 DEF OnePlacePerChunk, OneArrival, OnePendingPlace, NotInBoth,
     PendingForItsRoute, SomewhereWhileUnderWay, InFlight, Sent
<1>8. CallbackOnceAtDestination
  <2>1. 1..(0 - 1) = {}
    OBVIOUS
  <2> QED BY <1>4, <2>1 DEF CallbackOnceAtDestination
<1> QED BY <1>5, <1>6, <1>7, <1>8 DEF IInv

THEOREM Invariant == Spec => []IInv
BY InvInit, InvStep, PTL DEF Spec

-----------------------------------------------------------------------------
(* Every state of the network is well typed. *)
THEOREM NetworkTypeCorrect == Spec => []TypeOK
<1>1. IInv => TypeOK
  BY DEF IInv
<1> QED BY <1>1, Invariant, PTL

(* Nothing waits in the past, and no two entries of the queue are alike. *)
THEOREM QueueDiscipline == Spec => []CalendarOK
<1>1. IInv => CalendarOK
  BY DEF IInv
<1> QED BY <1>1, Invariant, PTL

(* Every link is busy exactly while one event that frees it is waiting. *)
THEOREM LinksAreFreed == Spec => []BusyUntilFreed
<1>1. IInv => BusyUntilFreed
  BY DEF IInv
<1> QED BY <1>1, Invariant, PTL

(* Chunks wait for busy links only: no wakeup is lost. *)
THEOREM NoLostWakeup == Spec => []PendingOnlyBehindBusy
<1>1. IInv => PendingOnlyBehindBusy
  BY DEF IInv
<1> QED BY <1>1, Invariant, PTL

(* A chunk under way is in exactly one place: none is lost, none duplicated. *)
THEOREM ChunksAreConserved == Spec => []OnePlacePerChunk
<1>1. IInv => OnePlacePerChunk
  BY DEF IInv
<1> QED BY <1>1, Invariant, PTL

(* A callback is invoked at most once, and at the end of the route. *)
THEOREM CallbacksAreInvokedOnce == Spec => []CallbackOnceAtDestination
<1>1. IInv => CallbackOnceAtDestination
  BY DEF IInv
<1> QED BY <1>1, Invariant, PTL

(* When the event queue is finished, so is the traffic: every chunk sent was *)
(* delivered and every link is free.                                         *)
THEOREM FinishedMeansDelivered == Spec => []NothingStranded
<1>1. IInv => NothingStranded
  <2> SUFFICES ASSUME IInv, waiting = {}
               PROVE  /\ \A c \in Chunk : Sent(c) => invoked[c] = 1
                      /\ \A l \in Link : ~busy[l] /\ pending_chunks[l] = <<>>
    BY DEF NothingStranded
  <2>1. \A ev : EntriesFor(ev) = {}
    BY DEF EntriesFor
  <2>2. \A l \in Link : ~busy[l]
    BY <2>1 DEF IInv, BusyUntilFreed
  <2>3. \A l \in Link : pending_chunks[l] = <<>>
    BY <2>2 DEF IInv, PendingOnlyBehindBusy
  <2>4. \A c, l : l \in Link => ~IsPending(c, l)
    <3>1. Len(<<>>) = 0
      OBVIOUS
    <3> QED BY <2>3, <3>1 DEF IsPending
  <2>5. \A c \in Chunk : Sent(c) => invoked[c] # 0
    BY <2>1, <2>4 DEF IInv, OnePlacePerChunk, SomewhereWhileUnderWay, InFlight
  <2>6. \A c \in Chunk : invoked[c] \in {0, 1}
    BY DEF IInv, CallbackOnceAtDestination
  <2> QED BY <2>2, <2>3, <2>5, <2>6
<1> QED BY <1>1, Invariant, PTL
=============================================================================
