-------------------------- MODULE EventQueueProofs --------------------------
(***************************************************************************)
(* Proofs about EventQueue for every Horizon and MaxEvents: its types, the *)
(* shape of its queue, the direction of its clock, and the step simulation *)
(* by which it implements Calendar.                                        *)
(***************************************************************************)
EXTENDS EventQueue, SequenceTheorems, TLAPS

(* What inserting one element into a sequence gives, position by position. *)
LEMMA InsertAtProperties ==
  ASSUME NEW S, NEW s \in Seq(S), NEW e \in S, NEW p \in 1..(Len(s) + 1)
  PROVE  LET r == SequencesExt!InsertAt(s, p, e)
         IN  /\ r \in Seq(S)
             /\ Len(r) = Len(s) + 1
             /\ \A i \in 1..(Len(s) + 1) :
                   r[i] = IF i < p THEN s[i]
                          ELSE IF i = p THEN e ELSE s[i - 1]
<1> DEFINE before == SubSeq(s, 1, p - 1)
           after == SubSeq(s, p, Len(s))
           front == before \o <<e>>
           r == front \o after
<1>1. /\ before \in Seq(S)
      /\ Len(before) = p - 1
      /\ \A i \in 1..(p - 1) : before[i] = s[i]
  <2>1. \A i \in 1..(p - 1) : s[i] \in S
    BY ElementOfSeq
  <2>2. /\ before \in Seq(S)
        /\ Len(before) = IF 1 <= p - 1 THEN p - 1 - 1 + 1 ELSE 0
        /\ \A i \in 1..(p - 1 - 1 + 1) : before[i] = s[1 + i - 1]
    <3> HIDE DEF before
    <3>1. 1 \in Int /\ p - 1 \in Int
      OBVIOUS
    <3> QED BY <2>1, <3>1, SubSeqProperties DEF before
  <2> QED BY <2>2
<1>2. /\ after \in Seq(S)
      /\ Len(after) = Len(s) - p + 1
      /\ \A i \in 1..(Len(s) - p + 1) : after[i] = s[p + i - 1]
  <2>1. \A i \in p..Len(s) : s[i] \in S
    BY ElementOfSeq
  <2>2. p \in Int /\ Len(s) \in Int
    OBVIOUS
  <2> QED BY <2>1, <2>2, SubSeqProperties
<1>3. <<e>> \in Seq(S) /\ Len(<<e>>) = 1 /\ <<e>>[1] = e
  OBVIOUS
<1> HIDE DEF before, after
<1>4. /\ front \in Seq(S)
      /\ Len(front) = p
      /\ \A i \in 1..p : front[i] = IF i < p THEN s[i] ELSE e
  BY <1>1, <1>3, ConcatProperties
<1> HIDE DEF front
<1>5. /\ r \in Seq(S)
      /\ Len(r) = Len(s) + 1
      /\ \A i \in 1..(Len(s) + 1) :
            r[i] = IF i < p THEN s[i] ELSE IF i = p THEN e ELSE s[i - 1]
  <2>1. /\ r \in Seq(S)
        /\ Len(r) = Len(front) + Len(after)
        /\ \A i \in 1..(Len(front) + Len(after)) :
              r[i] = IF i <= Len(front) THEN front[i] ELSE after[i - Len(front)]
    BY <1>2, <1>4, ConcatProperties
  <2> HIDE DEF r
  <2>2. Len(r) = Len(s) + 1
    BY <1>2, <1>4, <2>1
  <2>3. ASSUME NEW i \in 1..(Len(s) + 1)
        PROVE  r[i] = IF i < p THEN s[i] ELSE IF i = p THEN e ELSE s[i - 1]
    <3>1. CASE i <= p
      BY <1>2, <1>4, <2>1, <3>1
    <3>2. CASE i > p
      <4>1. r[i] = after[i - p]
        BY <1>2, <1>4, <2>1, <3>2
      <4>2. i - p \in 1..(Len(s) - p + 1)
        BY <3>2
      <4>3. after[i - p] = s[p + (i - p) - 1]
        BY <1>2, <4>2
      <4> QED BY <3>2, <4>1, <4>3
    <3> QED BY <3>1, <3>2
  <2> QED BY <2>1, <2>2, <2>3
<1>6. SequencesExt!InsertAt(s, p, e) = r
  BY DEF SequencesExt!InsertAt, before, after, front
<1> QED BY <1>5, <1>6

(* What TypeOK says of the lists of the queue, one by one. *)
LEMMA ListTypes ==
  ASSUME TypeOK
  PROVE  /\ current_time \in Nat
         /\ issued \in Nat
         /\ Len(event_queue) \in Nat
         /\ Len(current_list) \in Nat
         /\ \A a \in 1..Len(current_list) : current_list[a] \in Nat
         /\ \A i \in 1..Len(event_queue) :
               /\ event_queue[i] \in EventList
               /\ event_queue[i].event_time \in Nat
               /\ event_queue[i].events \in Seq(EventId)
               /\ Len(event_queue[i].events) \in Nat
               /\ \A a \in 1..Len(event_queue[i].events) :
                     event_queue[i].events[a] \in Nat
<1>1. \A i \in 1..Len(event_queue) : event_queue[i] \in EventList
  BY ElementOfSeq DEF TypeOK
<1>2. \A i \in 1..Len(event_queue) :
        /\ event_queue[i].event_time \in Nat
        /\ event_queue[i].events \in Seq(EventId)
  BY <1>1 DEF EventList, EventTime
<1>3. \A i \in 1..Len(event_queue) :
        \A a \in 1..Len(event_queue[i].events) : event_queue[i].events[a] \in Nat
  <2> TAKE i \in 1..Len(event_queue)
  <2> TAKE a \in 1..Len(event_queue[i].events)
  <2>1. event_queue[i].events[a] \in EventId
    BY <1>2, ElementOfSeq
  <2> QED BY <2>1 DEF EventId
<1>4. \A a \in 1..Len(current_list) : current_list[a] \in Nat
  <2> TAKE a \in 1..Len(current_list)
  <2>1. current_list[a] \in EventId
    BY ElementOfSeq DEF TypeOK
  <2> QED BY <2>1 DEF EventId
<1>5. \A i \in 1..Len(event_queue) : Len(event_queue[i].events) \in Nat
  BY <1>2, LenProperties
<1> QED BY <1>1, <1>2, <1>3, <1>4, <1>5 DEF TypeOK, EventTime

(* The values ScheduleEvent gives to the queue are values of its type. *)
LEMMA QueueType ==
  ASSUME TypeOK, NEW t \in EventTime, issued < MaxEvents,
         NEW p \in 1..(Len(event_queue) + 1), SearchStopsAt(p, t)
  PROVE  /\ issued + 1 \in EventId
         /\ [event_time |-> t, events |-> <<issued + 1>>] \in EventList
         /\ MustInsert(p, t) =>
               WithNewList(p, t, issued + 1) \in Seq(EventList)
         /\ ~MustInsert(p, t) =>
               /\ p \in 1..Len(event_queue)
               /\ event_queue[p].event_time = t
               /\ WithEventAdded(p, issued + 1) \in Seq(EventList)
               /\ Append(event_queue[p].events, issued + 1) \in Seq(EventId)
<1>1. issued + 1 \in EventId
  BY BoundsAssumption DEF TypeOK, EventId
<1>2. [event_time |-> t, events |-> <<issued + 1>>] \in EventList
  BY <1>1 DEF EventList
<1>3. ASSUME MustInsert(p, t)
      PROVE  WithNewList(p, t, issued + 1) \in Seq(EventList)
  BY <1>2, InsertAtProperties DEF WithNewList, TypeOK
<1>4. ASSUME ~MustInsert(p, t)
      PROVE  /\ p \in 1..Len(event_queue)
             /\ event_queue[p].event_time = t
             /\ WithEventAdded(p, issued + 1) \in Seq(EventList)
             /\ Append(event_queue[p].events, issued + 1) \in Seq(EventId)
  <2>1. p \in 1..Len(event_queue) /\ event_queue[p] \in EventList
    BY <1>4, ElementOfSeq DEF MustInsert, TypeOK
  <2>2. event_queue[p].event_time = t
    BY <1>4, <2>1, BoundsAssumption
       DEF MustInsert, SearchStopsAt, EventList, EventTime, TypeOK
  <2>3. Append(event_queue[p].events, issued + 1) \in Seq(EventId)
    BY <1>1, <2>1 DEF EventList
  <2>4. [event_queue[p] EXCEPT !.events = Append(@, issued + 1)] \in EventList
    BY <2>1, <2>3 DEF EventList
  <2>5. WithEventAdded(p, issued + 1) \in Seq(EventList)
    BY <2>1, <2>4 DEF WithEventAdded, TypeOK
  <2> QED BY <2>1, <2>2, <2>3, <2>5
<1> QED BY <1>1, <1>2, <1>3, <1>4

-----------------------------------------------------------------------------
(* Type correctness: the clock, the lists and their events keep their types *)
(* through schedule_event, proceed and the pops of invoke_events.           *)
LEMMA TypeStep == TypeOK /\ [Next]_vars => TypeOK'
<1> SUFFICES ASSUME TypeOK, [Next]_vars PROVE TypeOK'
  OBVIOUS
<1>1. ASSUME NEW t \in EventTime, ScheduleEvent(t) PROVE TypeOK'
  <2>1. PICK p \in 1..(Len(event_queue) + 1) :
          /\ SearchStopsAt(p, t)
          /\ event_queue' = IF MustInsert(p, t)
                            THEN WithNewList(p, t, issued + 1)
                            ELSE WithEventAdded(p, issued + 1)
    BY <1>1 DEF ScheduleEvent
  <2>2. event_queue' \in Seq(EventList)
    BY <1>1, <2>1, QueueType DEF ScheduleEvent
  <2>3. issued' \in 0..MaxEvents
    BY <1>1, BoundsAssumption DEF ScheduleEvent, TypeOK
  <2> QED BY <1>1, <2>2, <2>3 DEF ScheduleEvent, TypeOK
<1>2. ASSUME Proceed PROVE TypeOK'
  <2>1. event_queue # <<>> /\ event_queue \in Seq(EventList)
    BY <1>2 DEF Proceed, Finished, TypeOK
  <2>2. Head(event_queue) \in EventList /\ Tail(event_queue) \in Seq(EventList)
    BY <2>1, HeadTailProperties
  <2> QED BY <1>2, <2>2 DEF Proceed, TypeOK, EventList
<1>3. ASSUME PopEvent PROVE TypeOK'
  BY <1>3, HeadTailProperties DEF PopEvent, TypeOK
<1>4. ASSUME UNCHANGED vars PROVE TypeOK'
  BY <1>4 DEF vars, TypeOK
<1> QED BY <1>1, <1>2, <1>3, <1>4 DEF Next

(* Every state of every behaviour is well typed (EventQueue.h:55-61). *)
THEOREM TypeCorrect == Spec => []TypeOK
<1>1. Init => TypeOK
  BY BoundsAssumption DEF Init, TypeOK, EventTime
<1> QED BY <1>1, TypeStep, PTL DEF Spec

-----------------------------------------------------------------------------
(* The queue after schedule_event, when it has to insert a new list. *)
LEMMA AfterInsert ==
  ASSUME TypeOK, NEW t \in EventTime, issued < MaxEvents,
         NEW p \in 1..(Len(event_queue) + 1), SearchStopsAt(p, t),
         MustInsert(p, t), TimesIncrease
  PROVE  LET r == WithNewList(p, t, issued + 1)
         IN  /\ Len(r) = Len(event_queue) + 1
             /\ \A i \in 1..(p - 1) :
                   r[i] = event_queue[i] /\ event_queue[i].event_time < t
             /\ r[p] = [event_time |-> t, events |-> <<issued + 1>>]
             /\ \A i \in p..Len(event_queue) :
                   r[i + 1] = event_queue[i] /\ event_queue[i].event_time > t
<1> DEFINE r == WithNewList(p, t, issued + 1)
           new == [event_time |-> t, events |-> <<issued + 1>>]
<1>1. /\ Len(r) = Len(event_queue) + 1
      /\ \A i \in 1..(Len(event_queue) + 1) :
            r[i] = IF i < p THEN event_queue[i]
                   ELSE IF i = p THEN new ELSE event_queue[i - 1]
  <2>1. new \in EventList /\ event_queue \in Seq(EventList)
    BY QueueType DEF TypeOK
  <2> HIDE DEF new
  <2> DEFINE ins == SequencesExt!InsertAt(event_queue, p, new)
  <2>2. /\ Len(ins) = Len(event_queue) + 1
        /\ \A i \in 1..(Len(event_queue) + 1) :
              ins[i] = IF i < p THEN event_queue[i]
                       ELSE IF i = p THEN new ELSE event_queue[i - 1]
    BY <2>1, InsertAtProperties, SMTT(60)
  <2>3. r = ins
    BY DEF WithNewList, new
  <2> QED BY <2>2, <2>3
<1> HIDE DEF r
<1>2. Len(event_queue) \in Nat
  BY DEF TypeOK
<1>3. \A i \in 1..(p - 1) : r[i] = event_queue[i] /\ event_queue[i].event_time < t
  BY <1>1, <1>2 DEF SearchStopsAt
<1>4. \A i \in p..Len(event_queue) : r[i + 1] = event_queue[i]
  BY <1>1, <1>2
<1>5. \A i \in p..Len(event_queue) : event_queue[i].event_time > t
  <2> TAKE i \in p..Len(event_queue)
  <2>1. /\ event_queue[p].event_time \in Nat /\ event_queue[i].event_time \in Nat
        /\ t \in Nat
    BY <1>2, ListTypes DEF EventTime
  <2>2. event_queue[p].event_time > t
    BY <1>2, <2>1 DEF MustInsert
  <2>3. i = p \/ event_queue[p].event_time < event_queue[i].event_time
    BY <1>2 DEF TimesIncrease
  <2> QED BY <2>1, <2>2, <2>3
<1>6. r[p] = new
  BY <1>1, <1>2
<1> QED BY <1>1, <1>3, <1>4, <1>5, <1>6 DEF r, new

(* The queue after schedule_event, when a list of that time exists. *)
LEMMA AfterAdd ==
  ASSUME TypeOK, NEW t \in EventTime, issued < MaxEvents,
         NEW p \in 1..(Len(event_queue) + 1), SearchStopsAt(p, t),
         ~MustInsert(p, t)
  PROVE  LET r == WithEventAdded(p, issued + 1)
         IN  /\ p \in 1..Len(event_queue)
             /\ event_queue[p].event_time = t
             /\ Len(r) = Len(event_queue)
             /\ \A i \in 1..Len(event_queue) :
                   /\ r[i].event_time = event_queue[i].event_time
                   /\ i # p => r[i].events = event_queue[i].events
             /\ r[p].events = Append(event_queue[p].events, issued + 1)
<1>1. p \in 1..Len(event_queue) /\ event_queue[p].event_time = t
  BY QueueType
<1>2. \A i \in 1..Len(event_queue) : event_queue[i] \in EventList
  BY ElementOfSeq DEF TypeOK
<1>3. event_queue \in [1..Len(event_queue) -> EventList]
  BY LenProperties DEF TypeOK
<1>4. Len(event_queue) \in Nat
  BY DEF TypeOK
<1> DEFINE r == WithEventAdded(p, issued + 1)
<1>5. r = [event_queue EXCEPT ![p] = [event_queue[p] EXCEPT !.events = Append(@, issued + 1)]]
  BY DEF WithEventAdded
<1>6. Len(r) = Len(event_queue)
  BY <1>3, <1>4, <1>5, QueueType DEF WithEventAdded
<1>7. /\ \A i \in 1..Len(event_queue) : i # p => r[i] = event_queue[i]
      /\ r[p].event_time = event_queue[p].event_time
      /\ r[p].events = Append(event_queue[p].events, issued + 1)
  BY <1>1, <1>2, <1>3 DEF WithEventAdded, EventList
<1> QED BY <1>1, <1>6, <1>7

-----------------------------------------------------------------------------
(* schedule_event keeps the queue well formed. *)
LEMMA ScheduleKeepsShape ==
  ASSUME TypeOK, QueueWellFormed, NEW t \in EventTime, ScheduleEvent(t)
  PROVE  QueueWellFormed'
<1>1. PICK p \in 1..(Len(event_queue) + 1) :
        /\ SearchStopsAt(p, t)
        /\ event_queue' = IF MustInsert(p, t)
                          THEN WithNewList(p, t, issued + 1)
                          ELSE WithEventAdded(p, issued + 1)
  BY DEF ScheduleEvent
<1>2. /\ issued < MaxEvents /\ t >= current_time /\ issued' = issued + 1
      /\ UNCHANGED <<current_time, current_list>>
  BY DEF ScheduleEvent
<1>t. t \in Nat
  BY DEF EventTime
<1>3. CASE MustInsert(p, t)
  <2>1. /\ Len(event_queue') = Len(event_queue) + 1
        /\ \A i \in 1..(p - 1) : event_queue'[i] = event_queue[i]
                                 /\ event_queue[i].event_time < t
        /\ event_queue'[p] = [event_time |-> t, events |-> <<issued + 1>>]
        /\ \A i \in p..Len(event_queue) : event_queue'[i + 1] = event_queue[i]
                                 /\ event_queue[i].event_time > t
    BY <1>1, <1>2, <1>3, AfterInsert DEF QueueWellFormed
  <2>2. \A j \in 1..Len(event_queue') :
           \/ j \in 1..(p - 1) /\ j \in 1..Len(event_queue)
           \/ j = p
           \/ j - 1 \in p..Len(event_queue) /\ j - 1 \in 1..Len(event_queue)
    BY <2>1, ListTypes
  <2>3. \A j \in 1..Len(event_queue') :
           \/ j < p /\ event_queue'[j] = event_queue[j]
           \/ j = p
           \/ j > p /\ event_queue'[j] = event_queue[j - 1]
    BY <2>1, <2>2, ListTypes
  <2>c. \A j \in 1..Len(event_queue') :
           j # p => \E i \in 1..Len(event_queue) : event_queue'[j] = event_queue[i]
    BY <2>2, <2>3, ListTypes
  <2>4. event_queue'[p].event_time = t /\ event_queue'[p].events = <<issued + 1>>
    BY <2>1
  <2>5. TimesIncrease'
    <3> SUFFICES ASSUME NEW i \in 1..Len(event_queue'),
                        NEW j \in 1..Len(event_queue'), i < j
                 PROVE  event_queue'[i].event_time < event_queue'[j].event_time
      BY DEF TimesIncrease
    <3>1. CASE i < p /\ j < p
      BY <2>1, <2>2, <3>1 DEF QueueWellFormed, TimesIncrease
    <3>2. CASE i < p /\ j = p
      BY <2>1, <2>2, <2>4, <3>2
    <3>3. CASE i < p /\ j > p
      <4>1. /\ event_queue'[i].event_time < t
            /\ t < event_queue'[j].event_time
            /\ event_queue'[i].event_time \in Nat
            /\ event_queue'[j].event_time \in Nat
        <5>1. event_queue'[i] = event_queue[i] /\ i \in 1..(p - 1)
              /\ i \in 1..Len(event_queue)
          BY <2>2, <2>3, <3>3, ListTypes
        <5>2. event_queue'[j] = event_queue[j - 1] /\ j - 1 \in p..Len(event_queue)
              /\ j - 1 \in 1..Len(event_queue)
          BY <2>2, <2>3, <3>3, ListTypes
        <5> QED BY <2>1, <5>1, <5>2, <1>t, ListTypes
      <4> QED BY <4>1, <1>t
    <3>4. CASE i = p
      <4>1. event_queue'[j] = event_queue[j - 1] /\ j - 1 \in p..Len(event_queue)
        BY <2>2, <2>3, <3>4
      <4> QED BY <2>1, <2>4, <3>4, <4>1, <1>t, ListTypes
    <3>5. CASE i > p
      <4>1. /\ event_queue'[i] = event_queue[i - 1] /\ i - 1 \in 1..Len(event_queue)
            /\ event_queue'[j] = event_queue[j - 1] /\ j - 1 \in 1..Len(event_queue)
            /\ i - 1 < j - 1
        BY <2>2, <2>3, <3>5, ListTypes
      <4> QED BY <4>1 DEF QueueWellFormed, TimesIncrease
    <3> QED BY <3>1, <3>2, <3>3, <3>4, <3>5, ListTypes
  <2>6. NoEmptyList'
    <3> SUFFICES ASSUME NEW j \in 1..Len(event_queue')
                 PROVE  event_queue'[j].events # <<>>
      BY DEF NoEmptyList
    <3>1. CASE j = p
      <4>1. <<issued + 1>> # <<>>
        OBVIOUS
      <4> QED BY <2>4, <3>1, <4>1
    <3>2. CASE j # p
      BY <2>c, <3>2 DEF QueueWellFormed, NoEmptyList
    <3> QED BY <3>1, <3>2
  <2>7. NothingInThePast'
    <3> SUFFICES ASSUME NEW j \in 1..Len(event_queue')
                 PROVE  event_queue'[j].event_time >= current_time
      BY <1>2 DEF NothingInThePast
    <3>1. CASE j = p
      BY <1>2, <2>4, <3>1
    <3>2. CASE j # p
      <4>1. PICK i \in 1..Len(event_queue) : event_queue'[j] = event_queue[i]
        BY <2>c, <3>2
      <4>2. event_queue[i].event_time >= current_time
        BY DEF QueueWellFormed, NothingInThePast
      <4> QED BY <4>1, <4>2
    <3> QED BY <3>1, <3>2
  <2>8. ListsAreFifo'
    <3>1. ASSUME NEW j \in 1..Len(event_queue')
          PROVE  /\ InScheduleOrder(event_queue'[j].events)
                 /\ \A a \in 1..Len(event_queue'[j].events) :
                       event_queue'[j].events[a] <= issued + 1
      <4>1. CASE j = p
        <5>1. Len(<<issued + 1>>) = 1 /\ <<issued + 1>>[1] = issued + 1
          OBVIOUS
        <5>2. InScheduleOrder(<<issued + 1>>)
          BY <5>1 DEF InScheduleOrder
        <5>3. \A a \in 1..Len(<<issued + 1>>) : <<issued + 1>>[a] <= issued + 1
          BY <5>1, ListTypes
        <5> QED BY <2>4, <4>1, <5>2, <5>3
      <4>2. ASSUME NEW i \in 1..Len(event_queue), event_queue'[j] = event_queue[i]
            PROVE  /\ InScheduleOrder(event_queue'[j].events)
                   /\ \A a \in 1..Len(event_queue'[j].events) :
                         event_queue'[j].events[a] <= issued + 1
        <5>1. InScheduleOrder(event_queue[i].events)
          BY DEF QueueWellFormed, ListsAreFifo
        <5>2. ASSUME NEW a \in 1..Len(event_queue[i].events)
              PROVE  event_queue[i].events[a] <= issued + 1
          <6>1. event_queue[i].events[a] <= issued
            BY DEF QueueWellFormed, ListsAreFifo
          <6>2. event_queue[i].events[a] \in Nat /\ issued \in Nat
            BY ListTypes
          <6> QED BY <6>1, <6>2
        <5> QED BY <4>2, <5>1, <5>2
      <4>3. CASE j # p
        <5>1. PICK i \in 1..Len(event_queue) : event_queue'[j] = event_queue[i]
          BY <2>c, <4>3
        <5> QED BY <4>2, <5>1
      <4> QED BY <4>1, <4>3
    <3>2. /\ InScheduleOrder(current_list)
          /\ \A a \in 1..Len(current_list) : current_list[a] <= issued + 1
      BY ListTypes DEF QueueWellFormed, ListsAreFifo
    <3> QED BY <1>2, <3>1, <3>2 DEF ListsAreFifo, InScheduleOrder
  <2>9. LateListComesAfter'
    <3> SUFFICES ASSUME NEW j \in 1..Len(event_queue'),
                        event_queue'[j].event_time = current_time,
                        NEW a \in 1..Len(current_list),
                        NEW b \in 1..Len(event_queue'[j].events)
                 PROVE  current_list[a] < event_queue'[j].events[b]
      BY <1>2 DEF LateListComesAfter
    <3>1. CASE j = p
      <4>1. current_list[a] <= issued /\ event_queue'[j].events[b] = issued + 1
        BY <2>4, <3>1 DEF QueueWellFormed, ListsAreFifo
      <4> QED BY <4>1, ListTypes
    <3>2. CASE j # p
      BY <2>c, <3>2 DEF QueueWellFormed, LateListComesAfter
    <3> QED BY <3>1, <3>2
  <2> QED BY <2>5, <2>6, <2>7, <2>8, <2>9 DEF QueueWellFormed
<1>4. CASE ~MustInsert(p, t)
  <2>1. /\ p \in 1..Len(event_queue)
        /\ event_queue[p].event_time = t
        /\ Len(event_queue') = Len(event_queue)
        /\ \A i \in 1..Len(event_queue) :
              /\ event_queue'[i].event_time = event_queue[i].event_time
              /\ i # p => event_queue'[i].events = event_queue[i].events
        /\ event_queue'[p].events = Append(event_queue[p].events, issued + 1)
    BY <1>1, <1>2, <1>4, AfterAdd
  <2> DEFINE old == event_queue[p].events
  <2>2. /\ Len(event_queue'[p].events) = Len(old) + 1
        /\ \A a \in 1..Len(old) : event_queue'[p].events[a] = old[a]
        /\ event_queue'[p].events[Len(old) + 1] = issued + 1
        /\ event_queue'[p].events # <<>>
    <3>1. old \in Seq(EventId) /\ issued + 1 \in EventId
      BY <1>1, <1>2, <2>1, ListTypes, QueueType
    <3> QED BY <2>1, <3>1, AppendProperties
  <2>3. TimesIncrease' /\ NothingInThePast'
    BY <1>2, <2>1 DEF QueueWellFormed, TimesIncrease, NothingInThePast
  <2>4. NoEmptyList'
    BY <2>1, <2>2 DEF QueueWellFormed, NoEmptyList
  <2>5. ListsAreFifo'
    <3>1. ASSUME NEW i \in 1..Len(event_queue)
          PROVE  /\ InScheduleOrder(event_queue'[i].events)
                 /\ \A a \in 1..Len(event_queue'[i].events) :
                       event_queue'[i].events[a] <= issued + 1
      <4>1. /\ InScheduleOrder(event_queue[i].events)
            /\ \A a \in 1..Len(event_queue[i].events) : event_queue[i].events[a] <= issued
        BY DEF QueueWellFormed, ListsAreFifo
      <4>2. CASE i # p
        <5>1. event_queue'[i].events = event_queue[i].events
          BY <2>1, <4>2
        <5>2. \A a \in 1..Len(event_queue[i].events) :
                 event_queue[i].events[a] <= issued + 1
          BY <4>1, ListTypes
        <5> QED BY <4>1, <5>1, <5>2
      <4>3. CASE i = p
        <5>1. \A a \in 1..Len(old) : old[a] < issued + 1 /\ old[a] \in Nat
          BY <4>1, <4>3, ListTypes
        <5>2. Len(old) \in Nat /\ issued \in Nat
          BY <2>1, ListTypes
        <5>3. \A a \in 1..(Len(old) + 1) : event_queue'[p].events[a] <= issued + 1
          <6> TAKE a \in 1..(Len(old) + 1)
          <6>1. CASE a = Len(old) + 1
            BY <2>2, <5>2, <6>1
          <6>2. CASE a # Len(old) + 1
            <7>1. a \in 1..Len(old)
              BY <5>2, <6>2
            <7>2. event_queue'[p].events[a] = old[a]
              BY <2>2, <7>1
            <7>3. old[a] < issued + 1 /\ old[a] \in Nat
              BY <5>1, <7>1
            <7> QED BY <5>2, <7>2, <7>3
          <6> QED BY <6>1, <6>2
        <5>4. InScheduleOrder(event_queue'[p].events)
          <6> SUFFICES ASSUME NEW a \in 1..(Len(old) + 1),
                              NEW b \in 1..(Len(old) + 1), a < b
                       PROVE  event_queue'[p].events[a] < event_queue'[p].events[b]
            BY <2>2 DEF InScheduleOrder
          <6>1. a \in 1..Len(old)
            BY <5>2
          <6>2. CASE b = Len(old) + 1
            BY <2>2, <5>1, <6>1, <6>2
          <6>3. CASE b # Len(old) + 1
            <7>1. b \in 1..Len(old)
              BY <5>2, <6>3
            <7>2. old[a] < old[b]
              BY <4>1, <4>3, <6>1, <7>1 DEF InScheduleOrder
            <7> QED BY <2>2, <6>1, <7>1, <7>2
          <6> QED BY <6>2, <6>3
        <5> QED BY <2>2, <4>3, <5>3, <5>4
      <4> QED BY <4>2, <4>3
    <3>2. /\ InScheduleOrder(current_list)
          /\ \A a \in 1..Len(current_list) : current_list[a] <= issued + 1
      BY ListTypes DEF QueueWellFormed, ListsAreFifo
    <3> QED BY <1>2, <2>1, <3>1, <3>2 DEF ListsAreFifo, InScheduleOrder
  <2>6. LateListComesAfter'
    <3> SUFFICES ASSUME NEW i \in 1..Len(event_queue),
                        event_queue[i].event_time = current_time,
                        NEW a \in 1..Len(current_list),
                        NEW b \in 1..Len(event_queue'[i].events)
                 PROVE  current_list[a] < event_queue'[i].events[b]
      BY <1>2, <2>1 DEF LateListComesAfter
    <3>1. CASE i # p
      BY <2>1, <3>1 DEF QueueWellFormed, LateListComesAfter
    <3>2. CASE i = p /\ b \in 1..Len(old)
      BY <2>2, <3>2 DEF QueueWellFormed, LateListComesAfter
    <3>3. CASE i = p /\ b = Len(old) + 1
      <4>1. current_list[a] <= issued /\ event_queue'[i].events[b] = issued + 1
        BY <2>2, <3>3 DEF QueueWellFormed, ListsAreFifo
      <4> QED BY <4>1, ListTypes
    <3>4. Len(old) \in Nat
      BY <2>1, ListTypes
    <3> QED BY <2>2, <3>1, <3>2, <3>3, <3>4
  <2> QED BY <2>3, <2>4, <2>5, <2>6 DEF QueueWellFormed
<1> QED BY <1>3, <1>4

(* What proceed() takes out, and what it leaves. *)
LEMMA AfterProceed ==
  ASSUME TypeOK, QueueWellFormed, Proceed
  PROVE  /\ current_list = <<>>
         /\ 1 \in 1..Len(event_queue)
         /\ current_time' = event_queue[1].event_time
         /\ current_list' = event_queue[1].events
         /\ current_list' # <<>>
         /\ current_list' \in Seq(EventId)
         /\ Len(event_queue') = Len(event_queue) - 1
         /\ \A i \in 1..Len(event_queue') :
               /\ i + 1 \in 1..Len(event_queue)
               /\ event_queue'[i] = event_queue[i + 1]
               /\ event_queue[1].event_time < event_queue[i + 1].event_time
         /\ issued' = issued
<1>1. event_queue # <<>> /\ event_queue \in Seq(EventList)
  BY DEF Proceed, Finished, TypeOK
<1>2. /\ Len(event_queue') = Len(event_queue) - 1
      /\ \A i \in 1..Len(event_queue') : event_queue'[i] = event_queue[i + 1]
  BY <1>1, HeadTailProperties DEF Proceed
<1>3. Len(event_queue) \in Nat \ {0}
  BY <1>1, EmptySeq
<1>4. Head(event_queue) = event_queue[1]
  BY <1>1
<1>5. \A i \in 1..Len(event_queue') :
         /\ i + 1 \in 1..Len(event_queue)
         /\ event_queue[1].event_time < event_queue[i + 1].event_time
  BY <1>2, <1>3 DEF QueueWellFormed, TimesIncrease
<1>6. event_queue[1].events # <<>> /\ event_queue[1].events \in Seq(EventId)
  BY <1>3, ListTypes DEF QueueWellFormed, NoEmptyList
<1> QED BY <1>2, <1>3, <1>4, <1>5, <1>6 DEF Proceed

(* proceed() keeps the queue well formed. *)
LEMMA ProceedKeepsShape ==
  ASSUME TypeOK, QueueWellFormed, Proceed
  PROVE  QueueWellFormed'
<1>1. TimesIncrease'
  <2> SUFFICES ASSUME NEW i \in 1..Len(event_queue'),
                      NEW j \in 1..Len(event_queue'), i < j
               PROVE  event_queue'[i].event_time < event_queue'[j].event_time
    BY DEF TimesIncrease
  <2>1. i + 1 < j + 1
    OBVIOUS
  <2> QED BY <2>1, AfterProceed DEF QueueWellFormed, TimesIncrease
<1>2. NoEmptyList'
  BY AfterProceed DEF QueueWellFormed, NoEmptyList
<1>3. NothingInThePast'
  <2> SUFFICES ASSUME NEW i \in 1..Len(event_queue')
               PROVE  event_queue'[i].event_time >= current_time'
    BY DEF NothingInThePast
  <2> QED BY AfterProceed, ListTypes
<1>4. ListsAreFifo'
  <2>1. ASSUME NEW i \in 1..Len(event_queue')
        PROVE  /\ InScheduleOrder(event_queue'[i].events)
               /\ \A a \in 1..Len(event_queue'[i].events) :
                     event_queue'[i].events[a] <= issued
    BY AfterProceed DEF QueueWellFormed, ListsAreFifo
  <2>2. /\ InScheduleOrder(event_queue[1].events)
        /\ \A a \in 1..Len(event_queue[1].events) : event_queue[1].events[a] <= issued
    BY AfterProceed DEF QueueWellFormed, ListsAreFifo
  <2> QED BY <2>1, <2>2, AfterProceed DEF ListsAreFifo, InScheduleOrder
<1>5. LateListComesAfter'
  <2> SUFFICES ASSUME NEW i \in 1..Len(event_queue'),
                      event_queue'[i].event_time = current_time'
               PROVE  FALSE
    BY DEF LateListComesAfter
  <2> QED BY AfterProceed, ListTypes
<1> QED BY <1>1, <1>2, <1>3, <1>4, <1>5 DEF QueueWellFormed

(* A turn of the loop of invoke_events keeps the queue well formed. *)
LEMMA PopKeepsShape ==
  ASSUME TypeOK, QueueWellFormed, PopEvent
  PROVE  QueueWellFormed'
<1>1. /\ Len(current_list') = Len(current_list) - 1
      /\ \A a \in 1..Len(current_list') : current_list'[a] = current_list[a + 1]
      /\ UNCHANGED <<current_time, event_queue, issued>>
  BY HeadTailProperties DEF PopEvent, TypeOK
<1>2. \A a \in 1..Len(current_list') : a + 1 \in 1..Len(current_list)
  BY <1>1, ListTypes
<1>3. TimesIncrease' /\ NoEmptyList' /\ NothingInThePast'
  BY <1>1 DEF QueueWellFormed, TimesIncrease, NoEmptyList, NothingInThePast
<1>4. ListsAreFifo'
  <2>1. InScheduleOrder(current_list')
    <3> SUFFICES ASSUME NEW a \in 1..Len(current_list'),
                        NEW b \in 1..Len(current_list'), a < b
                 PROVE  current_list'[a] < current_list'[b]
      BY DEF InScheduleOrder
    <3>1. a + 1 < b + 1
      OBVIOUS
    <3> QED BY <1>1, <1>2, <3>1 DEF QueueWellFormed, ListsAreFifo, InScheduleOrder
  <2>2. \A a \in 1..Len(current_list') : current_list'[a] <= issued
    BY <1>1, <1>2 DEF QueueWellFormed, ListsAreFifo
  <2> QED BY <1>1, <2>1, <2>2 DEF QueueWellFormed, ListsAreFifo, InScheduleOrder
<1>5. LateListComesAfter'
  BY <1>1, <1>2 DEF QueueWellFormed, LateListComesAfter
<1> QED BY <1>3, <1>4, <1>5 DEF QueueWellFormed

LEMMA ShapeStep == TypeOK /\ QueueWellFormed /\ [Next]_vars => QueueWellFormed'
<1> SUFFICES ASSUME TypeOK, QueueWellFormed, [Next]_vars PROVE QueueWellFormed'
  OBVIOUS
<1>1. ASSUME NEW t \in EventTime, ScheduleEvent(t) PROVE QueueWellFormed'
  BY <1>1, ScheduleKeepsShape
<1>2. ASSUME Proceed PROVE QueueWellFormed'
  BY <1>2, ProceedKeepsShape
<1>3. ASSUME PopEvent PROVE QueueWellFormed'
  BY <1>3, PopKeepsShape
<1>4. ASSUME UNCHANGED vars PROVE QueueWellFormed'
  BY <1>4 DEF vars, QueueWellFormed, TimesIncrease, NoEmptyList, NothingInThePast,
              ListsAreFifo, InScheduleOrder, LateListComesAfter
<1> QED BY <1>1, <1>2, <1>3, <1>4 DEF Next

(* The queue has the shape its search and its pop rely on, in every state:  *)
(* one list per time, in increasing order, none empty, none in the past,    *)
(* each a FIFO.                                                             *)
THEOREM QueueStaysWellFormed == Spec => []QueueWellFormed
<1>1. Init => QueueWellFormed
  BY DEF Init, QueueWellFormed, TimesIncrease, NoEmptyList, NothingInThePast,
         ListsAreFifo, InScheduleOrder, LateListComesAfter
<1> QED BY <1>1, ShapeStep, TypeCorrect, PTL DEF Spec

-----------------------------------------------------------------------------
(* Membership in the entries of the abstract state. *)
LEMMA EntriesOf ==
  /\ \A f : f \in QueueEntries <=>
        \E i \in 1..Len(event_queue) : \E a \in 1..Len(event_queue[i].events) :
           f = [id |-> event_queue[i].events[a], time |-> event_queue[i].event_time]
  /\ \A f : f \in ListEntries <=>
        \E a \in 2..Len(current_list) :
           f = [id |-> current_list[a], time |-> current_time]
BY DEF QueueEntries, ListEntries

(* The clock never goes back, and leaves no entry behind when it moves. *)
THEOREM ClockIsMonotonic == Spec => ClockMovesForward
<1> DEFINE Forward ==
      /\ current_time' >= current_time
      /\ current_time' # current_time =>
           /\ current_list = <<>>
           /\ \A e \in WaitingEntries : e.time >= current_time'
<1>1. TypeOK /\ QueueWellFormed /\ [Next]_vars => [Forward]_vars
  <2> SUFFICES ASSUME TypeOK, QueueWellFormed, Next PROVE Forward
    OBVIOUS
  <2>1. ASSUME current_time' = current_time PROVE Forward
    BY <2>1, ListTypes
  <2>2. ASSUME Proceed PROVE Forward
    <3>1. current_time' >= current_time
      BY <2>2, AfterProceed DEF QueueWellFormed, NothingInThePast
    <3>2. ListEntries = {}
      <4>1. Len(current_list) = 0
        BY <2>2, AfterProceed
      <4> QED BY <4>1, EntriesOf
    <3>3. \A e \in QueueEntries : e.time >= current_time'
      <4> SUFFICES ASSUME NEW i \in 1..Len(event_queue)
                   PROVE  event_queue[i].event_time >= event_queue[1].event_time
        BY <2>2, AfterProceed, EntriesOf
      <4> QED BY <2>2, AfterProceed, ListTypes DEF QueueWellFormed, TimesIncrease
    <3> QED BY <2>2, <3>1, <3>2, <3>3, AfterProceed DEF WaitingEntries
  <2>3. ASSUME NEW t \in EventTime, ScheduleEvent(t)
        PROVE  current_time' = current_time
    BY <2>3 DEF ScheduleEvent
  <2>4. ASSUME PopEvent PROVE current_time' = current_time
    BY <2>4 DEF PopEvent
  <2> QED BY <2>1, <2>2, <2>3, <2>4 DEF Next
<1> QED BY <1>1, TypeCorrect, QueueStaysWellFormed, PTL
         DEF Spec, ClockMovesForward, Forward

-----------------------------------------------------------------------------
(* An entry that precedes all the others is the next one to run. *)
LEMMA FirstIsNext ==
  ASSUME NEW W, NEW rest, NEW e, W = rest \cup {e},
         e.time \in Nat, e.id \in Nat, \A f \in rest : Precedes(e, f)
  PROVE  IsNext(e, W) /\ rest = W \ {e}
<1>1. e \notin rest
  BY DEF Precedes
<1> QED BY <1>1 DEF IsNext

(* schedule_event is the calendar's Schedule. *)
LEMMA ScheduleRefines ==
  ASSUME TypeOK, QueueWellFormed, NEW t \in EventTime, ScheduleEvent(t)
  PROVE  Promise!Schedule(t)
<1> DEFINE new == [id |-> issued + 1, time |-> t]
<1>1. PICK p \in 1..(Len(event_queue) + 1) :
        /\ SearchStopsAt(p, t)
        /\ event_queue' = IF MustInsert(p, t)
                          THEN WithNewList(p, t, issued + 1)
                          ELSE WithEventAdded(p, issued + 1)
  BY DEF ScheduleEvent
<1>2. /\ issued < MaxEvents /\ t >= current_time /\ issued' = issued + 1
      /\ UNCHANGED <<current_time, current_list>>
  BY DEF ScheduleEvent
<1>3. QueueEntries' = QueueEntries \cup {new}
  <2>1. CASE MustInsert(p, t)
    <3>1. /\ Len(event_queue') = Len(event_queue) + 1
          /\ \A i \in 1..(p - 1) : event_queue'[i] = event_queue[i]
          /\ event_queue'[p] = [event_time |-> t, events |-> <<issued + 1>>]
          /\ \A i \in p..Len(event_queue) : event_queue'[i + 1] = event_queue[i]
      BY <1>1, <1>2, <2>1, AfterInsert DEF QueueWellFormed
    <3>2. \A j \in 1..Len(event_queue') : j # p =>
             \E i \in 1..Len(event_queue) : event_queue'[j] = event_queue[i]
      <4> SUFFICES ASSUME NEW j \in 1..Len(event_queue'), j # p
                   PROVE  \E i \in 1..Len(event_queue) : event_queue'[j] = event_queue[i]
        OBVIOUS
      <4>1. CASE j < p
        <5>1. j \in 1..(p - 1) /\ j \in 1..Len(event_queue)
          BY <3>1, <4>1, ListTypes
        <5> QED BY <3>1, <5>1
      <4>2. CASE j > p
        <5>1. j - 1 \in p..Len(event_queue) /\ j - 1 \in 1..Len(event_queue)
              /\ (j - 1) + 1 = j
          BY <3>1, <4>2, ListTypes
        <5> QED BY <3>1, <5>1
      <4> QED BY <4>1, <4>2
    <3>3. \A i \in 1..Len(event_queue) :
             \E j \in 1..Len(event_queue') : event_queue'[j] = event_queue[i]
      <4> SUFFICES ASSUME NEW i \in 1..Len(event_queue)
                   PROVE  \E j \in 1..Len(event_queue') : event_queue'[j] = event_queue[i]
        OBVIOUS
      <4>1. CASE i < p
        <5>1. i \in 1..(p - 1) /\ i \in 1..Len(event_queue')
          BY <3>1, <4>1, ListTypes
        <5> QED BY <3>1, <5>1
      <4>2. CASE i >= p
        <5>1. i \in p..Len(event_queue) /\ i + 1 \in 1..Len(event_queue')
          BY <3>1, <4>2, ListTypes
        <5> QED BY <3>1, <5>1
      <4> QED BY <4>1, <4>2
    <3>4. p \in 1..Len(event_queue')
      BY <3>1, ListTypes
    <3>5. \A f : f \in QueueEntries' <=>
            \E i \in 1..Len(event_queue') : \E a \in 1..Len(event_queue'[i].events) :
               f = [id |-> event_queue'[i].events[a], time |-> event_queue'[i].event_time]
      BY DEF QueueEntries
    <3>6. \A a : a \in 1..Len(event_queue'[p].events) <=> a = 1
      BY <3>1
    <3>7. /\ event_queue'[p].events[1] = issued + 1
          /\ event_queue'[p].event_time = t
      BY <3>1
    <3>8. new \in QueueEntries'
      <4>1. new = [id |-> event_queue'[p].events[1], time |-> event_queue'[p].event_time]
        BY <3>7
      <4>2. 1 \in 1..Len(event_queue'[p].events)
        BY <3>6
      <4> QED BY <3>4, <3>5, <4>1, <4>2
    <3>9. QueueEntries \subseteq QueueEntries'
      BY <3>3, <3>5, EntriesOf
    <3>10. ASSUME NEW f \in QueueEntries' PROVE f \in QueueEntries \cup {new}
      <4>p. PICK j \in 1..Len(event_queue') : \E a \in 1..Len(event_queue'[j].events) :
              f = [id |-> event_queue'[j].events[a], time |-> event_queue'[j].event_time]
        BY <3>5, <3>10
      <4>1. PICK a \in 1..Len(event_queue'[j].events) :
              f = [id |-> event_queue'[j].events[a], time |-> event_queue'[j].event_time]
        BY <4>p
      <4>2. CASE j = p
        BY <3>6, <3>7, <4>1, <4>2
      <4>3. CASE j # p
        BY <3>2, <4>1, <4>3, EntriesOf
      <4> QED BY <4>2, <4>3
    <3> QED BY <3>8, <3>9, <3>10
  <2>2. CASE ~MustInsert(p, t)
    <3>1. /\ p \in 1..Len(event_queue)
          /\ event_queue[p].event_time = t
          /\ Len(event_queue') = Len(event_queue)
          /\ \A i \in 1..Len(event_queue) :
                /\ event_queue'[i].event_time = event_queue[i].event_time
                /\ i # p => event_queue'[i].events = event_queue[i].events
          /\ event_queue'[p].events = Append(event_queue[p].events, issued + 1)
      BY <1>1, <1>2, <2>2, AfterAdd
    <3> DEFINE old == event_queue[p].events
    <3>2. /\ Len(event_queue'[p].events) = Len(old) + 1
          /\ \A a \in 1..Len(old) : event_queue'[p].events[a] = old[a]
          /\ event_queue'[p].events[Len(old) + 1] = issued + 1
          /\ Len(old) \in Nat
      <4>1. old \in Seq(EventId) /\ issued + 1 \in EventId /\ Len(old) \in Nat
        BY <1>1, <1>2, <3>1, ListTypes, QueueType
      <4> QED BY <3>1, <4>1, AppendProperties
    <3>3. \A f : f \in QueueEntries' <=>
            \E i \in 1..Len(event_queue) : \E a \in 1..Len(event_queue'[i].events) :
               f = [id |-> event_queue'[i].events[a], time |-> event_queue[i].event_time]
      <4>1. \A f : f \in QueueEntries' <=>
              \E i \in 1..Len(event_queue') : \E a \in 1..Len(event_queue'[i].events) :
                 f = [id |-> event_queue'[i].events[a],
                      time |-> event_queue'[i].event_time]
        BY DEF QueueEntries
      <4> QED BY <3>1, <4>1, SMTT(30)
    <3>4. new \in QueueEntries'
      <4>1. Len(old) + 1 \in 1..Len(event_queue'[p].events)
        BY <3>2
      <4> QED BY <3>1, <3>2, <3>3, <4>1
    <3>5. ASSUME NEW f \in QueueEntries PROVE f \in QueueEntries'
      <4>p. PICK i \in 1..Len(event_queue) : \E a \in 1..Len(event_queue[i].events) :
              f = [id |-> event_queue[i].events[a], time |-> event_queue[i].event_time]
        BY <3>5, EntriesOf
      <4>1. PICK a \in 1..Len(event_queue[i].events) :
              f = [id |-> event_queue[i].events[a], time |-> event_queue[i].event_time]
        BY <4>p
      <4>2. CASE i # p
        BY <3>1, <3>3, <4>1, <4>2
      <4>3. CASE i = p
        <5>1. a \in 1..Len(event_queue'[p].events)
              /\ event_queue'[p].events[a] = event_queue[p].events[a]
          BY <3>2, <4>1, <4>3
        <5> QED BY <3>1, <3>3, <4>1, <4>3, <5>1
      <4> QED BY <4>2, <4>3
    <3>6. ASSUME NEW f \in QueueEntries' PROVE f \in QueueEntries \cup {new}
      <4>p. PICK i \in 1..Len(event_queue) : \E a \in 1..Len(event_queue'[i].events) :
              f = [id |-> event_queue'[i].events[a], time |-> event_queue[i].event_time]
        BY <3>3, <3>6
      <4>1. PICK a \in 1..Len(event_queue'[i].events) :
              f = [id |-> event_queue'[i].events[a], time |-> event_queue[i].event_time]
        BY <4>p
      <4>2. CASE i # p
        BY <3>1, <4>1, <4>2, EntriesOf
      <4>3. CASE i = p /\ a = Len(old) + 1
        BY <3>1, <3>2, <4>1, <4>3
      <4>4. CASE i = p /\ a # Len(old) + 1
        <5>1. a \in 1..Len(old) /\ event_queue'[p].events[a] = old[a]
          BY <3>2, <4>4
        <5> QED BY <3>1, <4>1, <4>4, <5>1, EntriesOf
      <4> QED BY <4>2, <4>3, <4>4
    <3> QED BY <3>4, <3>5, <3>6
  <2> QED BY <2>1, <2>2
<1>4. ListEntries' = ListEntries /\ RunningEntries' = RunningEntries
  BY <1>2 DEF ListEntries, RunningEntries
<1> QED BY <1>2, <1>3, <1>4 DEF Promise!Schedule, WaitingEntries

(* proceed() is the calendar's Dispatch of the first event of its first list. *)
LEMMA ProceedRefines ==
  ASSUME TypeOK, QueueWellFormed, Proceed
  PROVE  \E e \in WaitingEntries : Promise!Dispatch(e)
<1> DEFINE first == [id |-> event_queue[1].events[1], time |-> event_queue[1].event_time]
           rest == ListEntries' \cup QueueEntries'
<1>1. /\ 1 \in 1..Len(event_queue)
      /\ Len(event_queue[1].events) \in Nat \ {0}
      /\ first.time \in Nat /\ first.id \in Nat
  <2>1. 1 \in 1..Len(event_queue) /\ event_queue[1].events # <<>>
    BY AfterProceed
  <2>2. Len(event_queue[1].events) \in Nat \ {0}
    BY <2>1, ListTypes, EmptySeq
  <2> QED BY <2>1, <2>2, ListTypes
<1>2. \A f : f \in ListEntries' <=>
        \E a \in 2..Len(event_queue[1].events) :
           f = [id |-> event_queue[1].events[a], time |-> event_queue[1].event_time]
  BY AfterProceed DEF ListEntries
<1>3. \A f : f \in QueueEntries' <=>
        \E i \in 1..Len(event_queue') : \E a \in 1..Len(event_queue[i + 1].events) :
           f = [id |-> event_queue[i + 1].events[a],
                time |-> event_queue[i + 1].event_time]
  <2>1. \A f : f \in QueueEntries' <=>
          \E i \in 1..Len(event_queue') : \E a \in 1..Len(event_queue'[i].events) :
             f = [id |-> event_queue'[i].events[a], time |-> event_queue'[i].event_time]
    BY DEF QueueEntries
  <2>2. ASSUME NEW i \in 1..Len(event_queue') PROVE event_queue'[i] = event_queue[i + 1]
    BY AfterProceed
  <2>3. ASSUME NEW f, NEW i \in 1..Len(event_queue')
        PROVE  (\E a \in 1..Len(event_queue'[i].events) :
                  f = [id |-> event_queue'[i].events[a],
                       time |-> event_queue'[i].event_time])
               <=> (\E a \in 1..Len(event_queue[i + 1].events) :
                      f = [id |-> event_queue[i + 1].events[a],
                           time |-> event_queue[i + 1].event_time])
    BY <2>2
  <2> TAKE f
  <2>4. (\E i \in 1..Len(event_queue') : \E a \in 1..Len(event_queue'[i].events) :
           f = [id |-> event_queue'[i].events[a], time |-> event_queue'[i].event_time])
        <=> (\E i \in 1..Len(event_queue') : \E a \in 1..Len(event_queue[i + 1].events) :
               f = [id |-> event_queue[i + 1].events[a],
                    time |-> event_queue[i + 1].event_time])
    BY <2>3, Zenon
  <2> QED BY <2>1, <2>4, Zenon
<1>4. WaitingEntries = QueueEntries
  <2>1. Len(current_list) = 0
    BY AfterProceed
  <2> QED BY <2>1, EntriesOf DEF WaitingEntries
<1>5. QueueEntries = rest \cup {first}
  <2>1. first \in QueueEntries
    BY <1>1, EntriesOf
  <2>2. ASSUME NEW f \in rest PROVE f \in QueueEntries
    <3>1. CASE f \in ListEntries'
      <4>1. PICK a \in 2..Len(event_queue[1].events) :
              f = [id |-> event_queue[1].events[a], time |-> event_queue[1].event_time]
        BY <1>2, <3>1
      <4>2. a \in 1..Len(event_queue[1].events)
        BY <1>1
      <4> QED BY <1>1, <4>1, <4>2, EntriesOf
    <3>2. CASE f \in QueueEntries'
      <4>1. PICK i \in 1..Len(event_queue') : \E a \in 1..Len(event_queue[i + 1].events) :
              f = [id |-> event_queue[i + 1].events[a],
                   time |-> event_queue[i + 1].event_time]
        BY <1>3, <3>2
      <4>2. i + 1 \in 1..Len(event_queue)
        BY AfterProceed, ListTypes
      <4> QED BY <4>1, <4>2, EntriesOf
    <3> QED BY <2>2, <3>1, <3>2
  <2>3. ASSUME NEW f \in QueueEntries PROVE f \in rest \cup {first}
    <3>1. PICK i \in 1..Len(event_queue) : \E a \in 1..Len(event_queue[i].events) :
            f = [id |-> event_queue[i].events[a], time |-> event_queue[i].event_time]
      BY <2>3, EntriesOf
    <3>2. PICK a \in 1..Len(event_queue[i].events) :
            f = [id |-> event_queue[i].events[a], time |-> event_queue[i].event_time]
      BY <3>1
    <3>3. CASE i = 1 /\ a = 1
      BY <3>2, <3>3
    <3>4. CASE i = 1 /\ a # 1
      <4>1. a \in 2..Len(event_queue[1].events)
        BY <1>1, <3>4
      <4> QED BY <1>2, <3>2, <3>4, <4>1
    <3>5. CASE i # 1
      <4>1. i - 1 \in 1..Len(event_queue') /\ (i - 1) + 1 = i
        BY <3>5, AfterProceed, ListTypes
      <4> QED BY <1>3, <3>2, <4>1
    <3> QED BY <3>3, <3>4, <3>5
  <2> QED BY <2>1, <2>2, <2>3
<1>6. ASSUME NEW f \in rest PROVE Precedes(first, f)
  <2>1. CASE f \in ListEntries'
    <3>1. PICK a \in 2..Len(event_queue[1].events) :
            f = [id |-> event_queue[1].events[a], time |-> event_queue[1].event_time]
      BY <1>2, <2>1
    <3>2. event_queue[1].events[1] < event_queue[1].events[a]
      <4>1. InScheduleOrder(event_queue[1].events)
        BY <1>1 DEF QueueWellFormed, ListsAreFifo
      <4>2. 1 \in 1..Len(event_queue[1].events) /\ a \in 1..Len(event_queue[1].events)
            /\ 1 < a
        BY <1>1
      <4> QED BY <4>1, <4>2 DEF InScheduleOrder
    <3> QED BY <3>1, <3>2 DEF Precedes
  <2>2. CASE f \in QueueEntries'
    BY <1>3, <2>2, AfterProceed DEF Precedes
  <2> QED BY <1>6, <2>1, <2>2
<1>7. RunningEntries' = {first}
  BY AfterProceed DEF RunningEntries
<1> HIDE DEF first, rest
<1>8. IsNext(first, WaitingEntries) /\ rest = WaitingEntries \ {first}
  BY <1>1, <1>4, <1>5, <1>6, FirstIsNext
<1>9. first.time = current_time'
  BY AfterProceed DEF first
<1>10. issued' = issued
  BY AfterProceed
<1>11. WaitingEntries' = rest
  BY DEF WaitingEntries, rest
<1>12. Promise!Dispatch(first)
  BY <1>7, <1>8, <1>9, <1>10, <1>11 DEF Promise!Dispatch, Promise!IsNext, IsNext,
     Promise!Precedes, Precedes
<1>13. first \in WaitingEntries
  BY <1>8 DEF IsNext
<1> QED BY <1>12, <1>13

(* A turn of the loop of invoke_events dispatches the next event of the list, *)
(* or comes to rest when that was the last one.                               *)
LEMMA PopRefines ==
  ASSUME TypeOK, QueueWellFormed, PopEvent
  PROVE  Promise!Rest \/ \E e \in WaitingEntries : Promise!Dispatch(e)
<1>1. /\ current_list # <<>>
      /\ current_list' \in Seq(EventId)
      /\ Len(current_list) \in Nat \ {0}
      /\ Len(current_list') = Len(current_list) - 1
      /\ \A a \in 1..Len(current_list') : current_list'[a] = current_list[a + 1]
      /\ UNCHANGED <<current_time, event_queue, issued>>
  BY HeadTailProperties, EmptySeq DEF PopEvent, TypeOK
<1>2. QueueEntries' = QueueEntries
  BY <1>1 DEF QueueEntries
<1>3. \A f : f \in ListEntries' <=>
        \E a \in 3..Len(current_list) :
           f = [id |-> current_list[a], time |-> current_time]
  <2>1. \A f : f \in ListEntries' <=>
          \E a \in 2..Len(current_list') :
             f = [id |-> current_list'[a], time |-> current_time]
    BY <1>1 DEF ListEntries
  <2>2. \A a \in 2..Len(current_list') :
          a + 1 \in 3..Len(current_list) /\ current_list'[a] = current_list[a + 1]
    BY <1>1
  <2>3. \A a \in 3..Len(current_list) :
          a - 1 \in 2..Len(current_list') /\ current_list'[a - 1] = current_list[a]
    BY <1>1
  <2> QED BY <2>1, <2>2, <2>3
<1>4. CASE Len(current_list) = 1
  <2>1. current_list' = <<>>
    BY <1>1, <1>4, EmptySeq
  <2>2. RunningEntries' = {} /\ RunningEntries # {}
    BY <1>1, <2>1 DEF RunningEntries
  <2>3. ListEntries' = {} /\ ListEntries = {}
    BY <1>3, <1>4, EntriesOf
  <2> QED BY <1>1, <1>2, <2>2, <2>3 DEF Promise!Rest, WaitingEntries
<1>5. CASE Len(current_list) # 1
  <2> DEFINE next == [id |-> current_list[2], time |-> current_time]
             rest == ListEntries' \cup QueueEntries
  <2>1. /\ 2 \in 1..Len(current_list) /\ current_list'[1] = current_list[2]
        /\ 1 \in 1..Len(current_list')
        /\ next.time \in Nat /\ next.id \in Nat
    <3>1. 2 \in 1..Len(current_list) /\ 1 \in 1..Len(current_list')
      BY <1>1, <1>5
    <3> QED BY <1>1, <3>1, ListTypes
  <2>2. ListEntries = ListEntries' \cup {next}
    <3>1. \A a : a \in 2..Len(current_list) <=> a = 2 \/ a \in 3..Len(current_list)
      BY <2>1, ListTypes
    <3> QED BY <1>3, <3>1, EntriesOf
  <2>3. ASSUME NEW f \in rest PROVE Precedes(next, f)
    <3>1. CASE f \in ListEntries'
      <4>1. PICK a \in 3..Len(current_list) :
              f = [id |-> current_list[a], time |-> current_time]
        BY <1>3, <3>1
      <4>2. current_list[2] < current_list[a]
        BY <2>1, ListTypes DEF QueueWellFormed, ListsAreFifo, InScheduleOrder
      <4> QED BY <4>1, <4>2 DEF Precedes
    <3>2. CASE f \in QueueEntries
      <4>1. PICK i \in 1..Len(event_queue) : \E a \in 1..Len(event_queue[i].events) :
              f = [id |-> event_queue[i].events[a], time |-> event_queue[i].event_time]
        BY <3>2, EntriesOf
      <4>2. PICK a \in 1..Len(event_queue[i].events) :
              f = [id |-> event_queue[i].events[a], time |-> event_queue[i].event_time]
        BY <4>1
      <4>3. CASE event_queue[i].event_time = current_time
        <5>1. current_list[2] < event_queue[i].events[a]
          BY <2>1, <4>3 DEF QueueWellFormed, LateListComesAfter
        <5> QED BY <4>2, <4>3, <5>1 DEF Precedes
      <4>4. CASE event_queue[i].event_time # current_time
        <5>1. event_queue[i].event_time > current_time
          BY <4>4, ListTypes DEF QueueWellFormed, NothingInThePast
        <5> QED BY <4>2, <5>1, ListTypes DEF Precedes
      <4> QED BY <4>3, <4>4
    <3> QED BY <2>3, <3>1, <3>2
  <2>4. RunningEntries' = {next}
    <3>1. current_list' # <<>>
      BY <2>1, EmptySeq
    <3> QED BY <1>1, <2>1, <3>1 DEF RunningEntries
  <2>5. WaitingEntries = rest \cup {next}
    BY <2>2 DEF WaitingEntries
  <2>6. WaitingEntries' = rest
    BY <1>2 DEF WaitingEntries
  <2>7. next.time = current_time'
    BY <1>1
  <2> HIDE DEF next, rest
  <2>8. IsNext(next, WaitingEntries) /\ rest = WaitingEntries \ {next}
    BY <2>1, <2>3, <2>5, FirstIsNext
  <2>9. next \in WaitingEntries /\ Promise!Dispatch(next)
    BY <1>1, <2>4, <2>5, <2>6, <2>7, <2>8 DEF Promise!Dispatch, Promise!IsNext, IsNext,
       Promise!Precedes, Precedes
  <2> QED BY <2>9
<1> QED BY <1>4, <1>5

(* The queue of lists implements the calendar: every step of it is a step   *)
(* of the calendar or leaves the calendar's variables alone.                *)
THEOREM QueueImplementsCalendar == Spec => ImplementsCalendar
<1>1. Init => Promise!Init
  <2> SUFFICES ASSUME Init PROVE Promise!Init
    OBVIOUS
  <2>1. Len(event_queue) = 0 /\ Len(current_list) = 0
    BY DEF Init
  <2>2. QueueEntries = {} /\ ListEntries = {}
    BY <2>1, EntriesOf
  <2> QED BY <2>2 DEF Init, Promise!Init, WaitingEntries, RunningEntries
<1>2. TypeOK /\ QueueWellFormed /\ [Next]_vars => [Promise!Next]_(Promise!vars)
  <2> SUFFICES ASSUME TypeOK, QueueWellFormed, [Next]_vars
               PROVE  [Promise!Next]_(Promise!vars)
    OBVIOUS
  <2>1. ASSUME NEW t \in EventTime, ScheduleEvent(t) PROVE Promise!Next
    BY <2>1, ScheduleRefines DEF Promise!Next, EventTime
  <2>2. ASSUME Proceed PROVE Promise!Next
    BY <2>2, ProceedRefines DEF Promise!Next
  <2>3. ASSUME PopEvent PROVE Promise!Next
    BY <2>3, PopRefines DEF Promise!Next
  <2>4. ASSUME UNCHANGED vars PROVE UNCHANGED Promise!vars
    BY <2>4 DEF vars, Promise!vars, WaitingEntries, ListEntries, QueueEntries, RunningEntries
  <2> QED BY <2>1, <2>2, <2>3, <2>4 DEF Next
<1> QED BY <1>1, <1>2, TypeCorrect, QueueStaysWellFormed, PTL
         DEF Spec, ImplementsCalendar, Promise!Spec
=============================================================================
