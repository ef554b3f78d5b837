----------------------------- MODULE EventQueue -----------------------------
(***************************************************************************)
(* The event queue of the simulator (common/event-queue): a list of        *)
(* EventLists ordered by time, one list per time, each a FIFO of events.   *)
(*                                                                         *)
(* proceed() takes the first EventList out of the queue and runs its       *)
(* events one after the other.  While a callback runs, its event is still  *)
(* the head of that list (it is popped after the callback returns), and    *)
(* the callback may call schedule_event any number of times: an event      *)
(* asked for at the current time finds no list of that time in the queue   *)
(* any more, and a new list is made for it.                                *)
(*                                                                         *)
(* An event is written as its identity, the number of the schedule_event   *)
(* call that made it; the pair of callback and argument it stands for is   *)
(* what the other components choose.                                       *)
(***************************************************************************)
EXTENDS EventOrder, Sequences

SequencesExt == INSTANCE SequencesExt

CONSTANTS Horizon,     \* latest event time asked for (bounds the clock)
          MaxEvents    \* number of schedule_event calls explored

ASSUME BoundsAssumption == Horizon \in Nat /\ MaxEvents \in Nat

VARIABLES current_time,   \* the clock of the queue
          event_queue,    \* sequence of [event_time, events]
          current_list,   \* what is left of the list proceed() took out
          issued          \* number of schedule_event calls so far

vars == <<current_time, event_queue, current_list, issued>>

EventTime == 0..Horizon
EventId == 1..MaxEvents
EventList == [event_time : EventTime, events : Seq(EventId)]

TypeOK ==
  /\ current_time \in EventTime
  /\ event_queue \in Seq(EventList)
  /\ current_list \in Seq(EventId)
  /\ issued \in 0..MaxEvents

Init == /\ current_time = 0
        /\ event_queue = <<>>
        /\ current_list = <<>>
        /\ issued = 0

-----------------------------------------------------------------------------
\* finished(): no list is left in the queue.
Finished == event_queue = <<>>

\* Mutant: the search goes past a list of the same time (<= written for <).
SearchPassesEqual(p, t) ==
  /\ \A i \in 1..(p - 1) : event_queue[i].event_time <= t
  /\ p <= Len(event_queue) => event_queue[p].event_time > t

\* The linear search of schedule_event stops at position p: every list before
\* it is earlier than t, and p is the end or a list not earlier than t.
SearchStopsAt(p, t) ==
  /\ \A i \in 1..(p - 1) : event_queue[i].event_time < t
  /\ p <= Len(event_queue) => event_queue[p].event_time >= t

\* A list for time t is missing at position p and has to be inserted.
MustInsert(p, t) ==
  p <= Len(event_queue) => t < event_queue[p].event_time

\* The queue once the new list of event e has been inserted before position p.
WithNewList(p, t, e) ==
  SequencesExt!InsertAt(event_queue, p, [event_time |-> t, events |-> <<e>>])

\* Mutant: the event is added in front of the events of its time.
WithEventInFront(p, e) ==
  [event_queue EXCEPT ![p].events = <<e>> \o @]

\* The queue once event e has been added to the list at position p.
WithEventAdded(p, e) ==
  [event_queue EXCEPT ![p].events = Append(@, e)]

\* Mutant: the assertion event_time >= current_time is missing, and an event of
\* the past goes to the front.
ScheduleUnchecked(t) ==
  /\ issued < MaxEvents
  /\ event_queue' = WithNewList(1, t, issued + 1)
  /\ issued' = issued + 1
  /\ UNCHANGED <<current_time, current_list>>

\* schedule_event(event_time, callback, callback_arg).  It is called by a
\* callback (current_list is not empty, its head is running) or by the user's
\* program between two calls of proceed (current_list is empty).
ScheduleEvent(t) ==
  /\ issued < MaxEvents
  /\ t >= current_time
  /\ \E p \in 1..(Len(event_queue) + 1) :
       /\ SearchStopsAt(p, t)
       /\ event_queue' = IF MustInsert(p, t)
                         THEN WithNewList(p, t, issued + 1)
                         ELSE WithEventAdded(p, issued + 1)
  /\ issued' = issued + 1
  /\ UNCHANGED <<current_time, current_list>>

\* Mutant: the clock is moved past the time of the list.
ProceedPastTime ==
  /\ current_list = <<>>
  /\ ~Finished
  /\ event_queue' = Tail(event_queue)
  /\ current_time' = Head(event_queue).event_time + 1
  /\ current_list' = Head(event_queue).events
  /\ UNCHANGED issued

\* proceed() up to the start of the first callback of the list it took out.
Proceed ==
  /\ current_list = <<>>
  /\ ~Finished
  /\ event_queue' = Tail(event_queue)
  /\ current_time' = Head(event_queue).event_time
  /\ current_list' = Head(event_queue).events
  /\ UNCHANGED issued

\* Mutant: only the first event of a list is invoked, the others are dropped.
PopWholeList ==
  /\ current_list # <<>>
  /\ current_list' = <<>>
  /\ UNCHANGED <<current_time, event_queue, issued>>

\* One turn of the loop of invoke_events: the callback of the head returns, the
\* head is popped, and the new head, if there is one, is invoked at once.  When
\* there is none, invoke_events and proceed() return.
PopEvent ==
  /\ current_list # <<>>
  /\ current_list' = Tail(current_list)
  /\ UNCHANGED <<current_time, event_queue, issued>>

Next == \/ \E t \in EventTime : ScheduleEvent(t)
        \/ Proceed
        \/ PopEvent

\* Callbacks return, and the program calls proceed() while the queue is not
\* finished (the loop of every main() of the repository).
Fairness == WF_vars(Proceed) /\ WF_vars(PopEvent)

Spec == Init /\ [][Next]_vars /\ Fairness

-----------------------------------------------------------------------------
\* The lists of the queue are in strictly increasing order of time: there is
\* one list per time, so events of one time share one FIFO.
TimesIncrease ==
  \A i, j \in 1..Len(event_queue) :
     i < j => event_queue[i].event_time < event_queue[j].event_time

\* No list of the queue is empty: a proceed() always has something to run.
NoEmptyList == \A i \in 1..Len(event_queue) : event_queue[i].events # <<>>

\* No list of the queue lies in the past: the assertion of proceed() holds.
NothingInThePast ==
  \A i \in 1..Len(event_queue) : event_queue[i].event_time >= current_time

\* A sequence of events in the order in which they were scheduled.
InScheduleOrder(s) == \A a, b \in 1..Len(s) : a < b => s[a] < s[b]

\* Every list is a FIFO of events already scheduled.
ListsAreFifo ==
  /\ InScheduleOrder(current_list)
  /\ \A a \in 1..Len(current_list) : current_list[a] <= issued
  /\ \A i \in 1..Len(event_queue) :
        /\ InScheduleOrder(event_queue[i].events)
        /\ \A a \in 1..Len(event_queue[i].events) :
              event_queue[i].events[a] <= issued

\* Events scheduled at the current time while its list is running come after
\* all the events of that list.
LateListComesAfter ==
  \A i \in 1..Len(event_queue) :
     event_queue[i].event_time = current_time =>
        \A a \in 1..Len(current_list), b \in 1..Len(event_queue[i].events) :
           current_list[a] < event_queue[i].events[b]

\* The shape of the queue that makes the linear search and the pop from the
\* front correct (EventQueue.cpp, the insertion loop of schedule_event and the
\* front() taken by proceed).
QueueWellFormed ==
  /\ TimesIncrease
  /\ NoEmptyList
  /\ NothingInThePast
  /\ ListsAreFifo
  /\ LateListComesAfter

-----------------------------------------------------------------------------
\* The abstract state: the running event is the head of the list proceed() took
\* out, everything behind it and in the queue is waiting.
RunningEntries ==
  IF current_list = <<>> THEN {}
  ELSE {[id |-> current_list[1], time |-> current_time]}

ListEntries ==
  {[id |-> current_list[a], time |-> current_time] : a \in 2..Len(current_list)}

QueueEntries ==
  UNION {{[id |-> event_queue[i].events[a], time |-> event_queue[i].event_time] :
             a \in 1..Len(event_queue[i].events)} : i \in 1..Len(event_queue)}

WaitingEntries == ListEntries \cup QueueEntries

Promise == INSTANCE Calendar WITH
             now <- current_time,
             waiting <- WaitingEntries,
             running <- RunningEntries

\* The queue of lists implements the calendar: callbacks run in the order of
\* their times and, at equal times, in the order of their scheduling, whatever
\* the callbacks schedule meanwhile (EventQueue.h: "invoke all events ...").
ImplementsCalendar == Promise!Spec

\* The clock is never set back, and it moves only when no callback is left to
\* run at the time it leaves (proceed, EventQueue.cpp:44-45).
ClockMovesForward ==
  [][/\ current_time' >= current_time
     /\ current_time' # current_time =>
          /\ current_list = <<>>
          /\ \A e \in WaitingEntries : e.time >= current_time']_vars

\* Every event that is scheduled is run: an event never stays for ever in the
\* queue or in the running list while new ones are inserted before it.
EveryEventRuns ==
  \A i \in EventId :
     (\E e \in WaitingEntries : e.id = i) ~> (\E e \in RunningEntries : e.id = i)

\* EventQueue.h:39-42 says that proceed() invokes all events registered at the
\* time it moved to: when it returns, none of that time is left.
ProceedLeavesNoneAtCurrentTime ==
  [][PopEvent /\ current_list' = <<>> =>
       \A i \in 1..Len(event_queue) : event_queue[i].event_time # current_time]_vars
=============================================================================
