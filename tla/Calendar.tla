------------------------------ MODULE Calendar ------------------------------
(***************************************************************************)
(* What the event queue promises to the rest of the simulator, with no     *)
(* list of lists: a clock, a set of waiting entries, and at most one       *)
(* callback running.  Any callback may schedule further events at the      *)
(* current time or later, and the waiting entry that runs next is always   *)
(* the least one of EventOrder.                                            *)
(***************************************************************************)
EXTENDS EventOrder

CONSTANTS Horizon,     \* bound on the event times asked for
          MaxEvents    \* bound on the number of calls of schedule_event

VARIABLES now,       \* current time of the simulation
          waiting,   \* entries scheduled and not yet started
          running,   \* the entry whose callback is executing: {} or {entry}
          issued     \* number of events scheduled so far

vars == <<now, waiting, running, issued>>

Init == /\ now = 0
        /\ waiting = {}
        /\ running = {}
        /\ issued = 0

\* An event is asked for, at the current time or later.
Schedule(t) ==
  /\ issued < MaxEvents
  /\ t >= now
  /\ issued' = issued + 1
  /\ waiting' = waiting \cup {[id |-> issued + 1, time |-> t]}
  /\ UNCHANGED <<now, running>>

\* The next entry starts; the callback that was running, if any, has returned.
Dispatch(e) ==
  /\ IsNext(e, waiting)
  /\ now' = e.time
  /\ running' = {e}
  /\ waiting' = waiting \ {e}
  /\ UNCHANGED issued

\* The running callback returns and nothing else is started yet.
Rest ==
  /\ running # {}
  /\ running' = {}
  /\ UNCHANGED <<now, waiting, issued>>

Next == \/ \E t \in 0..Horizon : Schedule(t)
        \/ \E e \in waiting : Dispatch(e)
        \/ Rest

Spec == Init /\ [][Next]_vars
=============================================================================
