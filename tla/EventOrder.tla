----------------------------- MODULE EventOrder -----------------------------
(***************************************************************************)
(* The order in which the simulator's callbacks must run.  An entry is a   *)
(* scheduled event, written as its event time and its identity; identities *)
(* are numbered in the order of the calls of schedule_event.  Events run   *)
(* by time and, at equal times, in the order in which they were scheduled. *)
(* The identity is not data of the program: an Event there is a callback   *)
(* and its argument, and the order of two of them is their place in a list.*)
(***************************************************************************)
EXTENDS Naturals

\* What it means that entry a must run before entry b.
Precedes(a, b) == \/ a.time < b.time
                  \/ a.time = b.time /\ a.id < b.id

\* Entry e is the one of S to run next.
IsNext(e, S) == e \in S /\ \A f \in S \ {e} : Precedes(e, f)
=============================================================================
