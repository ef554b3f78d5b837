------------------------------ MODULE Delivery ------------------------------
(***************************************************************************)
(* What the congestion aware network promises the program that sends       *)
(* chunks over it: a chunk follows its route hop by hop, every hop takes   *)
(* at least the latency of the link and the time the link needs for the    *)
(* bytes of the chunk, the callback is invoked when the last hop is done   *)
(* and not before, and every chunk gets there.  Nothing is said of links   *)
(* that are busy, of pending chunks or of events.                          *)
(***************************************************************************)
EXTENDS Integers, Sequences

CONSTANTS Chunk, Link, Routes, Size, Bandwidth, Latency, Resolution

VARIABLES now, route, invoked,
          since               \* since[c]: when c got to where it is

vars == <<now, route, invoked, since>>

Init == /\ now = 0
        /\ route = [c \in Chunk |-> <<>>]
        /\ invoked = [c \in Chunk |-> 0]
        /\ since = [c \in Chunk |-> 0]

\* The time from s to t is enough for chunk c to cross link l, apart from a
\* fraction of a ns: times are whole numbers of ns.
LongEnough(l, c, s, t) ==
  (t - s + 1) * Bandwidth[l] * Resolution > Latency[l] * Bandwidth[l] + Size[c] * Resolution

Send(c, r) == /\ route[c] = <<>>
              /\ route' = [route EXCEPT ![c] = r]
              /\ since' = [since EXCEPT ![c] = now']
              /\ UNCHANGED invoked

Hop(c) == /\ Len(route[c]) >= 2
          /\ LongEnough(<<route[c][1], route[c][2]>>, c, since[c], now')
          /\ route' = [route EXCEPT ![c] = Tail(@)]
          /\ since' = [since EXCEPT ![c] = now']
          /\ invoked' = [invoked EXCEPT ![c] = IF Len(route[c]) = 2 THEN @ + 1 ELSE @]

Tick == UNCHANGED <<route, invoked, since>>

Next == /\ now' >= now
        /\ \/ \E c \in Chunk, r \in Routes : Send(c, r)
           \/ \E c \in Chunk : Hop(c)
           \/ Tick

EveryChunkDelivered == \A c \in Chunk : route[c] # <<>> ~> invoked[c] = 1

Spec == Init /\ [][Next]_vars /\ EveryChunkDelivered
=============================================================================
