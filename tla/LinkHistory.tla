---------------------------- MODULE LinkHistory -----------------------------
(***************************************************************************)
(* The congestion aware network of module CongestionAware with a record of *)
(* what its links did: when a chunk was handed to each link, when its      *)
(* transmission began and when it reached the other end.  The history      *)
(* changes nothing of the network: every action is the one of the network  *)
(* and an addition to the record.  It lets properties speak of the order   *)
(* of chunks and of the time they took, which no state of the network      *)
(* shows, and it is what maps to the times of module Delivery.             *)
(***************************************************************************)
EXTENDS CongestionAware, SequencesExt

VARIABLES since,      \* since[c]: when c got to the device it is at
          offered,    \* offered[l]: the chunks handed to l, with the time
          started,    \* started[l]: the transmissions over l, with their
                      \* chunk, their time and the time of the arrival
          reached     \* reached[l]: the chunks that have crossed l

history == <<since, offered, started, reached>>
varsH == <<vars, history>>

InitH == /\ Init
         /\ since = [c \in Chunk |-> 0]
         /\ offered = [l \in Link |-> <<>>]
         /\ started = [l \in Link |-> <<>>]
         /\ reached = [l \in Link |-> <<>>]

\* Chunk c is handed to link l in this step.
Offer(l, c) == offered' = [offered EXCEPT ![l] = Append(@, [chunk |-> c, time |-> now'])]

\* The transmissions this step schedules, told by the arrivals it adds to the
\* queue: a chunk goes over the link its route takes next.
StartedOn(l) ==
  {[chunk |-> e.event.arg, time |-> now', arrives |-> e.time] :
      e \in {n \in waiting' : /\ n.id > issued
                              /\ n.event.handler = "chunk_arrived_next_device"
                              /\ NextLink(route'[n.event.arg]) = l}}
RecordStarts == started' = [l \in Link |-> started[l] \o SetToSeq(StartedOn(l))]

SendH(c, r, t) == /\ Send(c, r, t)
                  /\ since' = [since EXCEPT ![c] = t]
                  /\ Offer(NextLink(r), c)
                  /\ RecordStarts
                  /\ UNCHANGED reached

ChunkArrivedNextDeviceH(e, c) ==
  /\ ChunkArrivedNextDevice(e, c)
  /\ since' = [since EXCEPT ![c] = e.time]
  /\ reached' = [reached EXCEPT ![NextLink(route[c])] = Append(@, c)]
  /\ IF Len(route'[c]) = 1 THEN UNCHANGED offered ELSE Offer(NextLink(route'[c]), c)
  /\ RecordStarts

LinkBecomeFreeH(e, l) == /\ LinkBecomeFree(e, l)
                         /\ RecordStarts
                         /\ UNCHANGED <<since, offered, reached>>

RunNextEventH == \E e \in waiting : \/ \E c \in Chunk : ChunkArrivedNextDeviceH(e, c)
                                    \/ \E l \in Link : LinkBecomeFreeH(e, l)

NextH == \/ \E c \in Chunk, r \in Routes, t \in 0..LastSend : SendH(c, r, t)
         \/ RunNextEventH

SpecH == InitH /\ [][NextH]_varsH /\ WF_varsH(RunNextEventH)

-----------------------------------------------------------------------------
ChunksOf(s) == [i \in 1..Len(s) |-> s[i].chunk]

\* Links serve chunks in the order they were handed to them, none twice and
\* none passed over, whether a chunk found the link free or had to wait behind
\* others (Link.cpp:72-94): push_back in send, front in the handler that runs
\* later, at the same time as other handlers that send to the same link.
ServedInOrder == \A l \in Link : IsPrefix(ChunksOf(started[l]), ChunksOf(offered[l]))

\* A link neither idles while a chunk waits for it nor carries two at once: a
\* transmission begins at the moment its chunk was handed to the link or at the
\* end of the transmission before it, whichever is later, to the ns
\* (Link.cpp:35-51, 162-167).
LaterOf(s, t) == IF s >= t THEN s ELSE t
EndOf(l, s) == s.time + Size[s.chunk] \div Bandwidth[l]
WorkConserving ==
  \A l \in Link : \A i \in 1..Len(started[l]) :
     started[l][i].time =
       LaterOf(offered[l][i].time, IF i = 1 THEN 0 ELSE EndOf(l, started[l][i - 1]))

\* The two delays of a transmission are cut to whole ns apart from each other
\* (Link.cpp:101-121, 155, 164), so a chunk can reach the other end of a link
\* before one that was transmitted ahead of it: never by more than one ns, and
\* never on a link whose latency is a whole number of ns.
WholeLatency(l) == Latency[l] % Resolution = 0
OvertakesByRounding ==
  \A l \in Link :
     /\ \A i, j \in 1..Len(started[l]) :
           i < j => started[l][j].arrives + 1 >= started[l][i].arrives
     /\ WholeLatency(l) => IsPrefix(reached[l], ChunksOf(started[l]))

\* The network keeps its promise to the program, module Delivery: hop by hop,
\* no hop faster than its link, the callback at the end and not before, and
\* every chunk delivered (Chunk.h:24-31, Chunk.cpp:13-33, Link.cpp:131-168).
Promise == INSTANCE Delivery
ImplementsDelivery == Promise!Spec
=============================================================================
