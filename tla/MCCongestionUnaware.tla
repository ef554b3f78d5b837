------------------------ MODULE MCCongestionUnaware --------------------------
(***************************************************************************)
(* CongestionUnaware for TLC: files the parser refuses, and networks of no *)
(* dimension to three.                                                     *)
(***************************************************************************)
EXTENDS CongestionUnaware

File(names, counts, bandwidths, latencies, reconfig_times) ==
  [topology |-> names, npus_count |-> counts, bandwidth |-> bandwidths,
   latency |-> latencies, reconfig_time |-> reconfig_times]

\* Every dimension has a delay of its own; latencies are in half ns.
Network(names, counts) ==
  LET dims == 1..Len(names)
  IN  File(names, counts, [d \in dims |-> d + 1], [d \in dims |-> 10 * d + 1], <<>>)

Malformed == {
  File(<<"Torus">>, <<2>>, <<1>>, <<1>>, <<>>),          \* unknown name
  File(<<"Ring">>, <<2, 2>>, <<1>>, <<1>>, <<>>),        \* lengths that differ
  File(<<"Ring">>, <<2>>, <<>>, <<1>>, <<>>),
  File(<<"Ring">>, <<2>>, <<1>>, <<>>, <<>>),
  File(<<>>, <<2>>, <<>>, <<>>, <<>>),
  File(<<"Ring">>, <<1>>, <<1>>, <<1>>, <<>>),           \* values out of range
  File(<<"Ring", "Switch">>, <<2, 2>>, <<1, 0>>, <<1, 1>>, <<>>),
  File(<<"Ring">>, <<2>>, <<1>>, <<-1>>, <<>>),
  File(<<"Ring">>, <<2>>, <<1>>, <<1>>, <<1, 1>>)}       \* two reconfiguration times

Names == {"Ring", "FullyConnected", "Switch"}

\* "Reconfig" is known to the parser and not to this backend.
MCFiles ==
  Malformed
    \cup {Network(<<>>, <<>>), Network(<<"Reconfig">>, <<2>>),
          Network(<<"Ring", "Reconfig">>, <<2, 2>>), Network(<<"Ring">>, <<5>>)}
    \cup {Network(<<a>>, <<n>>) : a \in Names, n \in 2..4}
    \cup {Network(<<a, b>>, <<n, k>>) : a, b \in Names, n, k \in {2, 3}}
    \cup {Network(<<"Ring", "FullyConnected", "Switch">>, <<n, k, l>>) : n, k, l \in {2, 3}}
    \cup {Network(<<"Switch", "Ring", "Ring">>, <<2, 5, 3>>)}
=============================================================================
