---------------------------- MODULE NetworkParser -----------------------------
(***************************************************************************)
(* Which network configurations the parser accepts.  A file gives a list   *)
(* for every key (the empty list for a key it does not have); an entry per *)
(* dimension of the network.                                               *)
(***************************************************************************)
EXTENDS Integers, Sequences

\* The names parse_topology_name knows.
TopologyNames == {"Ring", "FullyConnected", "Switch", "Reconfig"}

AllNamesKnown(file) == \A i \in 1..Len(file.topology) : file.topology[i] \in TopologyNames

\* parse_network_config_yml asks for at most one reconfig_time.
OneReconfigTime(file) == Len(file.reconfig_time) <= 1

\* Mutant: a bandwidth of 0 passes.
CheckAllowingZero(file) ==
  LET dims_count == Len(file.topology)
  IN  /\ Len(file.npus_count) = dims_count
      /\ Len(file.bandwidth) = dims_count
      /\ Len(file.latency) = dims_count
      /\ \A i \in 1..dims_count : /\ file.npus_count[i] > 1
                                  /\ file.bandwidth[i] >= 0
                                  /\ file.latency[i] >= 0

\* Lengths first, then values.
check_validity(file) ==
  LET dims_count == Len(file.topology)
  IN  /\ Len(file.npus_count) = dims_count
      /\ Len(file.bandwidth) = dims_count
      /\ Len(file.latency) = dims_count
      /\ \A i \in 1..dims_count : /\ file.npus_count[i] > 1
                                  /\ file.bandwidth[i] > 0
                                  /\ file.latency[i] >= 0

\* The constructor returns; otherwise the program exits.
Accepted(file) == AllNamesKnown(file) /\ OneReconfigTime(file) /\ check_validity(file)
=============================================================================
