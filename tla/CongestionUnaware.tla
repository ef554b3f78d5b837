-------------------------- MODULE CongestionUnaware --------------------------
(***************************************************************************)
(* The congestion unaware backend from its configuration to a delay: the   *)
(* parser accepts the file or exits, construct_topology appends one        *)
(* dimension after the other, and send() translates both NPUs to their     *)
(* addresses, one coordinate per turn of the loop of translate_address,    *)
(* looks for the dimension in which they differ and returns the delay of   *)
(* the topology of that dimension.                                         *)
(*                                                                         *)
(* A network of one dimension is that dimension's topology itself, and its *)
(* send() translates nothing.  send() is const: one call is explored in    *)
(* every network.  Dimensions are numbered from 1; bandwidths are given in *)
(* bytes per ns, what bw_GBps_to_Bpns makes of them.                       *)
(***************************************************************************)
EXTENDS Topologies, NetworkParser

CONSTANTS Files,        \* the configurations explored
          ChunkSizes,   \* the sizes of the message, in bytes
          Resolution    \* number of ticks of a latency in a nanosecond

ASSUME UnawareAssumption ==
  /\ Resolution \in Nat \ {0}
  /\ ChunkSizes \subseteq Nat \ {0}

\* parse_vector reads a list of values of one type for every key.
ASSUME FilesAssumption ==
  \A f \in Files : /\ f.topology \in Seq(STRING)
                   /\ f.npus_count \in Seq(Int)
                   /\ f.bandwidth \in Seq(Int)
                   /\ f.latency \in Seq(Int)

VARIABLES file,               \* the configuration
          phase,              \* "parse", "network", "translate" or "exit"
          npus_count,         \* the topology: number of its NPUs,
          topology_per_dim,   \* and the topology of each dimension
          strides,            \* history: npus_count before each was appended
          src, dest, chunk_size,   \* the arguments of send()
          npu,                \* the one that is being translated
          dim, leftover, denominator, address,   \* the loop's variables
          src_address,        \* the result of the first translation
          comms_delay         \* the result of send(), or NoDelay

network == <<npus_count, topology_per_dim, strides>>
request == <<src, dest, chunk_size>>
loop == <<npu, dim, leftover, denominator, address>>
vars == <<file, phase, npus_count, topology_per_dim, strides, src, dest, chunk_size,
          npu, dim, leftover, denominator, address, src_address, comms_delay>>

NoDelay == -1
dims_count == Len(topology_per_dim)
Count(d) == topology_per_dim[d].npus_count
Built == phase # "parse" /\ dims_count = Len(file.topology)

Basic == [type : {"Ring", "FullyConnected", "Switch"},
          npus_count : Nat \ {0}, bandwidth : Nat \ {0}, latency : Nat]

TypeOK ==
  /\ file \in Files
  /\ phase \in {"parse", "network", "translate", "exit"}
  /\ npus_count \in Nat \ {0}
  /\ topology_per_dim \in Seq(Basic)
  /\ strides \in Seq(Nat \ {0}) /\ Len(strides) = dims_count
  /\ src \in Nat /\ dest \in Nat
  /\ chunk_size \in ChunkSizes \cup {0}
  /\ npu \in {"src", "dest"}
  /\ dim \in 0..dims_count
  /\ leftover \in Nat
  /\ denominator \in Nat \ {0}
  /\ address \in Seq(Int)
  /\ \A d \in 1..Len(address) : address[d] \in -1..(Count(d) - 1)
  /\ src_address \in Seq(Nat)
  /\ comms_delay \in Nat \cup {NoDelay}

\* Before construction the variables hold what MultiDimTopology's constructor
\* gives them; those of send() are not in use.
Init == /\ file \in Files
        /\ phase = "parse"
        /\ npus_count = 1 /\ topology_per_dim = <<>> /\ strides = <<>>
        /\ src = 0 /\ dest = 0 /\ chunk_size = 0
        /\ npu = "src" /\ dim = 0 /\ leftover = 0 /\ denominator = 1 /\ address = <<>>
        /\ src_address = <<>>
        /\ comms_delay = NoDelay

-----------------------------------------------------------------------------
(* NetworkParser and construct_topology *)

Parse ==
  /\ phase = "parse"
  /\ phase' = IF Accepted(file) THEN "network" ELSE "exit"
  /\ UNCHANGED <<file, network, request, loop, src_address, comms_delay>>

\* The topology construct_topology makes for dimension d of the file.
BasicTopology(d) ==
  [type |-> file.topology[d], npus_count |-> file.npus_count[d],
   bandwidth |-> file.bandwidth[d], latency |-> file.latency[d]]

\* append_dimension, or the only topology of a network of one dimension.
AppendDimension ==
  LET d == dims_count + 1
  IN  /\ phase = "network"
      /\ d <= Len(file.topology)
      /\ file.topology[d] # "Reconfig"
      /\ npus_count' = npus_count * file.npus_count[d]
      /\ topology_per_dim' = Append(topology_per_dim, BasicTopology(d))
      /\ strides' = Append(strides, npus_count)
      /\ UNCHANGED <<file, phase, request, loop, src_address, comms_delay>>

\* A topology that this backend does not have.
NotSupported ==
  LET d == dims_count + 1
  IN  /\ phase = "network"
      /\ d <= Len(file.topology)
      /\ file.topology[d] = "Reconfig"
      /\ phase' = "exit"
      /\ UNCHANGED <<file, network, request, loop, src_address, comms_delay>>

-----------------------------------------------------------------------------
(* BasicTopology *)

\* Rings are made bidirectional by default.
compute_hops_count(topology, s, d) ==
  CASE topology.type = "Ring" -> RingHops(topology.npus_count, TRUE, s, d)
    [] topology.type = "FullyConnected" -> FullyConnectedHops
    [] topology.type = "Switch" -> SwitchHops

\* hops * latency + size / bandwidth, cut to whole ns.
compute_communication_delay(topology, hops, size) ==
  (hops * topology.latency * topology.bandwidth + size * Resolution)
     \div (topology.bandwidth * Resolution)

BasicSend(topology, s, d, size) ==
  compute_communication_delay(topology, compute_hops_count(topology, s, d), size)

-----------------------------------------------------------------------------
(* MultiDimTopology *)

\* translate_address is called for the NPU n, whose number is id.
StartTranslation(n, id) ==
  /\ npu' = n
  /\ dim' = dims_count
  /\ leftover' = id
  /\ denominator' = npus_count
  /\ address' = [d \in 1..dims_count |-> -1]

\* send() for two NPUs of the network.  That they differ is an assertion of the
\* basic topologies only; MultiDimTopology finds out when it looks for a dimension.
Send(s, d, size) ==
  /\ phase = "network" /\ Built /\ comms_delay = NoDelay
  /\ dims_count = 1 => s # d
  /\ src' = s /\ dest' = d /\ chunk_size' = size
  /\ IF dims_count = 1
     THEN /\ comms_delay' = BasicSend(topology_per_dim[1], s, d, size)
          /\ UNCHANGED <<phase, loop>>
     ELSE /\ phase' = "translate"
          /\ StartTranslation("src", s)
          /\ UNCHANGED comms_delay
  /\ UNCHANGED <<file, network, src_address>>

\* Mutant: the leftover is not reduced.
TranslateKeepingLeftover ==
  /\ phase = "translate"
  /\ dim > 0
  /\ denominator' = denominator \div Count(dim)
  /\ address' = [address EXCEPT ![dim] = leftover \div denominator']
  /\ UNCHANGED leftover
  /\ dim' = dim - 1
  /\ UNCHANGED <<file, phase, network, request, npu, src_address, comms_delay>>

\* Mutant: the dimensions are divided off from the first one on.
TranslateFirstToLast ==
  LET d == dims_count + 1 - dim
  IN  /\ phase = "translate"
      /\ dim > 0
      /\ denominator' = denominator \div Count(d)
      /\ address' = [address EXCEPT ![d] = leftover \div denominator']
      /\ leftover' = leftover % denominator'
      /\ dim' = dim - 1
      /\ UNCHANGED <<file, phase, network, request, npu, src_address, comms_delay>>

\* One turn of the loop of translate_address.
Translate ==
  /\ phase = "translate"
  /\ dim > 0
  /\ denominator' = denominator \div Count(dim)
  /\ address' = [address EXCEPT ![dim] = leftover \div denominator']
  /\ leftover' = leftover % denominator'
  /\ dim' = dim - 1
  /\ UNCHANGED <<file, phase, network, request, npu, src_address, comms_delay>>

\* The address of src is complete, that of dest is asked for.
SrcTranslated ==
  /\ phase = "translate"
  /\ dim = 0 /\ npu = "src"
  /\ src_address' = address
  /\ StartTranslation("dest", dest)
  /\ UNCHANGED <<file, phase, network, request, comms_delay>>

\* Mutant: the first dimension is not looked at.
DiffersFromSecond(d) ==
  /\ d > 1
  /\ src_address[d] # address[d]
  /\ \A k \in 2..(d - 1) : src_address[k] = address[k]

\* Mutant: the dimensions are looked at from the last one on.
DiffersLast(d) ==
  /\ src_address[d] # address[d]
  /\ \A k \in (d + 1)..dims_count : src_address[k] = address[k]

\* get_dim_to_transfer returns d.
IsDimToTransfer(d) ==
  /\ src_address[d] # address[d]
  /\ \A k \in 1..(d - 1) : src_address[k] = address[k]

\* The delay of the topology of the first dimension in which they differ.
Transfer ==
  /\ phase = "translate"
  /\ dim = 0 /\ npu = "dest"
  /\ \E d \in 1..dims_count :
       /\ IsDimToTransfer(d)
       /\ comms_delay' = BasicSend(topology_per_dim[d], src_address[d], address[d], chunk_size)
  /\ phase' = "network"
  /\ UNCHANGED <<file, network, request, loop, src_address>>

\* The addresses are equal: the program exits.
NoDimToTransfer ==
  /\ phase = "translate"
  /\ dim = 0 /\ npu = "dest"
  /\ \A d \in 1..dims_count : ~IsDimToTransfer(d)
  /\ phase' = "exit"
  /\ UNCHANGED <<file, network, request, loop, src_address, comms_delay>>

Next ==
  \/ Parse
  \/ AppendDimension
  \/ NotSupported
  \/ \E s, d \in 0..(npus_count - 1), size \in ChunkSizes : Send(s, d, size)
  \/ Translate
  \/ SrcTranslated
  \/ Transfer
  \/ NoDimToTransfer

Spec == Init /\ [][Next]_vars

-----------------------------------------------------------------------------
(* Properties *)

\* Coordinate d of an NPU, by the strides of the dimensions.
Coordinate(id, d) == (id \div strides[d]) % Count(d)

\* The NPU that is being translated.
Translated == IF npu = "src" THEN src ELSE dest

\* The product of the sizes of the first d dimensions.
Size(d) ==
  LET product[k \in 0..d] == IF k = 0 THEN 1 ELSE product[k - 1] * Count(k)
  IN  product[d]

\* The loop of translate_address: with the dimensions above dim done, denominator is
\* the number of NPUs of the dimensions up to dim, leftover the position among them,
\* and the coordinates found are those of the NPU.  The divisions have no remainder,
\* since npus_count is the product append_dimension has kept.
TranslationIsExact ==
  phase = "translate" =>
    /\ npus_count = Size(dims_count)
    /\ denominator = Size(dim)
    /\ leftover = Translated % denominator
    /\ \A d \in (dim + 1)..dims_count : address[d] = Coordinate(Translated, d)

\* A complete address leads back to the NPU: different NPUs have different addresses.
AddressDeterminesNPU ==
  phase = "translate" /\ dim = 0 =>
    LET sum[d \in 0..dims_count] ==
          IF d = 0 THEN 0 ELSE sum[d - 1] + address[d] * strides[d]
    IN  sum[dims_count] = Translated

\* send() of an accepted network ends the program exactly when it is asked for a
\* message of an NPU to itself (MultiDimTopology.cpp:108): the assertion of
\* BasicTopology::send that the local numbers differ holds whenever it is called.
ExitsOnlyForSameNPU ==
  chunk_size # 0 => /\ phase = "exit" => src = dest
                    /\ comms_delay # NoDelay => src # dest

\* The shorter way around a ring of n, without a direction.
Around(n, i, j) ==
  LET apart == IF i < j THEN j - i ELSE i - j
  IN  IF 2 * apart <= n THEN apart ELSE n - apart

\* The result of send() is the delay of one dimension, the first one in which the
\* two NPUs have different coordinates, whatever they have in the others: the hops
\* between the two coordinates in that topology, and one serialization.
DelayOfFirstDifference ==
  comms_delay # NoDelay =>
    \E d \in 1..dims_count :
      LET t == topology_per_dim[d]
          i == Coordinate(src, d)
          j == Coordinate(dest, d)
          hops == CASE t.type = "Ring" -> Around(t.npus_count, i, j)
                    [] t.type = "FullyConnected" -> 1
                    [] t.type = "Switch" -> 2
          unit == t.bandwidth * Resolution   \* of a common denominator, one ns
          exact == hops * t.latency * t.bandwidth + chunk_size * Resolution
      IN  /\ i # j
          /\ src % strides[d] = dest % strides[d]
          /\ comms_delay * unit <= exact /\ exact < (comms_delay + 1) * unit
=============================================================================
