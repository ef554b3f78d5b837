---------------------- MODULE CongestionUnawareProofs -----------------------
(***************************************************************************)
(* Proofs about CongestionUnaware, for every set of configurations and     *)
(* every number and size of dimensions: the address translation is exact,  *)
(* and send() returns the delay of the first dimension in which the two    *)
(* NPUs differ.                                                            *)
(*                                                                         *)
(* The inductive invariant adds to the properties what the code relies on  *)
(* from one call to the next: the number of NPUs is the product that       *)
(* append_dimension has kept, a message is asked for in a complete network *)
(* only, and the first address is kept while the second is computed.       *)
(***************************************************************************)
EXTENDS CongestionUnaware, ProofLemmas

(* The number of NPUs of the first d dimensions, as append_dimension has it *)
(* before it appends the next one.                                          *)
Below(d) == IF d = dims_count THEN npus_count ELSE strides[d + 1]

(* Every dimension multiplies the number of NPUs by its size. *)
NetworkShape ==
  /\ Below(0) = 1
  /\ \A d \in 1..dims_count : Below(d) = strides[d] * Count(d)

(* Only an accepted file becomes a network, one dimension after the other. *)
ConstructionOK ==
  /\ phase = "parse" => dims_count = 0
  /\ phase \in {"network", "translate"} =>
       Accepted(file) /\ dims_count <= Len(file.topology)

(* send() is called in a complete network, for two of its NPUs. *)
RequestOK ==
  /\ chunk_size # 0 =>
       /\ phase # "parse" /\ dims_count = Len(file.topology)
       /\ src < npus_count /\ dest < npus_count
  /\ comms_delay # NoDelay => chunk_size # 0

(* The loop of translate_address at the head of a turn, by the strides. *)
LoopOK ==
  /\ Len(address) <= dims_count
  /\ phase = "translate" =>
       /\ chunk_size # 0 /\ comms_delay = NoDelay
       /\ Len(address) = dims_count
       /\ denominator = Below(dim)
       /\ leftover = Translated % denominator
       /\ \A d \in (dim + 1)..dims_count : address[d] = Coordinate(Translated, d)
       /\ npu = "dest" =>
            \A d \in 1..dims_count : src_address[d] = Coordinate(src, d)

UInv ==
  /\ TypeOK
  /\ NetworkShape
  /\ ConstructionOK
  /\ RequestOK
  /\ LoopOK
  /\ ExitsOnlyForSameNPU
  /\ DelayOfFirstDifference

-----------------------------------------------------------------------------
(* The shape of the network *)

(* A dimension has a positive number of NPUs and comes after a positive one. *)
LEMMA Dimensions ==
  ASSUME TypeOK, NetworkShape
  PROVE  /\ dims_count \in Nat
         /\ Below(0) = 1 /\ Below(dims_count) = npus_count
         /\ npus_count \in Nat \ {0}
         /\ \A d \in 1..dims_count :
              /\ topology_per_dim[d] \in Basic
              /\ Count(d) \in Nat \ {0}
              /\ strides[d] \in Nat \ {0}
              /\ Below(d - 1) = strides[d]
              /\ Below(d) = strides[d] * Count(d)
              /\ Below(d) \in Nat \ {0}
              /\ d - 1 \in 0..dims_count
<1>1. /\ topology_per_dim \in Seq(Basic) /\ strides \in Seq(Nat \ {0})
      /\ Len(strides) = dims_count /\ npus_count \in Nat \ {0} /\ dims_count \in Nat
  BY DEF TypeOK, dims_count
<1>2. Below(0) = 1 /\ Below(dims_count) = npus_count
  BY DEF NetworkShape, Below
<1>3. ASSUME NEW d \in 1..dims_count
      PROVE  /\ topology_per_dim[d] \in Basic
             /\ Count(d) \in Nat \ {0}
             /\ strides[d] \in Nat \ {0}
             /\ Below(d - 1) = strides[d]
             /\ Below(d) = strides[d] * Count(d)
             /\ Below(d) \in Nat \ {0}
             /\ d - 1 \in 0..dims_count
  <2>1. topology_per_dim[d] \in Basic
    BY <1>1, ElementOfSeq DEF dims_count
  <2>2. Count(d) \in Nat \ {0}
    BY <2>1 DEF Count, Basic
  <2>3. strides[d] \in Nat \ {0}
    BY <1>1, ElementOfSeq
  <2>4. d - 1 \in 0..dims_count /\ d - 1 # dims_count /\ (d - 1) + 1 = d
    BY <1>1
  <2>5. Below(d - 1) = strides[d]
    BY <2>4 DEF Below
  <2>6. Below(d) = strides[d] * Count(d)
    BY DEF NetworkShape
  <2>7. Below(d) \in Nat \ {0}
    BY <2>2, <2>3, <2>6
  <2> QED BY <2>1, <2>2, <2>3, <2>4, <2>5, <2>6, <2>7
<1> QED BY <1>1, <1>2, <1>3

(* A coordinate is what the dimension adds to the position of an NPU among *)
(* those of the dimensions before it.                                      *)
LEMMA CoordinateFacts ==
  ASSUME TypeOK, NetworkShape, NEW a \in Nat, NEW d \in 1..dims_count
  PROVE  /\ Coordinate(a, d) \in Nat
         /\ Coordinate(a, d) \in 0..(Count(d) - 1)
         /\ Below(d) \div Count(d) = strides[d]
         /\ (a % Below(d)) \div strides[d] = Coordinate(a, d)
         /\ (a % Below(d)) % strides[d] = a % strides[d]
         /\ a % Below(d) = (a % strides[d]) + Coordinate(a, d) * strides[d]
<1>1. PICK s \in Nat \ {0}, c \in Nat \ {0}, n \in Nat \ {0} :
        s = strides[d] /\ c = Count(d) /\ n = Below(d) /\ n = s * c
  BY Dimensions
<1>2. a \div s \in Nat
  BY DivBounds
<1>3. (a \div s) % c \in 0..(c - 1) /\ (a \div s) % c \in Nat
  BY <1>2
<1>4. Coordinate(a, d) = (a \div s) % c
  BY <1>1 DEF Coordinate
<1>5. /\ n \div c = s
      /\ (a % n) \div s = (a \div s) % c
      /\ (a % n) % s = a % s
      /\ a % n = (a % s) + ((a \div s) % c) * s
  <2>1. a \in Nat /\ s \in Nat \ {0} /\ c \in Nat \ {0} /\ n = Product(s, c)
    BY <1>1 DEF Product
  <2>2. /\ Quotient(n, c) = s
        /\ Quotient(Remainder(a, n), s) = Remainder(Quotient(a, s), c)
        /\ Remainder(Remainder(a, n), s) = Remainder(a, s)
        /\ Remainder(a, n) = Remainder(a, s) + Product(Remainder(Quotient(a, s), c), s)
    BY ONLY <2>1, ModProduct
  <2> QED BY ONLY <2>2 DEF Product, Quotient, Remainder
<1> QED BY ONLY <1>1, <1>3, <1>4, <1>5

(* Two numbers with the same coordinates up to k have the same position among *)
(* the NPUs of the first k dimensions.                                        *)
LEMMA SameCoordinatesSamePosition ==
  ASSUME TypeOK, NetworkShape, NEW a \in Nat, NEW b \in Nat, NEW k \in 0..dims_count,
         \A j \in 1..k : Coordinate(a, j) = Coordinate(b, j)
  PROVE  a % Below(k) = b % Below(k)
<1> DEFINE S == {m \in Nat : m <= k => a % Below(m) = b % Below(m)}
<1>1. 0 \in S
  <2>1. Below(0) = 1 /\ a % 1 = 0 /\ b % 1 = 0
    BY Dimensions
  <2> QED BY <2>1
<1>2. ASSUME NEW m \in S PROVE m + 1 \in S
  <2> SUFFICES ASSUME m + 1 <= k PROVE a % Below(m + 1) = b % Below(m + 1)
    OBVIOUS
  <2>1. m \in Nat /\ a % Below(m) = b % Below(m)
    OBVIOUS
  <2>2. m + 1 \in 1..k /\ m + 1 \in 1..dims_count /\ (m + 1) - 1 = m
    BY <2>1, Dimensions
  <2>3. Below(m) = strides[m + 1]
    BY <2>2, Dimensions
  <2>4. Coordinate(a, m + 1) = Coordinate(b, m + 1)
    BY <2>2
  <2> QED BY <2>1, <2>2, <2>3, <2>4, CoordinateFacts
<1>3. S = Nat
  <2> HIDE DEF S
  <2>1. S \in SUBSET Nat
    BY DEF S
  <2> QED BY <1>1, <1>2, <2>1, SetInduction
<1>4. k \in S
  BY <1>3, Dimensions
<1> QED BY <1>4, Dimensions

(* Two NPUs of the network with the same address are one. *)
LEMMA SameAddressSameNPU ==
  ASSUME TypeOK, NetworkShape, NEW a \in Nat, NEW b \in Nat,
         a < npus_count, b < npus_count,
         \A j \in 1..dims_count : Coordinate(a, j) = Coordinate(b, j)
  PROVE  a = b
<1>1. dims_count \in 0..dims_count /\ Below(dims_count) = npus_count
      /\ npus_count \in Nat \ {0}
  BY Dimensions
<1>2. a % npus_count = b % npus_count
  BY <1>1, SameCoordinatesSamePosition
<1>3. \A n \in Nat \ {0} : \A x \in Nat : x < n => x % n = x
  OBVIOUS
<1> QED BY <1>1, <1>2, <1>3

(* The product of the sizes of the first d dimensions is what append_dimension *)
(* has kept.                                                                   *)
LEMMA SizeIsBelow ==
  ASSUME TypeOK, NetworkShape, NEW d \in 0..dims_count
  PROVE  Size(d) = Below(d)
<1> DEFINE IsProduct(f) == f = [k \in 0..d |-> IF k = 0 THEN 1 ELSE f[k - 1] * Count(k)]
           g == [k \in 0..d |-> Below(k)]
           f == CHOOSE f : IsProduct(f)
           S == {m \in Nat : m <= d => f[m] = Below(m)}
<1>1. dims_count \in Nat /\ d \in Nat /\ d <= dims_count /\ Below(0) = 1
  BY Dimensions
<1>2. ASSUME NEW k \in 1..d
      PROVE  Below(k) = Below(k - 1) * Count(k) /\ k - 1 \in 0..d
  <2>1. k \in 1..dims_count /\ k - 1 \in 0..d
    BY <1>1
  <2> QED BY <2>1, Dimensions
<1>3. IsProduct(g)
  <2> SUFFICES ASSUME NEW k \in 0..d
               PROVE  g[k] = IF k = 0 THEN 1 ELSE g[k - 1] * Count(k)
    OBVIOUS
  <2>1. k = 0 \/ k \in 1..d
    BY <1>1
  <2> QED BY <1>1, <1>2, <2>1
<1>4. IsProduct(f)
  <2> HIDE DEF IsProduct, g
  <2> QED BY <1>3
<1>5. Size(d) = f[d]
  BY DEF Size
<1> HIDE DEF f
<1>6. 0 \in S
  BY <1>1, <1>4
<1>7. ASSUME NEW m \in S PROVE m + 1 \in S
  <2> SUFFICES ASSUME m + 1 <= d PROVE f[m + 1] = Below(m + 1)
    OBVIOUS
  <2>1. m \in Nat /\ m + 1 \in 1..d /\ m + 1 \in 0..d /\ m + 1 # 0
        /\ (m + 1) - 1 = m /\ f[m] = Below(m)
    BY <1>1
  <2>2. f[m + 1] = f[(m + 1) - 1] * Count(m + 1)
    BY <1>4, <2>1
  <2> QED BY <1>2, <2>1, <2>2
<1>8. S = Nat
  <2> HIDE DEF S
  <2>1. S \in SUBSET Nat
    BY DEF S
  <2> QED BY <1>6, <1>7, <2>1, SetInduction
<1>9. d \in S
  BY <1>1, <1>8
<1> QED BY <1>1, <1>5, <1>9

(* The sum of the coordinates, each times its stride, is the number of the NPU. *)
LEMMA AddressSum ==
  ASSUME TypeOK, NetworkShape, NEW a \in Nat, a < npus_count,
         \A d \in 1..dims_count : address[d] = Coordinate(a, d)
  PROVE  LET sum[d \in 0..dims_count] ==
               IF d = 0 THEN 0 ELSE sum[d - 1] + address[d] * strides[d]
         IN  sum[dims_count] = a
<1> DEFINE n == dims_count
           IsSum(f) == f = [d \in 0..n |-> IF d = 0 THEN 0
                                           ELSE f[d - 1] + address[d] * strides[d]]
           g == [d \in 0..n |-> a % Below(d)]
           f == CHOOSE f : IsSum(f)
           S == {m \in Nat : m <= n => f[m] = a % Below(m)}
<1>1. n \in Nat /\ Below(0) = 1 /\ a % 1 = 0
  BY Dimensions
<1>2. ASSUME NEW d \in 1..n
      PROVE  a % Below(d) = (a % Below(d - 1)) + address[d] * strides[d] /\ d - 1 \in 0..n
  BY Dimensions, CoordinateFacts
<1>3. IsSum(g)
  <2> SUFFICES ASSUME NEW d \in 0..n
               PROVE  g[d] = IF d = 0 THEN 0 ELSE g[d - 1] + address[d] * strides[d]
    OBVIOUS
  <2>1. d = 0 \/ d \in 1..n
    BY <1>1
  <2> QED BY <1>1, <1>2, <2>1
<1>4. IsSum(f)
  <2> HIDE DEF IsSum, g
  <2> QED BY <1>3
<1> HIDE DEF f
<1>5. 0 \in S
  BY <1>1, <1>4
<1>6. ASSUME NEW m \in S PROVE m + 1 \in S
  <2> SUFFICES ASSUME m + 1 <= n PROVE f[m + 1] = a % Below(m + 1)
    OBVIOUS
  <2>1. m \in Nat /\ m + 1 \in 1..n /\ m + 1 \in 0..n /\ m + 1 # 0
        /\ (m + 1) - 1 = m /\ f[m] = a % Below(m)
    BY <1>1
  <2>2. f[m + 1] = f[(m + 1) - 1] + address[m + 1] * strides[m + 1]
    BY <1>4, <2>1
  <2> QED BY <1>2, <2>1, <2>2
<1>7. S = Nat
  <2> HIDE DEF S
  <2>1. S \in SUBSET Nat
    BY DEF S
  <2> QED BY <1>5, <1>6, <2>1, SetInduction
<1>8. f[n] = a % npus_count
  BY <1>1, <1>7, Dimensions
<1>9. a % npus_count = a
  <2>1. \A k \in Nat \ {0} : a < k => a % k = a
    OBVIOUS
  <2> QED BY <2>1, Dimensions
<1> QED BY <1>8, <1>9 DEF f

-----------------------------------------------------------------------------
(* The delay of one dimension *)

(* Without a direction, the shorter way around a ring is the shorter of the two *)
(* directions.                                                                  *)
LEMMA RingHopsAreAround ==
  ASSUME NEW n \in Nat \ {0}, NEW i \in 0..(n - 1), NEW j \in 0..(n - 1), i # j
  PROVE  RingHops(n, TRUE, i, j) = Around(n, i, j) /\ Around(n, i, j) \in Nat \ {0}
BY DEF RingHops, Around, ClockwiseDistance

HopsBetween(t, i, j) == CASE t.type = "Ring" -> Around(t.npus_count, i, j)
                          [] t.type = "FullyConnected" -> 1
                          [] t.type = "Switch" -> 2

(* The delay cut to whole ns: the hops between the two, and one serialization. *)
LEMMA BasicDelay ==
  ASSUME NEW t \in Basic, NEW i \in 0..(t.npus_count - 1), NEW j \in 0..(t.npus_count - 1),
         i # j, NEW size \in ChunkSizes
  PROVE  LET unit == t.bandwidth * Resolution
             exact == HopsBetween(t, i, j) * t.latency * t.bandwidth + size * Resolution
             delay == BasicSend(t, i, j, size)
         IN  /\ delay \in Nat
             /\ delay * unit <= exact /\ exact < (delay + 1) * unit
<1>1. /\ t.type \in {"Ring", "FullyConnected", "Switch"} /\ t.npus_count \in Nat \ {0}
      /\ t.bandwidth \in Nat \ {0} /\ t.latency \in Nat
      /\ Resolution \in Nat \ {0} /\ size \in Nat \ {0}
  BY UnawareAssumption DEF Basic
<1>2. /\ compute_hops_count(t, i, j) = HopsBetween(t, i, j)
      /\ HopsBetween(t, i, j) \in Nat \ {0}
  <2>1. CASE t.type = "Ring"
    BY <1>1, <2>1, RingHopsAreAround DEF compute_hops_count, HopsBetween
  <2>2. CASE t.type = "FullyConnected"
    BY <2>2 DEF compute_hops_count, HopsBetween, FullyConnectedHops
  <2>3. CASE t.type = "Switch"
    BY <2>3 DEF compute_hops_count, HopsBetween, SwitchHops
  <2> QED BY <1>1, <2>1, <2>2, <2>3
<1>3. PICK h \in Nat \ {0}, b \in Nat \ {0}, l \in Nat, r \in Nat \ {0}, z \in Nat \ {0} :
        /\ h = HopsBetween(t, i, j) /\ b = t.bandwidth /\ l = t.latency
        /\ r = Resolution /\ z = size
  BY <1>1, <1>2
<1>4. PICK u \in Nat \ {0} : u = b * r
  BY <1>3
<1>5. PICK e \in Nat : e = h * l * b + z * r
  <2>1. h * l \in Nat /\ z * r \in Nat
    BY <1>3
  <2>2. (h * l) * b \in Nat
    BY <1>3, <2>1
  <2> QED BY <2>1, <2>2
<1>6. BasicSend(t, i, j, size) = e \div u
  BY <1>2, <1>3, <1>4, <1>5 DEF BasicSend, compute_communication_delay
<1>7. PICK v \in Nat : v = e \div u
  BY <1>4, <1>5, DivBounds
<1>8. v * u <= e /\ e < v * u + u
  BY <1>4, <1>5, <1>7, DivBounds
<1>9. v * u + u = (v + 1) * u
  <2>1. \A x, y \in Nat : x * y + y = (x + 1) * y
    OBVIOUS
  <2> QED BY ONLY <2>1, <1>4, <1>7
<1> QED BY <1>3, <1>4, <1>5, <1>6, <1>7, <1>8, <1>9

-----------------------------------------------------------------------------
(* The inductive invariant *)

(* The dimensions of an accepted file have sizes, bandwidths and latencies a *)
(* topology can be built with.                                              *)
LEMMA AcceptedDimension ==
  ASSUME TypeOK, Accepted(file), NEW d \in 1..Len(file.topology),
         file.topology[d] # "Reconfig"
  PROVE  BasicTopology(d) \in Basic /\ file.npus_count[d] \in Nat \ {0}
<1>1. /\ file.topology \in Seq(STRING) /\ file.npus_count \in Seq(Int)
      /\ file.bandwidth \in Seq(Int) /\ file.latency \in Seq(Int)
  BY FilesAssumption DEF TypeOK
<1>2. /\ d \in 1..Len(file.npus_count) /\ d \in 1..Len(file.bandwidth)
      /\ d \in 1..Len(file.latency)
      /\ file.npus_count[d] > 1 /\ file.bandwidth[d] > 0 /\ file.latency[d] >= 0
  BY DEF Accepted, check_validity
<1>3. file.npus_count[d] \in Int /\ file.bandwidth[d] \in Int /\ file.latency[d] \in Int
  BY <1>1, <1>2, ElementOfSeq
<1>4. file.npus_count[d] \in Nat \ {0} /\ file.bandwidth[d] \in Nat \ {0}
      /\ file.latency[d] \in Nat
  BY <1>2, <1>3
<1>5. file.topology[d] \in {"Ring", "FullyConnected", "Switch"}
  BY DEF Accepted, AllNamesKnown, TopologyNames
<1> QED BY <1>4, <1>5 DEF BasicTopology, Basic

(* Init establishes the invariant. *)
LEMMA InitUInv ==
  ASSUME Init PROVE UInv
<1>1. dims_count = 0 /\ Len(address) = 0 /\ Len(strides) = 0
  BY DEF Init, dims_count
<1>2. TypeOK
  <2>1. <<>> \in Seq(Basic) /\ <<>> \in Seq(Nat \ {0}) /\ <<>> \in Seq(Int) /\ <<>> \in Seq(Nat)
    OBVIOUS
  <2> QED BY <1>1, <2>1 DEF Init, TypeOK, NoDelay
<1>3. NetworkShape
  BY <1>1 DEF Init, NetworkShape, Below
<1> QED BY <1>1, <1>2, <1>3 DEF Init, UInv, ConstructionOK, RequestOK, LoopOK,
             ExitsOnlyForSameNPU, DelayOfFirstDifference, NoDelay

(* What the operators about the network say depends on the network only. *)
LEMMA NetworkUnchanged ==
  ASSUME UNCHANGED network
  PROVE  /\ dims_count' = dims_count
         /\ \A d : Count(d)' = Count(d) /\ Below(d)' = Below(d)
         /\ \A a, d : Coordinate(a, d)' = Coordinate(a, d)
         /\ NetworkShape' = NetworkShape
BY DEF network, dims_count, Count, Below, Coordinate, NetworkShape

LEMMA ParseUInv ==
  ASSUME UInv, Parse PROVE UInv'
<1>1. UNCHANGED <<file, network, request, loop, src_address, comms_delay>>
      /\ phase = "parse" /\ phase' \in {"network", "exit"}
      /\ (phase' = "network" => Accepted(file))
  BY DEF Parse
<1>2. dims_count = 0 /\ chunk_size = 0 /\ comms_delay = NoDelay
  BY <1>1 DEF UInv, ConstructionOK, RequestOK
<1>3. TypeOK'
  BY <1>1 DEF UInv, TypeOK, network, request, loop, dims_count, Count
<1>4. Len(file.topology) \in Nat
  BY FilesAssumption DEF UInv, TypeOK
<1> QED BY <1>1, <1>2, <1>3, <1>4, NetworkUnchanged
        DEF UInv, ConstructionOK, RequestOK, LoopOK, ExitsOnlyForSameNPU,
            DelayOfFirstDifference, network, request, loop, NoDelay

LEMMA NotSupportedUInv ==
  ASSUME UInv, NotSupported PROVE UInv'
<1>1. /\ UNCHANGED <<file, network, request, loop, src_address, comms_delay>>
      /\ phase = "network" /\ phase' = "exit" /\ dims_count + 1 <= Len(file.topology)
  BY DEF NotSupported
<1>2. chunk_size = 0
  <2>1. dims_count \in Nat /\ dims_count # Len(file.topology)
    BY <1>1, Dimensions DEF UInv
  <2> QED BY <2>1 DEF UInv, RequestOK
<1>3. comms_delay = NoDelay
  BY <1>2 DEF UInv, RequestOK
<1>4. TypeOK'
  BY <1>1 DEF UInv, TypeOK, network, request, loop, dims_count, Count
<1> QED BY <1>1, <1>2, <1>3, <1>4, NetworkUnchanged
        DEF UInv, ConstructionOK, RequestOK, LoopOK, ExitsOnlyForSameNPU,
            DelayOfFirstDifference, network, request, loop, NoDelay

LEMMA AppendDimensionUInv ==
  ASSUME UInv, AppendDimension PROVE UInv'
<1> PICK n \in Nat : n = dims_count
  BY Dimensions DEF UInv
<1> DEFINE t == BasicTopology(n + 1)
<1>1. /\ phase = "network" /\ n + 1 <= Len(file.topology)
      /\ file.topology[n + 1] # "Reconfig"
      /\ npus_count' = npus_count * file.npus_count[n + 1]
      /\ topology_per_dim' = Append(topology_per_dim, t)
      /\ strides' = Append(strides, npus_count)
      /\ UNCHANGED <<file, phase, request, loop, src_address, comms_delay>>
  BY DEF AppendDimension
<1>2. /\ n \in Nat /\ npus_count \in Nat \ {0}
      /\ topology_per_dim \in Seq(Basic) /\ strides \in Seq(Nat \ {0})
      /\ Len(topology_per_dim) = n /\ Len(strides) = n
      /\ Len(file.topology) \in Nat
  BY FilesAssumption DEF UInv, TypeOK, dims_count
<1>3. /\ chunk_size = 0 /\ comms_delay = NoDelay /\ Accepted(file)
      /\ Len(address) <= n
  BY <1>1, <1>2 DEF UInv, RequestOK, ConstructionOK, LoopOK
<1>4. t \in Basic /\ t.npus_count = file.npus_count[n + 1]
      /\ file.npus_count[n + 1] \in Nat \ {0}
  <2>1. n + 1 \in 1..Len(file.topology)
    BY <1>1, <1>2
  <2> QED BY <1>1, <1>3, <2>1, AcceptedDimension DEF UInv, BasicTopology
<1>5. /\ topology_per_dim' \in Seq(Basic) /\ Len(topology_per_dim') = n + 1
      /\ \A d \in 1..n : topology_per_dim'[d] = topology_per_dim[d]
      /\ topology_per_dim'[n + 1] = t
  BY <1>1, <1>2, <1>4, AppendFacts
<1>6. /\ strides' \in Seq(Nat \ {0}) /\ Len(strides') = n + 1
      /\ \A d \in 1..n : strides'[d] = strides[d]
      /\ strides'[n + 1] = npus_count
  BY <1>1, <1>2, AppendFacts
<1>7. npus_count' \in Nat \ {0}
  BY <1>1, <1>2, <1>4
<1>8. dims_count' = n + 1 /\ \A d \in 1..n : Count(d)' = Count(d)
  BY <1>5 DEF dims_count, Count
<1>9. TypeOK'
  <2>1. Len(address) \in Nat
    BY DEF UInv, TypeOK
  <2>2. \A d \in 1..Len(address) : address[d] \in -1..(Count(d)' - 1)
    BY <1>2, <1>3, <1>8, <2>1 DEF UInv, TypeOK
  <2>3. dim \in 0..(n + 1)
    BY <1>2 DEF UInv, TypeOK
  <2> HIDE DEF t
  <2> QED BY <1>1, <1>5, <1>6, <1>7, <1>8, <2>2, <2>3 DEF UInv, TypeOK, request, loop
<1>10. NetworkShape'
  <2>1. \A d \in 0..n : Below(d)' = Below(d)
    <3> SUFFICES ASSUME NEW d \in 0..n PROVE Below(d)' = Below(d)
      OBVIOUS
    <3>1. d # n + 1
      BY <1>2
    <3>2. CASE d = n
      BY <1>6, <1>8, <3>1, <3>2 DEF Below
    <3>3. CASE d # n
      <4>1. d + 1 \in 1..n
        BY <1>2, <3>3
      <4> QED BY <1>6, <1>8, <3>1, <3>3, <4>1 DEF Below
    <3> QED BY <3>2, <3>3
  <2>2. Below(n + 1)' = npus_count'
    BY <1>8 DEF Below
  <2>3. Count(n + 1)' = file.npus_count[n + 1]
    BY <1>4, <1>5 DEF Count
  <2>4. Below(n + 1)' = strides'[n + 1] * Count(n + 1)'
    BY <1>1, <1>6, <2>2, <2>3
  <2>5. Below(0)' = 1
    BY <1>2, <2>1 DEF UInv, NetworkShape
  <2>6. ASSUME NEW d \in 1..(n + 1) PROVE Below(d)' = strides'[d] * Count(d)'
    <3>1. CASE d = n + 1
      BY <2>4, <3>1
    <3>2. CASE d # n + 1
      <4>1. d \in 1..n /\ d \in 0..n
        BY <1>2, <3>2
      <4>2. Below(d) = strides[d] * Count(d)
        BY <4>1 DEF UInv, NetworkShape
      <4> QED BY <1>6, <1>8, <2>1, <4>1, <4>2
    <3> QED BY <3>1, <3>2
  <2> QED BY <1>8, <2>5, <2>6 DEF NetworkShape
<1> QED BY <1>1, <1>2, <1>3, <1>8, <1>9, <1>10
        DEF UInv, ConstructionOK, RequestOK, LoopOK, ExitsOnlyForSameNPU,
            DelayOfFirstDifference, request, loop, NoDelay

(* Both calls of translate_address start with the whole network. *)
LEMMA StartTranslationFacts ==
  ASSUME UInv, NEW n \in {"src", "dest"}, NEW id \in Nat, id < npus_count,
         StartTranslation(n, id), UNCHANGED network
  PROVE  /\ npu' = n /\ dim' = dims_count /\ leftover' = id /\ denominator' = npus_count
         /\ address' \in Seq(Int) /\ Len(address') = dims_count
         /\ \A d \in 1..dims_count : address'[d] \in -1..(Count(d) - 1)
         /\ denominator' = Below(dims_count)
         /\ leftover' = id % denominator'
<1>1. dims_count \in Nat /\ npus_count \in Nat \ {0} /\ Below(dims_count) = npus_count
      /\ \A d \in 1..dims_count : Count(d) \in Nat \ {0}
  BY Dimensions DEF UInv
<1>2. /\ npu' = n /\ dim' = dims_count /\ leftover' = id /\ denominator' = npus_count
      /\ address' = [d \in 1..dims_count |-> -1]
  BY DEF StartTranslation
<1>3. address' \in Seq(Int) /\ Len(address') = dims_count
  <2>1. PICK k \in Nat : k = dims_count
    BY <1>1
  <2>2. [d \in 1..k |-> -1] \in Seq(Int) /\ Len([d \in 1..k |-> -1]) = k
    OBVIOUS
  <2> QED BY <1>2, <2>1, <2>2
<1>4. \A d \in 1..dims_count : -1 \in -1..(Count(d) - 1)
  BY <1>1
<1>5. id % npus_count = id
  <2>1. \A k \in Nat \ {0} : id < k => id % k = id
    OBVIOUS
  <2> QED BY <1>1, <2>1
<1> QED BY <1>1, <1>2, <1>3, <1>4, <1>5

(* The coordinates of an NPU of a network of one dimension: itself. *)
LEMMA OneDimension ==
  ASSUME TypeOK, NetworkShape, dims_count = 1, NEW a \in Nat, a < npus_count
  PROVE  /\ strides[1] = 1 /\ Count(1) = npus_count
         /\ topology_per_dim[1] \in Basic
         /\ Coordinate(a, 1) = a
<1>1. /\ 1 \in 1..dims_count /\ topology_per_dim[1] \in Basic
      /\ strides[1] = Below(0) /\ Below(0) = 1 /\ Below(1) = npus_count
      /\ Below(1) = strides[1] * Count(1) /\ Count(1) \in Nat \ {0}
      /\ npus_count \in Nat \ {0}
  <2>1. 1 \in 1..dims_count /\ 1 - 1 = 0
    OBVIOUS
  <2> QED BY <2>1, Dimensions
<1>2. Count(1) = npus_count
  BY <1>1
<1>3. a \div 1 = a /\ \A n \in Nat \ {0} : a < n => a % n = a
  OBVIOUS
<1> QED BY <1>1, <1>2, <1>3 DEF Coordinate

(* A message between two NPUs whose coordinates first differ in dimension d takes *)
(* the delay of that dimension's topology.                                        *)
LEMMA DelayInDimension ==
  ASSUME TypeOK, NetworkShape, NEW a \in Nat, NEW b \in Nat, NEW size \in ChunkSizes,
         NEW d \in 1..dims_count,
         Coordinate(a, d) # Coordinate(b, d),
         \A k \in 1..(d - 1) : Coordinate(a, k) = Coordinate(b, k)
  PROVE  LET t == topology_per_dim[d]
             i == Coordinate(a, d)
             j == Coordinate(b, d)
             unit == t.bandwidth * Resolution
             exact == HopsBetween(t, i, j) * t.latency * t.bandwidth + size * Resolution
             delay == BasicSend(t, i, j, size)
         IN  /\ delay \in Nat
             /\ a % strides[d] = b % strides[d]
             /\ delay * unit <= exact /\ exact < (delay + 1) * unit
<1>1. topology_per_dim[d] \in Basic /\ Below(d - 1) = strides[d] /\ d - 1 \in 0..dims_count
  BY Dimensions
<1>2. a % strides[d] = b % strides[d]
  BY <1>1, SameCoordinatesSamePosition
<1>3. /\ Coordinate(a, d) \in 0..(topology_per_dim[d].npus_count - 1)
      /\ Coordinate(b, d) \in 0..(topology_per_dim[d].npus_count - 1)
  BY CoordinateFacts DEF Count
<1> QED BY <1>1, <1>2, <1>3, BasicDelay

(* The same, as the property has it. *)
LEMMA DelayIsOfFirstDifference ==
  ASSUME UInv, UNCHANGED network, chunk_size' \in ChunkSizes,
         NEW a \in Nat, src' = a, NEW b \in Nat, dest' = b,
         NEW d \in 1..dims_count,
         Coordinate(a, d) # Coordinate(b, d),
         \A k \in 1..(d - 1) : Coordinate(a, k) = Coordinate(b, k),
         comms_delay' = BasicSend(topology_per_dim[d], Coordinate(a, d), Coordinate(b, d),
                                  chunk_size')
  PROVE  comms_delay' \in Nat /\ DelayOfFirstDifference'
<1>1. PICK z \in ChunkSizes : z = chunk_size'
  OBVIOUS
<1> DEFINE t == topology_per_dim[d]
           unit == t.bandwidth * Resolution
           exact == HopsBetween(t, Coordinate(a, d), Coordinate(b, d)) * t.latency
                      * t.bandwidth + z * Resolution
<1>2. /\ comms_delay' \in Nat
      /\ a % strides[d] = b % strides[d]
      /\ comms_delay' * unit <= exact /\ exact < (comms_delay' + 1) * unit
  BY <1>1, DelayInDimension DEF UInv
<1>3. /\ topology_per_dim' = topology_per_dim /\ strides' = strides
      /\ dims_count' = dims_count
      /\ Coordinate(a, d)' = Coordinate(a, d) /\ Coordinate(b, d)' = Coordinate(b, d)
  BY NetworkUnchanged DEF network
<1>4. Coordinate(src, d)' = Coordinate(a, d) /\ Coordinate(dest, d)' = Coordinate(b, d)
  BY <1>3 DEF Coordinate
<1> QED BY <1>1, <1>2, <1>3, <1>4 DEF DelayOfFirstDifference, HopsBetween

LEMMA SendUInv ==
  ASSUME UInv, NEW s \in 0..(npus_count - 1), NEW d \in 0..(npus_count - 1),
         NEW size \in ChunkSizes, Send(s, d, size)
  PROVE  UInv'
<1>1. /\ phase = "network" /\ Built /\ comms_delay = NoDelay
      /\ (dims_count = 1 => s # d)
      /\ src' = s /\ dest' = d /\ chunk_size' = size
      /\ UNCHANGED <<file, network, src_address>>
  BY DEF Send
<1>2. npus_count \in Nat \ {0} /\ dims_count \in Nat
  BY Dimensions DEF UInv
<1>3. s \in Nat /\ d \in Nat /\ s < npus_count /\ d < npus_count
  BY <1>2
<1>4. size \in Nat \ {0} /\ size \in ChunkSizes
  BY UnawareAssumption
<1>5. /\ npus_count' = npus_count /\ topology_per_dim' = topology_per_dim
      /\ strides' = strides /\ file' = file /\ src_address' = src_address
      /\ dims_count' = dims_count /\ NetworkShape'
      /\ \A k : Count(k)' = Count(k)
  BY <1>1, NetworkUnchanged DEF network, UInv
<1>6. Accepted(file) /\ dims_count = Len(file.topology)
  BY <1>1 DEF UInv, ConstructionOK, Built
<1>7. CASE dims_count = 1
  <2>1. /\ comms_delay' = BasicSend(topology_per_dim[1], s, d, size)
        /\ phase' = phase /\ UNCHANGED loop
    BY <1>7 DEF Send
  <2>2. Coordinate(s, 1) = s /\ Coordinate(d, 1) = d
    BY <1>3, <1>7, OneDimension DEF UInv
  <2>3. comms_delay' \in Nat /\ DelayOfFirstDifference'
    <3>1. UNCHANGED network /\ chunk_size' \in ChunkSizes /\ 1 \in 1..dims_count
          /\ \A k \in 1..(1 - 1) : Coordinate(s, k) = Coordinate(d, k)
      BY <1>1, <1>7
    <3> QED BY <1>1, <1>3, <1>7, <2>1, <2>2, <3>1, DelayIsOfFirstDifference
  <2>4. TypeOK'
    BY <1>1, <1>3, <1>4, <1>5, <2>1, <2>3 DEF UInv, TypeOK, loop
  <2>5. LoopOK'
    BY <1>1, <1>5, <2>1 DEF UInv, LoopOK, loop
  <2> QED BY <1>1, <1>2, <1>3, <1>4, <1>5, <1>6, <1>7, <2>1, <2>3, <2>4, <2>5
          DEF UInv, ConstructionOK, RequestOK, ExitsOnlyForSameNPU
<1>8. CASE dims_count # 1
  <2>1. /\ phase' = "translate" /\ StartTranslation("src", s)
        /\ comms_delay' = comms_delay
    BY <1>8 DEF Send
  <2>2. /\ npu' = "src" /\ dim' = dims_count /\ leftover' = s /\ denominator' = npus_count
        /\ address' \in Seq(Int) /\ Len(address') = dims_count
        /\ \A k \in 1..dims_count : address'[k] \in -1..(Count(k) - 1)
        /\ denominator' = Below(dims_count) /\ leftover' = s % denominator'
    <3>1. UNCHANGED network
      BY <1>1
    <3> QED BY <1>3, <2>1, <3>1, StartTranslationFacts
  <2>3. TypeOK'
    <3>1. /\ file \in Files /\ topology_per_dim \in Seq(Basic)
          /\ strides \in Seq(Nat \ {0}) /\ Len(strides) = dims_count
          /\ src_address \in Seq(Nat) /\ comms_delay \in Nat \cup {NoDelay}
      BY DEF UInv, TypeOK
    <3>2. dims_count \in 0..dims_count
      BY <1>2
    <3> QED BY <1>1, <1>2, <1>3, <1>4, <1>5, <2>1, <2>2, <3>1, <3>2 DEF TypeOK
  <2>4. LoopOK'
    <3>1. Below(dim)' = Below(dims_count)
      BY <1>5, <2>2 DEF Below
    <3>2. \A k \in (dim' + 1)..dims_count : FALSE
      BY <1>2, <2>2
    <3>3. Translated' = s
      BY <1>1, <2>2 DEF Translated
    <3> QED BY <1>1, <1>2, <1>4, <1>5, <2>1, <2>2, <3>1, <3>2, <3>3 DEF LoopOK
  <2> QED BY <1>1, <1>2, <1>3, <1>4, <1>5, <1>6, <2>1, <2>3, <2>4
          DEF UInv, ConstructionOK, RequestOK, ExitsOnlyForSameNPU, DelayOfFirstDifference
<1> QED BY <1>7, <1>8

LEMMA TranslateUInv ==
  ASSUME UInv, Translate PROVE UInv'
<1>1. /\ phase = "translate" /\ dim > 0
      /\ denominator' = denominator \div Count(dim)
      /\ address' = [address EXCEPT ![dim] = leftover \div denominator']
      /\ leftover' = leftover % denominator'
      /\ dim' = dim - 1
      /\ UNCHANGED <<file, phase, network, request, npu, src_address, comms_delay>>
  BY DEF Translate
<1>2. PICK d \in 1..dims_count, a \in Nat : d = dim /\ a = Translated
  <2>1. dim \in 1..dims_count /\ Translated \in Nat
    BY <1>1, Dimensions DEF UInv, TypeOK, Translated
  <2> QED BY <2>1
<1>3. /\ chunk_size # 0 /\ comms_delay = NoDelay
      /\ Len(address) = dims_count
      /\ denominator = Below(d)
      /\ leftover = a % denominator
      /\ \A k \in (d + 1)..dims_count : address[k] = Coordinate(a, k)
      /\ (npu = "dest" =>
           \A k \in 1..dims_count : src_address[k] = Coordinate(src, k))
  BY <1>1, <1>2 DEF UInv, LoopOK
<1>4. /\ denominator' = strides[d]
      /\ leftover \div denominator' = Coordinate(a, d)
      /\ leftover' = a % strides[d]
  BY <1>1, <1>2, <1>3, CoordinateFacts DEF UInv
<1>5. /\ strides[d] \in Nat \ {0} /\ Below(d - 1) = strides[d] /\ d - 1 \in 0..dims_count
      /\ d - 1 # dims_count /\ dims_count \in Nat
      /\ Coordinate(a, d) \in Nat /\ Coordinate(a, d) \in 0..(Count(d) - 1)
  BY Dimensions, CoordinateFacts DEF UInv
<1>6. /\ address' \in Seq(Int) /\ Len(address') = dims_count
      /\ address'[d] = Coordinate(a, d)
      /\ \A k \in 1..dims_count : k # d => address'[k] = address[k]
  <2>1. address \in Seq(Int)
    BY DEF UInv, TypeOK
  <2> QED BY <1>1, <1>2, <1>3, <1>4, <1>5, <2>1, ExceptSeq
<1>7. /\ npus_count' = npus_count /\ topology_per_dim' = topology_per_dim
      /\ strides' = strides /\ dims_count' = dims_count /\ NetworkShape'
      /\ \A k : Count(k)' = Count(k) /\ Below(k)' = Below(k)
      /\ \A b, k : Coordinate(b, k)' = Coordinate(b, k)
  BY <1>1, NetworkUnchanged DEF network, UInv
<1>8. a % strides[d] \in Nat
  BY <1>5
<1>9. TypeOK'
  <2>1. \A k \in 1..dims_count : address'[k] \in -1..(Count(k) - 1)
    <3> SUFFICES ASSUME NEW k \in 1..dims_count PROVE address'[k] \in -1..(Count(k) - 1)
      OBVIOUS
    <3>1. CASE k = d
      <4>1. Count(d) \in Nat
        BY Dimensions DEF UInv
      <4> QED BY <1>5, <1>6, <3>1, <4>1
    <3>2. CASE k # d
      BY <1>3, <1>6, <3>2 DEF UInv, TypeOK
    <3> QED BY <3>1, <3>2
  <2>2. /\ file \in Files /\ npus_count \in Nat \ {0} /\ topology_per_dim \in Seq(Basic)
        /\ strides \in Seq(Nat \ {0}) /\ Len(strides) = dims_count
        /\ src \in Nat /\ dest \in Nat /\ chunk_size \in ChunkSizes \cup {0}
        /\ npu \in {"src", "dest"}
        /\ src_address \in Seq(Nat) /\ comms_delay \in Nat \cup {NoDelay}
    BY DEF UInv, TypeOK
  <2> QED BY <1>1, <1>2, <1>4, <1>5, <1>6, <1>7, <1>8, <2>1, <2>2 DEF TypeOK, request
<1>10. LoopOK'
  <2>1. Translated' = a /\ src' = src /\ npu' = npu
    BY <1>1, <1>2 DEF Translated, request
  <2>2. \A k \in ((d - 1) + 1)..dims_count : address'[k] = Coordinate(a, k)
    <3> SUFFICES ASSUME NEW k \in ((d - 1) + 1)..dims_count
                 PROVE  address'[k] = Coordinate(a, k)
      OBVIOUS
    <3>1. k = d \/ k \in (d + 1)..dims_count
      BY <1>5
    <3>2. k # d => k \in 1..dims_count
      BY <1>5
    <3> QED BY <1>3, <1>6, <3>1, <3>2
  <2> QED BY <1>1, <1>2, <1>3, <1>4, <1>5, <1>6, <1>7, <2>1, <2>2 DEF LoopOK, request
<1> QED BY <1>1, <1>3, <1>7, <1>9, <1>10
        DEF UInv, ConstructionOK, RequestOK, ExitsOnlyForSameNPU, DelayOfFirstDifference, request

LEMMA SrcTranslatedUInv ==
  ASSUME UInv, SrcTranslated PROVE UInv'
<1>1. /\ phase = "translate" /\ dim = 0 /\ npu = "src"
      /\ src_address' = address
      /\ StartTranslation("dest", dest)
      /\ UNCHANGED <<file, phase, network, request, comms_delay>>
  BY DEF SrcTranslated
<1>2. /\ chunk_size # 0 /\ comms_delay = NoDelay
      /\ Len(address) = dims_count
      /\ \A k \in 1..dims_count : address[k] = Coordinate(src, k)
      /\ dest \in Nat /\ src \in Nat /\ dest < npus_count
      /\ address \in Seq(Int)
  <2>1. 0 + 1 = 1
    OBVIOUS
  <2> QED BY <1>1, <2>1 DEF UInv, LoopOK, RequestOK, TypeOK, Translated
<1>3. /\ npu' = "dest" /\ dim' = dims_count /\ leftover' = dest /\ denominator' = npus_count
      /\ address' \in Seq(Int) /\ Len(address') = dims_count
      /\ \A k \in 1..dims_count : address'[k] \in -1..(Count(k) - 1)
      /\ denominator' = Below(dims_count) /\ leftover' = dest % denominator'
  <2>1. UNCHANGED network
    BY <1>1
  <2> QED BY <1>1, <1>2, <2>1, StartTranslationFacts
<1>4. npus_count \in Nat \ {0} /\ dims_count \in Nat
  BY Dimensions DEF UInv
<1>5. src_address' \in Seq(Nat)
  <2>1. \A k \in 1..Len(address) : address[k] \in Nat
    BY <1>2, CoordinateFacts DEF UInv
  <2> QED BY <1>1, <1>2, <2>1, SeqDef
<1>6. /\ npus_count' = npus_count /\ topology_per_dim' = topology_per_dim
      /\ strides' = strides /\ dims_count' = dims_count /\ NetworkShape'
      /\ \A k : Count(k)' = Count(k) /\ Below(k)' = Below(k)
      /\ \A b, k : Coordinate(b, k)' = Coordinate(b, k)
  BY <1>1, NetworkUnchanged DEF network, UInv
<1>7. TypeOK'
  <2>1. /\ file \in Files /\ topology_per_dim \in Seq(Basic)
        /\ strides \in Seq(Nat \ {0}) /\ Len(strides) = dims_count
        /\ chunk_size \in ChunkSizes \cup {0} /\ comms_delay \in Nat \cup {NoDelay}
    BY DEF UInv, TypeOK
  <2>2. dims_count \in 0..dims_count
    BY <1>4
  <2> QED BY <1>1, <1>2, <1>3, <1>4, <1>5, <1>6, <2>1, <2>2 DEF TypeOK, request
<1>8. LoopOK'
  <2>1. \A k \in (dim' + 1)..dims_count : FALSE
    BY <1>3, <1>4
  <2>2. Translated' = dest /\ src' = src
    BY <1>1, <1>3 DEF Translated, request
  <2>3. Below(dim)' = Below(dims_count)
    BY <1>3, <1>6 DEF Below
  <2>4. \A k : Coordinate(src, k)' = Coordinate(src, k)
    BY <1>6, <2>2 DEF Coordinate
  <2>5. \A k \in 1..dims_count : src_address'[k] = Coordinate(src, k)'
    BY <1>1, <1>2, <2>4
  <2>6. chunk_size' # 0 /\ comms_delay' = NoDelay
    BY <1>1, <1>2 DEF request
  <2> QED BY <1>1, <1>3, <1>4, <1>6, <2>1, <2>2, <2>3, <2>5, <2>6 DEF LoopOK
<1> QED BY <1>1, <1>2, <1>6, <1>7, <1>8
        DEF UInv, ConstructionOK, RequestOK, ExitsOnlyForSameNPU, DelayOfFirstDifference, request

(* When both translations are complete, the addresses are those of the two NPUs. *)
LEMMA BothTranslated ==
  ASSUME UInv, phase = "translate", dim = 0, npu = "dest"
  PROVE  /\ src \in Nat /\ dest \in Nat /\ src < npus_count /\ dest < npus_count
         /\ chunk_size \in ChunkSizes /\ chunk_size # 0 /\ comms_delay = NoDelay
         /\ \A d \in 1..dims_count :
              src_address[d] = Coordinate(src, d) /\ address[d] = Coordinate(dest, d)
<1>1. 0 + 1 = 1
  OBVIOUS
<1> QED BY <1>1 DEF UInv, LoopOK, RequestOK, TypeOK, Translated

LEMMA TransferUInv ==
  ASSUME UInv, Transfer PROVE UInv'
<1>1. /\ phase = "translate" /\ dim = 0 /\ npu = "dest"
      /\ phase' = "network"
      /\ UNCHANGED <<file, network, request, loop, src_address>>
  BY DEF Transfer
<1>2. PICK d \in 1..dims_count :
        /\ src_address[d] # address[d]
        /\ \A k \in 1..(d - 1) : src_address[k] = address[k]
        /\ comms_delay' = BasicSend(topology_per_dim[d], src_address[d], address[d], chunk_size)
  BY DEF Transfer, IsDimToTransfer
<1>3. PICK a \in Nat, b \in Nat : a = src /\ b = dest
  BY <1>1, BothTranslated
<1>4. /\ a < npus_count /\ b < npus_count
      /\ chunk_size \in ChunkSizes /\ chunk_size # 0
      /\ \A k \in 1..dims_count :
           src_address[k] = Coordinate(a, k) /\ address[k] = Coordinate(b, k)
  BY <1>1, <1>3, BothTranslated
<1>5. dims_count \in Nat /\ \A k \in 1..(d - 1) : k \in 1..dims_count
  BY Dimensions DEF UInv
<1>6. /\ Coordinate(a, d) # Coordinate(b, d)
      /\ \A k \in 1..(d - 1) : Coordinate(a, k) = Coordinate(b, k)
      /\ comms_delay' = BasicSend(topology_per_dim[d], Coordinate(a, d), Coordinate(b, d),
                                  chunk_size')
  BY <1>1, <1>2, <1>4, <1>5 DEF request
<1>7. comms_delay' \in Nat /\ DelayOfFirstDifference'
  <2>1. UNCHANGED network /\ chunk_size' \in ChunkSizes /\ src' = a /\ dest' = b
    BY <1>1, <1>3, <1>4 DEF request
  <2> QED BY <1>6, <2>1, DelayIsOfFirstDifference
<1>8. /\ npus_count' = npus_count /\ topology_per_dim' = topology_per_dim
      /\ strides' = strides /\ dims_count' = dims_count /\ NetworkShape'
      /\ \A k : Count(k)' = Count(k)
  BY <1>1, NetworkUnchanged DEF network, UInv
<1>9. TypeOK'
  BY <1>1, <1>7, <1>8 DEF UInv, TypeOK, request, loop
<1>10. LoopOK'
  BY <1>1, <1>8 DEF UInv, LoopOK, loop
<1>11. src # dest
  BY <1>3, <1>6
<1> QED BY <1>1, <1>4, <1>7, <1>8, <1>9, <1>10, <1>11
        DEF UInv, ConstructionOK, RequestOK, ExitsOnlyForSameNPU, request

LEMMA NoDimToTransferUInv ==
  ASSUME UInv, NoDimToTransfer PROVE UInv'
<1>1. /\ phase = "translate" /\ dim = 0 /\ npu = "dest"
      /\ \A d \in 1..dims_count : ~IsDimToTransfer(d)
      /\ phase' = "exit"
      /\ UNCHANGED <<file, network, request, loop, src_address, comms_delay>>
  BY DEF NoDimToTransfer
<1> DEFINE S == {m \in Nat : \A k \in 1..m : k <= dims_count => src_address[k] = address[k]}
<1>2. 0 \in S
  OBVIOUS
<1>3. ASSUME NEW m \in S PROVE m + 1 \in S
  <2> SUFFICES ASSUME NEW k \in 1..(m + 1), k <= dims_count
               PROVE  src_address[k] = address[k]
    OBVIOUS
  <2>1. m \in Nat /\ dims_count \in Nat
    BY Dimensions DEF UInv
  <2>2. CASE k \in 1..m
    BY <2>2
  <2>3. CASE k = m + 1
    <3>1. k \in 1..dims_count /\ \A j \in 1..(k - 1) : src_address[j] = address[j]
      BY <2>1, <2>3
    <3> QED BY <1>1, <3>1 DEF IsDimToTransfer
  <2> QED BY <2>1, <2>2, <2>3
<1>4. S = Nat
  <2> HIDE DEF S
  <2>1. S \in SUBSET Nat
    BY DEF S
  <2> QED BY <1>2, <1>3, <2>1, SetInduction
<1>5. dims_count \in Nat
  BY Dimensions DEF UInv
<1>6. \A k \in 1..dims_count : src_address[k] = address[k]
  BY <1>4, <1>5
<1>7. src = dest
  <2>1. \A k \in 1..dims_count : Coordinate(src, k) = Coordinate(dest, k)
    BY <1>1, <1>6, BothTranslated
  <2> QED BY <1>1, <2>1, BothTranslated, SameAddressSameNPU DEF UInv
<1>8. comms_delay = NoDelay
  BY <1>1, BothTranslated
<1>9. /\ npus_count' = npus_count /\ topology_per_dim' = topology_per_dim
      /\ strides' = strides /\ dims_count' = dims_count /\ NetworkShape'
      /\ \A k : Count(k)' = Count(k)
  BY <1>1, NetworkUnchanged DEF network, UInv
<1>10. TypeOK'
  BY <1>1, <1>9 DEF UInv, TypeOK, request, loop
<1> QED BY <1>1, <1>7, <1>8, <1>9, <1>10
        DEF UInv, ConstructionOK, RequestOK, LoopOK, ExitsOnlyForSameNPU,
            DelayOfFirstDifference, request, loop

LEMMA StutterUInv ==
  ASSUME UInv, UNCHANGED vars PROVE UInv'
<1>1. UNCHANGED <<file, phase, network, request, loop, src_address, comms_delay>>
  BY DEF vars, network, request, loop
<1>2. TypeOK'
  BY <1>1 DEF UInv, TypeOK, network, request, loop, dims_count, Count
<1> QED BY <1>1, <1>2, NetworkUnchanged
        DEF UInv, ConstructionOK, RequestOK, LoopOK, ExitsOnlyForSameNPU,
            DelayOfFirstDifference, network, request, loop, Translated

(* The invariant holds in every state: what all theorems below rest on. *)
THEOREM UnawareInvariant == Spec => []UInv
<1>1. UInv /\ [Next]_vars => UInv'
  BY ParseUInv, AppendDimensionUInv, NotSupportedUInv, SendUInv, TranslateUInv,
     SrcTranslatedUInv, TransferUInv, NoDimToTransferUInv, StutterUInv DEF Next
<1> QED BY <1>1, InitUInv, PTL DEF Spec

(* The variables keep their types: above all, no denominator and no size that *)
(* the program divides by is 0.                                               *)
THEOREM UnawareTypeCorrect == Spec => []TypeOK
<1>1. UInv => TypeOK
  BY DEF UInv
<1> QED BY <1>1, UnawareInvariant, PTL

(* translate_address computes the coordinates of the NPU, and its divisions of *)
(* the number of NPUs have no remainder.                                        *)
THEOREM AddressTranslation == Spec => []TranslationIsExact
<1>1. UInv => TranslationIsExact
  <2> SUFFICES ASSUME UInv, phase = "translate"
               PROVE  /\ npus_count = Size(dims_count)
                      /\ denominator = Size(dim)
                      /\ leftover = Translated % denominator
                      /\ \A d \in (dim + 1)..dims_count :
                           address[d] = Coordinate(Translated, d)
    BY DEF TranslationIsExact
  <2>1. dims_count \in 0..dims_count /\ Below(dims_count) = npus_count
    BY Dimensions DEF UInv
  <2>2. dim \in 0..dims_count
    BY DEF UInv, TypeOK
  <2>3. Size(dims_count) = Below(dims_count) /\ Size(dim) = Below(dim)
    BY <2>1, <2>2, SizeIsBelow DEF UInv
  <2> QED BY <2>1, <2>3 DEF UInv, LoopOK
<1> QED BY <1>1, UnawareInvariant, PTL

(* A complete address leads back to the NPU: no two NPUs share one. *)
THEOREM AddressesDiffer == Spec => []AddressDeterminesNPU
<1>1. UInv => AddressDeterminesNPU
  <2> SUFFICES ASSUME UInv, phase = "translate", dim = 0 PROVE AddressDeterminesNPU
    BY DEF AddressDeterminesNPU
  <2>1. Translated \in Nat /\ Translated < npus_count
    BY DEF UInv, LoopOK, RequestOK, TypeOK, Translated
  <2>2. \A d \in 1..dims_count : address[d] = Coordinate(Translated, d)
    <3>1. 0 + 1 = 1
      OBVIOUS
    <3> QED BY <3>1 DEF UInv, LoopOK
  <2> QED BY <2>1, <2>2, AddressSum DEF UInv, AddressDeterminesNPU
<1> QED BY <1>1, UnawareInvariant, PTL

(* send() ends the program for a message of an NPU to itself, and for no other. *)
THEOREM OnlySelfMessagesExit == Spec => []ExitsOnlyForSameNPU
<1>1. UInv => ExitsOnlyForSameNPU
  BY DEF UInv
<1> QED BY <1>1, UnawareInvariant, PTL

(* The result of send() is the delay of the first dimension in which the two NPUs *)
(* differ: the shorter way around a ring, one hop or two, and one serialization.   *)
THEOREM DelayIsOfOneDimension == Spec => []DelayOfFirstDifference
<1>1. UInv => DelayOfFirstDifference
  BY DEF UInv
<1> QED BY <1>1, UnawareInvariant, PTL
=============================================================================
