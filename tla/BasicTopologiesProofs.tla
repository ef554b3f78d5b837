------------------------ MODULE BasicTopologiesProofs -----------------------
(***************************************************************************)
(* Proofs about BasicTopologies, for every number of NPUs: what the        *)
(* constructors connect, that a route is a shortest path over it, and that *)
(* the two backends count the same number of hops.                         *)
(*                                                                         *)
(* Every loop is described by what it leaves: the calls of connect() that  *)
(* the nested loops make, and the places that the walk around a ring has   *)
(* been to.  A route is then shortest by levels: numbers for the devices,  *)
(* 0 for the source, that no link raises by more than one.                 *)
(***************************************************************************)
EXTENDS BasicTopologies, ProofLemmas

Calls(D) == [src : D, dest : D, bidirectional : BOOLEAN]

-----------------------------------------------------------------------------
(* The calls of the constructors *)

LEMMA CallFacts ==
  ASSUME NEW D, NEW i \in D, NEW j \in D, NEW both \in BOOLEAN
  PROVE  /\ Call(i, j, both) \in Calls(D)
         /\ Call(i, j, both).src = i /\ Call(i, j, both).dest = j
         /\ Call(i, j, both).bidirectional = both
BY DEF Call, Calls

LEMMA LinksOfCall ==
  ASSUME NEW D, NEW c \in Calls(D)
  PROVE  LinksOf(c) \subseteq D \X D
BY DEF LinksOf, Calls

(* Round k of two nested loops over n devices. *)
PairAt(n, k) == <<(k - 1) \div n, (k - 1) % n>>

(* Every pair has its round. *)
LEMMA PairsAreRounds ==
  ASSUME NEW n \in Nat \ {0}
  PROVE  /\ n * n \in Nat
         /\ \A k \in 1..(n * n) : PairAt(n, k) \in Pairs(n)
         /\ \A j, k \in 1..(n * n) : PairAt(n, j) = PairAt(n, k) => j = k
         /\ \A p \in Pairs(n) : \E k \in 1..(n * n) : PairAt(n, k) = p
<1>1. PICK m \in Nat : m = n * n
  OBVIOUS
<1>2. ASSUME NEW k \in 1..m
      PROVE  /\ (k - 1) \div n \in 0..(n - 1) /\ (k - 1) % n \in 0..(n - 1)
             /\ k = ((k - 1) \div n) * n + ((k - 1) % n) + 1
  <2>1. k - 1 \in Nat /\ k - 1 < m
    BY <1>1
  <2>2. PICK u \in Nat, v \in Nat : /\ u = (k - 1) \div n /\ v = (k - 1) % n
                                    /\ k - 1 = u * n + v /\ v < n
    BY <2>1, DivBounds
  <2>3. u < n
    <3>1. n <= (k - 1) \div n <=> n * n <= k - 1
      BY <2>1, DivAtLeast
    <3> QED BY ONLY <1>1, <2>1, <2>2, <3>1, n \in Nat \ {0}
  <2>4. PICK w \in Nat : w = u * n
    BY <2>2
  <2> QED BY <2>2, <2>3, <2>4
<1>3. ASSUME NEW j \in 1..m, NEW k \in 1..m, PairAt(n, j) = PairAt(n, k) PROVE j = k
  <2>1. (j - 1) \div n = (k - 1) \div n /\ (j - 1) % n = (k - 1) % n
    BY <1>3 DEF PairAt
  <2> QED BY ONLY <2>1, <1>2, j \in 1..m, k \in 1..m
<1>4. ASSUME NEW p \in Pairs(n) PROVE \E k \in 1..m : PairAt(n, k) = p
  <2>1. PICK i \in 0..(n - 1), j \in 0..(n - 1) : p = <<i, j>>
    BY DEF Pairs
  <2>2. PICK a \in Nat : a = i * n + j
    BY <2>1
  <2>3. a \div n = i /\ a % n = j
    <3>1. a \in Nat /\ i \in Nat /\ j \in Nat /\ j < n
      BY <2>1, <2>2
    <3> QED BY <2>2, <3>1, DivUnique
  <2>4. a < m
    <3>1. PICK d \in Nat : n = i + 1 + d
      <4>1. n - (i + 1) \in Nat /\ n = i + 1 + (n - (i + 1))
        BY <2>1
      <4> QED BY <4>1
    <3>2. m = i * n + n + d * n /\ i * n \in Nat /\ d * n \in Nat
      BY <1>1, <2>1, <3>1
    <3> QED BY <2>1, <2>2, <3>2
  <2>5. a + 1 \in 1..m /\ (a + 1) - 1 = a
    BY <1>1, <2>2, <2>4
  <2>6. PairAt(n, a + 1) = p
    BY <2>1, <2>3, <2>5 DEF PairAt
  <2> QED BY <2>5, <2>6
<1>5. \A k \in 1..m : PairAt(n, k) \in Pairs(n)
  BY <1>2 DEF PairAt, Pairs
<1> QED BY <1>1, <1>3, <1>4, <1>5

(* Two nested loops connect every pair that is chosen, once. *)
IsLoop(x, n, chosen, both) ==
  /\ x \in Seq(Calls(0..(n - 1)))
  /\ \A i \in 1..Len(x) : \E p \in chosen : x[i] = Call(p[1], p[2], both)
  /\ \A p \in chosen : \E i \in 1..Len(x) : x[i] = Call(p[1], p[2], both)
  /\ \A i, j \in 1..Len(x) : x[i] = x[j] => i = j

LEMMA LoopConnectsPairs ==
  ASSUME NEW n \in Nat \ {0}, NEW chosen \in SUBSET Pairs(n), NEW both \in BOOLEAN
  PROVE  IsLoop(LoopConnects(n, chosen, both), n, chosen, both)
<1> DEFINE T == Calls(0..(n - 1))
<1>1. PICK b \in Nat : b = n * n
  BY PairsAreRounds
<1> DEFINE CallAt(k) == Call((k - 1) \div n, (k - 1) % n, both)
           rounds == {k \in 1..b : PairAt(n, k) \in chosen}
           IsLists(f) == f = [k \in 0..b |->
                                IF k = 0 THEN <<>>
                                ELSE IF PairAt(n, k) \in chosen
                                     THEN Append(f[k - 1], CallAt(k)) ELSE f[k - 1]]
           lists == CHOOSE f : IsLists(f)
<1>2. PICK item : item = [k \in 1..b |-> CallAt(k)]
  OBVIOUS
<1>3. \A k \in 1..b : /\ PairAt(n, k) \in Pairs(n)
                      /\ item[k] = Call(PairAt(n, k)[1], PairAt(n, k)[2], both)
  BY <1>1, <1>2, PairsAreRounds DEF PairAt
<1>4. item \in [1..b -> T]
  <2> SUFFICES ASSUME NEW k \in 1..b PROVE item[k] \in T
    BY <1>2
  <2>1. PairAt(n, k)[1] \in 0..(n - 1) /\ PairAt(n, k)[2] \in 0..(n - 1)
    BY <1>3 DEF Pairs
  <2>2. PICK i \in 0..(n - 1), j \in 0..(n - 1) :
               i = PairAt(n, k)[1] /\ j = PairAt(n, k)[2]
    BY <2>1
  <2>3. Call(i, j, both) \in T
    BY ONLY both \in BOOLEAN, CallFacts
  <2> QED BY <1>3, <2>2, <2>3
<1>5. \A j, k \in 1..b : item[j] = item[k] => j = k
  <2> SUFFICES ASSUME NEW j \in 1..b, NEW k \in 1..b, item[j] = item[k] PROVE j = k
    OBVIOUS
  <2>1. PairAt(n, j)[1] = PairAt(n, k)[1] /\ PairAt(n, j)[2] = PairAt(n, k)[2]
    <3>1. \A a, c, d, e : Call(a, c, both) = Call(d, e, both) => a = d /\ c = e
      <4>1. \A a, c : Call(a, c, both).src = a /\ Call(a, c, both).dest = c
        BY DEF Call
      <4> HIDE DEF Call
      <4> QED BY ONLY <4>1
    <3> QED BY <1>3, <3>1
  <2>2. PairAt(n, j) = PairAt(n, k)
    BY <2>1 DEF PairAt
  <2> QED BY <1>1, <2>2, PairsAreRounds
<1>6. \A f : IsLists(f) <=> IsCollected(f, b, rounds, item)
  <2> SUFFICES ASSUME NEW f PROVE IsLists(f) <=> IsCollected(f, b, rounds, item)
    OBVIOUS
  <2>1. ASSUME NEW k \in 0..b
        PROVE  (IF k = 0 THEN <<>>
                ELSE IF PairAt(n, k) \in chosen
                     THEN Append(f[k - 1], CallAt(k)) ELSE f[k - 1])
             = (IF k = 0 THEN <<>>
                ELSE IF k \in rounds THEN Append(f[k - 1], item[k]) ELSE f[k - 1])
    <3>1. k = 0 \/ k \in 1..b
      BY <1>1
    <3>2. CASE k \in 1..b
      <4>1. (k \in rounds <=> PairAt(n, k) \in chosen) /\ item[k] = CallAt(k)
        BY <1>2, <3>2
      <4> HIDE DEF rounds, CallAt
      <4> QED BY <4>1
    <3> QED BY <3>1, <3>2
  <2> HIDE DEF rounds, CallAt
  <2> QED BY <2>1 DEF IsCollected
<1>7. IsCollected(lists, b, rounds, item)
  <2>1. \E f : IsLists(f)
    <3> HIDE DEF IsLists, rounds
    <3> QED BY <1>4, <1>6, CollectExists
  <2>2. IsLists(lists)
    <3> HIDE DEF IsLists
    <3> QED BY <2>1
  <2> HIDE DEF lists, IsLists, rounds
  <2> QED BY <1>6, <2>2
<1>8. LoopConnects(n, chosen, both) = lists[b]
  BY <1>1 DEF LoopConnects, PairAt
<1>9. PICK x : x = LoopConnects(n, chosen, both)
  OBVIOUS
<1>10. Collects(x, T, rounds, item)
  <2>1. rounds \in SUBSET (1..b)
    OBVIOUS
  <2> HIDE DEF lists, rounds, T
  <2>2. PICK f : f = lists
    OBVIOUS
  <2>3. Collects(f[b], T, rounds, item)
    BY ONLY b \in Nat, <1>4, <1>5, <1>7, <2>1, <2>2, CollectedList
  <2> QED BY <1>8, <1>9, <2>2, <2>3
<1>11. \A p \in chosen : \E k \in rounds : PairAt(n, k) = p
  BY <1>1, PairsAreRounds
<1>12. \A i \in 1..Len(x) : \E p \in chosen : x[i] = Call(p[1], p[2], both)
  BY <1>3, <1>10 DEF Collects
<1>13. \A p \in chosen : \E i \in 1..Len(x) : x[i] = Call(p[1], p[2], both)
  <2> SUFFICES ASSUME NEW p \in chosen PROVE \E i \in 1..Len(x) : x[i] = Call(p[1], p[2], both)
    OBVIOUS
  <2>1. PICK k \in rounds : PairAt(n, k) = p
    BY <1>11
  <2>2. k \in 1..b /\ item[k] = Call(p[1], p[2], both)
    BY <1>3, <2>1
  <2>3. \E i \in 1..Len(x) : x[i] = item[k]
    <3> HIDE DEF rounds
    <3> QED BY <1>10 DEF Collects
  <2> QED BY <2>2, <2>3
<1> QED BY <1>9, <1>10, <1>12, <1>13 DEF Collects, IsLoop

-----------------------------------------------------------------------------
(* What each constructor connects *)

(* The ring: call i connects device i - 1 with the next one. *)
LEMMA RingCalls ==
  ASSUME NEW n \in Nat, n >= 2, NEW both \in BOOLEAN
  PROVE  /\ RingConnects(n, both) \in Seq(Calls(0..(n - 1)))
         /\ Len(RingConnects(n, both)) = n
         /\ \A i \in 1..n : RingConnects(n, both)[i] = Call(i - 1, RingMove(n, i - 1, 1), both)
<1> DEFINE T == Calls(0..(n - 1))
<1>1. PICK m \in Nat : m = n - 1
  OBVIOUS
<1>2. PICK x : x = [i \in 1..m |-> Call(i - 1, i, both)]
  OBVIOUS
<1>3. PICK y : y = <<Call(m, 0, both)>>
  OBVIOUS
<1>4. \A i \in 0..m, j \in 0..m : Call(i, j, both) \in T
  BY <1>1, CallFacts
<1>5. x \in Seq(T) /\ Len(x) = m
  <2>1. \A i \in 1..m : i - 1 \in 0..m /\ i \in 0..m
    BY <1>1
  <2>2. \A i \in 1..m : Call(i - 1, i, both) \in T
    BY <1>4, <2>1
  <2> HIDE DEF T
  <2>3. x \in [1..m -> T]
    BY <1>2, <2>2
  <2> QED BY <1>1, <2>3, IsASeq, LenProperties
<1>6. y \in Seq(T) /\ Len(y) = 1 /\ y[1] = Call(m, 0, both)
  <2>1. Call(m, 0, both) \in T
    BY <1>1, <1>4
  <2> HIDE DEF T
  <2> QED BY <1>3, <2>1
<1>7. PICK z : z = x \o y
  OBVIOUS
<1>8. /\ z \in Seq(T) /\ Len(z) = m + 1
      /\ \A i \in 1..(m + 1) : z[i] = IF i <= m THEN x[i] ELSE y[i - m]
  <2> HIDE DEF T
  <2>1. /\ z \in Seq(T) /\ Len(z) = Len(x) + Len(y)
        /\ \A i \in 1..(Len(x) + Len(y)) : z[i] = IF i <= Len(x) THEN x[i] ELSE y[i - Len(x)]
    BY <1>5, <1>6, <1>7, ConcatProperties
  <2> QED BY <1>1, <1>5, <1>6, <2>1
<1>9. ASSUME NEW i \in 1..n PROVE z[i] = Call(i - 1, RingMove(n, i - 1, 1), both)
  <2>1. CASE i <= m
    <3>1. i \in 1..(m + 1) /\ i \in 1..m /\ RingMove(n, i - 1, 1) = i
      BY <1>1, <2>1 DEF RingMove
    <3> QED BY <1>2, <1>8, <2>1, <3>1
  <2>2. CASE ~(i <= m)
    <3>1. i \in 1..(m + 1) /\ i - m = 1 /\ i - 1 = m /\ RingMove(n, i - 1, 1) = 0
      BY <1>1, <2>2 DEF RingMove
    <3> QED BY <1>6, <1>8, <2>2, <3>1
  <2> QED BY <2>1, <2>2
<1>10. RingConnects(n, both) = z
  BY <1>1, <1>2, <1>3, <1>7 DEF RingConnects
<1>11. m + 1 = n
  BY <1>1
<1> QED BY <1>8, <1>9, <1>10, <1>11

(* The switch: call i connects NPU i - 1 with the switch, both ways. *)
LEMMA SwitchCalls ==
  ASSUME NEW n \in Nat
  PROVE  /\ SwitchConnects(n) \in Seq(Calls(0..n))
         /\ Len(SwitchConnects(n)) = n
         /\ \A i \in 1..n : SwitchConnects(n)[i] = Call(i - 1, n, TRUE)
<1>1. \A i \in 1..n : i - 1 \in 0..n /\ n \in 0..n
  OBVIOUS
<1>2. \A i \in 1..n : Call(i - 1, n, TRUE) \in Calls(0..n)
  BY <1>1, CallFacts
<1>3. SwitchConnects(n) \in [1..n -> Calls(0..n)]
  BY <1>2 DEF SwitchConnects
<1>5. \A T : \A x \in [1..n -> T] : x \in Seq(T) /\ Len(x) = n
  BY IsASeq, LenProperties
<1>4. \A i \in 1..n : SwitchConnects(n)[i] = Call(i - 1, n, TRUE)
  BY DEF SwitchConnects
<1> QED BY <1>3, <1>5, <1>4

(* The links of a device to itself. *)
LEMMA SelfCalls ==
  ASSUME NEW n \in Nat
  PROVE  /\ SelfConnects(n) \in Seq(Calls(0..(n - 1)))
         /\ Len(SelfConnects(n)) = n
         /\ \A i \in 1..n : SelfConnects(n)[i] = Call(i - 1, i - 1, FALSE)
<1>1. \A i \in 1..n : i - 1 \in 0..(n - 1)
  OBVIOUS
<1>2. \A i \in 1..n : Call(i - 1, i - 1, FALSE) \in Calls(0..(n - 1))
  BY <1>1, CallFacts
<1>3. SelfConnects(n) \in [1..n -> Calls(0..(n - 1))]
  BY <1>2 DEF SelfConnects
<1>5. \A T : \A x \in [1..n -> T] : x \in Seq(T) /\ Len(x) = n
  BY IsASeq, LenProperties
<1>4. \A i \in 1..n : SelfConnects(n)[i] = Call(i - 1, i - 1, FALSE)
  BY DEF SelfConnects
<1> QED BY <1>3, <1>5, <1>4

(* The pairs of different devices, and those of a device with a later one. *)
LEMMA FullyConnectedCalls ==
  ASSUME NEW n \in Nat \ {0}
  PROVE  IsLoop(FullyConnectedConnects(n), n, {p \in Pairs(n) : p[1] # p[2]}, FALSE)
BY LoopConnectsPairs DEF FullyConnectedConnects

LEMMA UpperCalls ==
  ASSUME NEW n \in Nat \ {0}
  PROVE  IsLoop(LoopConnects(n, {p \in Pairs(n) : p[1] < p[2]}, TRUE), n,
                {p \in Pairs(n) : p[1] < p[2]}, TRUE)
BY LoopConnectsPairs

(* The mesh makes every link once: a link from a device to a later one or an *)
(* earlier one with the call for the pair, one to itself after them.         *)
LEMMA MeshCalls ==
  ASSUME NEW n \in Nat \ {0}
  PROVE  /\ MeshConnects(n) \in Seq(Calls(0..(n - 1)))
         /\ \A l \in Pairs(n) : \E i \in 1..Len(MeshConnects(n)) : l \in LinksOf(MeshConnects(n)[i])
         /\ \A i, j \in 1..Len(MeshConnects(n)) :
              i # j => LinksOf(MeshConnects(n)[i]) \cap LinksOf(MeshConnects(n)[j]) = {}
<1> DEFINE T == Calls(0..(n - 1))
           later == {p \in Pairs(n) : p[1] < p[2]}
<1>1. PICK x : x = LoopConnects(n, later, TRUE) /\ IsLoop(x, n, later, TRUE)
  BY UpperCalls
<1>2. PICK y : y = SelfConnects(n)
  OBVIOUS
<1>3. PICK a \in Nat : a = Len(x)
  <2>1. x \in Seq(T)
    BY <1>1 DEF IsLoop
  <2> HIDE DEF T
  <2> QED BY <2>1, LenProperties
<1>4. y \in Seq(T) /\ Len(y) = n /\ \A i \in 1..n : y[i] = Call(i - 1, i - 1, FALSE)
  BY <1>2, SelfCalls
<1>5. PICK z : z = x \o y
  OBVIOUS
<1>6. /\ z \in Seq(T) /\ Len(z) = a + n
      /\ \A i \in 1..(a + n) : z[i] = IF i <= a THEN x[i] ELSE y[i - a]
  <2>1. x \in Seq(T)
    BY <1>1 DEF IsLoop
  <2> HIDE DEF T
  <2> QED BY <1>3, <1>4, <1>5, <2>1, ConcatProperties
<1>7. z = MeshConnects(n)
  BY <1>1, <1>2, <1>5 DEF MeshConnects
<1>8. \A i \in 1..a : i \in 1..(a + n) /\ z[i] = x[i]
  BY <1>6
<1>9. \A i \in 1..n : a + i \in 1..(a + n) /\ z[a + i] = Call(i - 1, i - 1, FALSE)
  <2> SUFFICES ASSUME NEW i \in 1..n
               PROVE  a + i \in 1..(a + n) /\ z[a + i] = Call(i - 1, i - 1, FALSE)
    OBVIOUS
  <2>1. a + i \in 1..(a + n) /\ ~(a + i <= a) /\ (a + i) - a = i
    OBVIOUS
  <2> QED BY <1>4, <1>6, <2>1
<1>10. \A i \in 1..(a + n) : i \in 1..a \/ \E k \in 1..n : i = a + k
  <2> SUFFICES ASSUME NEW i \in 1..(a + n), i \notin 1..a PROVE \E k \in 1..n : i = a + k
    OBVIOUS
  <2>1. i - a \in 1..n /\ i = a + (i - a)
    OBVIOUS
  <2> QED BY <2>1
(* The links of the two kinds of calls. *)
<1>11. \A p : LinksOf(Call(p[1], p[2], TRUE)) = {<<p[1], p[2]>>, <<p[2], p[1]>>}
  BY DEF LinksOf, Call
<1>12. \A k : LinksOf(Call(k, k, FALSE)) = {<<k, k>>}
  BY DEF LinksOf, Call
<1>13. \A i \in 1..a : \E p \in later : x[i] = Call(p[1], p[2], TRUE)
  BY <1>1, <1>3 DEF IsLoop
<1>14. ASSUME NEW l \in Pairs(n) PROVE \E i \in 1..(a + n) : l \in LinksOf(z[i])
  <2>1. PICK u \in 0..(n - 1), v \in 0..(n - 1) : l = <<u, v>>
    BY DEF Pairs
  <2>2. \A p \in later : \E i \in 1..a : z[i] = Call(p[1], p[2], TRUE)
    <3>1. \A p \in later : \E i \in 1..a : x[i] = Call(p[1], p[2], TRUE)
      BY <1>1, <1>3 DEF IsLoop
    <3> HIDE DEF later
    <3> QED BY <1>8, <3>1
  <2>3. CASE u < v
    <3>1. <<u, v>> \in later
      BY <2>3 DEF Pairs
    <3>2. PICK i \in 1..a : z[i] = Call(<<u, v>>[1], <<u, v>>[2], TRUE)
      BY <2>2, <3>1
    <3>3. l \in LinksOf(z[i])
      BY <1>11, <2>1, <3>2
    <3> QED BY <1>8, <3>3
  <2>4. CASE v < u
    <3>1. <<v, u>> \in later
      BY <2>4 DEF Pairs
    <3>2. PICK i \in 1..a : z[i] = Call(<<v, u>>[1], <<v, u>>[2], TRUE)
      BY <2>2, <3>1
    <3>3. l \in LinksOf(z[i])
      BY <1>11, <2>1, <3>2
    <3> QED BY <1>8, <3>3
  <2>5. CASE u = v
    <3>1. u + 1 \in 1..n /\ (u + 1) - 1 = u
      OBVIOUS
    <3>2. l \in LinksOf(z[a + (u + 1)])
      BY <1>9, <1>12, <2>1, <2>5, <3>1
    <3> QED BY <1>9, <3>1, <3>2
  <2> QED BY <2>3, <2>4, <2>5
<1>15. ASSUME NEW i \in 1..(a + n), NEW j \in 1..(a + n), NEW l,
              l \in LinksOf(z[i]), l \in LinksOf(z[j])
       PROVE  i = j
  <2>1. \A k \in 1..a : \A m \in 1..a : x[k] = x[m] => k = m
    BY <1>1, <1>3 DEF IsLoop
  <2>2. \A k \in 1..a : l \in LinksOf(z[k]) =>
          /\ l[1] # l[2]
          /\ l[1] < l[2] => x[k] = Call(l[1], l[2], TRUE)
          /\ l[2] < l[1] => x[k] = Call(l[2], l[1], TRUE)
          /\ l[1] < l[2] \/ l[2] < l[1]
    <3> SUFFICES ASSUME NEW k \in 1..a, l \in LinksOf(z[k])
                 PROVE  /\ l[1] # l[2]
                        /\ l[1] < l[2] => x[k] = Call(l[1], l[2], TRUE)
                        /\ l[2] < l[1] => x[k] = Call(l[2], l[1], TRUE)
                        /\ l[1] < l[2] \/ l[2] < l[1]
      OBVIOUS
    <3>1. PICK p \in later : x[k] = Call(p[1], p[2], TRUE)
      BY <1>13
    <3>2. p[1] \in 0..(n - 1) /\ p[2] \in 0..(n - 1) /\ p[1] < p[2]
      BY DEF Pairs
    <3>3. l = <<p[1], p[2]>> \/ l = <<p[2], p[1]>>
      BY <1>8, <1>11, <3>1
    <3>4. PICK u \in 0..(n - 1), v \in 0..(n - 1) : u = p[1] /\ v = p[2] /\ u < v
      BY <3>2
    <3>5. CASE l = <<u, v>>
      <4>1. l[1] = u /\ l[2] = v /\ ~(v < u) /\ u # v
        BY <3>4, <3>5
      <4> QED BY <3>1, <3>4, <4>1
    <3>6. CASE l = <<v, u>>
      <4>1. l[1] = v /\ l[2] = u /\ ~(v < u) /\ u # v
        BY <3>4, <3>6
      <4> QED BY <3>1, <3>4, <4>1
    <3> QED BY <3>3, <3>4, <3>5, <3>6
  <2>3. \A k \in 1..n : l \in LinksOf(z[a + k]) => l[1] = l[2] /\ l[1] = k - 1
    <3> SUFFICES ASSUME NEW k \in 1..n, l \in LinksOf(z[a + k])
                 PROVE  l[1] = l[2] /\ l[1] = k - 1
      OBVIOUS
    <3>1. l = <<k - 1, k - 1>>
      BY <1>9, <1>12
    <3> QED BY <3>1
  <2>4. CASE i \in 1..a
    <3>1. j \in 1..a
      BY <1>10, <1>15, <2>2, <2>3, <2>4
    <3>2. x[i] = x[j]
      BY <1>15, <2>2, <2>4, <3>1
    <3> QED BY <2>1, <2>4, <3>1, <3>2
  <2>5. CASE i \notin 1..a
    <3>1. PICK k \in 1..n : i = a + k
      BY <1>10, <2>5
    <3>2. j \notin 1..a
      BY <1>15, <2>2, <2>3, <3>1
    <3>3. PICK m \in 1..n : j = a + m
      BY <1>10, <3>2
    <3>4. k - 1 = m - 1
      BY <1>15, <2>3, <3>1, <3>3
    <3> QED BY <3>1, <3>3, <3>4
  <2> QED BY <2>4, <2>5
<1> QED
  <2> HIDE DEF T
  <2>1. \A i, j \in 1..(a + n) : i # j => LinksOf(z[i]) \cap LinksOf(z[j]) = {}
    BY <1>15
  <2> QED BY <1>6, <1>7, <1>14, <2>1 DEF T

-----------------------------------------------------------------------------
(* The walk around a ring *)

(* The device that j moves lead to, and the moves that lead to dest. *)
After(n, src0, step, j) ==
  IF step = 1 THEN IF src0 + j >= n THEN src0 + j - n ELSE src0 + j
  ELSE IF src0 - j < 0 THEN src0 - j + n ELSE src0 - j
Moves(n, src0, step, dest0) ==
  IF step = 1 THEN ClockwiseDistance(n, src0, dest0) ELSE n - ClockwiseDistance(n, src0, dest0)

LeadsTo(n, s, step, d, m) ==
  /\ m = Moves(n, s, step, d) /\ m \in 1..(n - 1)
  /\ After(n, s, step, 0) = s
  /\ \A j \in 0..(n - 1) : /\ After(n, s, step, j) \in 0..(n - 1)
                           /\ After(n, s, step, j) = d <=> j = m
  /\ \A i, j \in 0..(n - 1) : After(n, s, step, i) = After(n, s, step, j) => i = j
  /\ \A j \in 0..(n - 2) : RingMove(n, After(n, s, step, j), step) = After(n, s, step, j + 1)

LEMMA MovesLead ==
  ASSUME NEW n \in Nat, NEW s \in 0..(n - 1), NEW d \in 0..(n - 1), s # d, NEW step \in {1, -1}
  PROVE  LeadsTo(n, s, step, d, Moves(n, s, step, d))
<1>1. CASE step = 1
  BY <1>1 DEF LeadsTo, Moves, After, RingMove, ClockwiseDistance
<1>2. CASE step = -1
  BY <1>2 DEF LeadsTo, Moves, After, RingMove, ClockwiseDistance
<1> QED BY <1>1, <1>2

(* The devices of r are those of the moves from s to d. *)
IsRingWalk(r, n, s, d, step) ==
  /\ r \in Seq(0..(n - 1))
  /\ Len(r) = Moves(n, s, step, d) + 1
  /\ \A i \in 1..(Moves(n, s, step, d) + 1) : r[i] = After(n, s, step, i - 1)

(* The route stops at dest, after the moves that lead there. *)
LEMMA RingRouteIsWalk ==
  ASSUME NEW n \in Nat, NEW both \in BOOLEAN, NEW s \in 0..(n - 1), NEW d \in 0..(n - 1), s # d,
         NEW step, step = RingStep(n, both, s, d)
  PROVE  step \in {1, -1} /\ IsRingWalk(RingRoute(n, both, s, d), n, s, d, step)
<1> DEFINE T == Seq(0..(n - 1)) \ {<<>>}
           Longer(x) == IF x[Len(x)] = d THEN x ELSE Append(x, RingMove(n, x[Len(x)], step))
           IsWalk(f) == f = [k \in 0..n |-> IF k = 0 THEN <<s>> ELSE Longer(f[k - 1])]
           walk == CHOOSE f : IsWalk(f)
           G == [p \in Nat \X T |-> Longer(p[2])]
<1>1. step \in {1, -1}
  BY DEF RingStep
<1>2. \A u \in 0..(n - 1) : RingMove(n, u, step) \in 0..(n - 1)
  BY <1>1 DEF RingMove
<1>3. \A x \in T : Longer(x) \in T
  <2> SUFFICES ASSUME NEW x \in T PROVE Longer(x) \in T
    OBVIOUS
  <2>1. PICK u \in 0..(n - 1) : u = x[Len(x)]
    <3>1. x \in Seq(0..(n - 1)) /\ Len(x) \in 1..Len(x)
      BY EmptySeq, LenProperties
    <3> QED BY <3>1, ElementOfSeq
  <2>2. Append(x, RingMove(n, u, step)) \in T
    <3>1. PICK v \in 0..(n - 1) : v = RingMove(n, u, step)
      BY <1>2
    <3>2. Append(x, v) \in Seq(0..(n - 1)) /\ Append(x, v) # <<>>
      BY AppendFacts
    <3> QED BY <3>1, <3>2
  <2> QED BY <2>1, <2>2
<1>4. <<s>> \in T
  OBVIOUS
<1>5. PICK g \in [0..n -> T] : IsIteration(g, <<s>>, G, n)
  <2> HIDE DEF T, Longer
  <2>1. G \in [Nat \X T -> T]
    BY <1>3
  <2> HIDE DEF G
  <2> QED BY <1>4, <2>1, Iteration
<1>6. IsWalk(g)
  <2> HIDE DEF T, Longer
  <2> SUFFICES ASSUME NEW k \in 0..n
               PROVE  g[k] = IF k = 0 THEN <<s>> ELSE Longer(g[k - 1])
    BY <1>5
  <2>1. CASE k = 0
    BY <1>5, <2>1 DEF IsIteration
  <2>2. CASE k # 0
    <3>1. k \in 1..n /\ k \in Nat /\ k - 1 \in 0..n
      BY <2>2
    <3>2. <<k, g[k - 1]>> \in Nat \X T
      BY <1>5, <3>1
    <3>3. g[k] = G[<<k, g[k - 1]>>]
      BY <1>5, <3>1 DEF IsIteration
    <3> QED BY <2>2, <3>2, <3>3
  <2> QED BY <2>1, <2>2
<1>7. IsWalk(walk)
  <2> HIDE DEF IsWalk
  <2> QED BY <1>6
<1>8. RingRoute(n, both, s, d) = walk[n]
  BY DEF RingRoute
<1>9. PICK m \in 1..(n - 1) : LeadsTo(n, s, step, d, m)
  <2>1. LeadsTo(n, s, step, d, Moves(n, s, step, d))
    BY <1>1, MovesLead
  <2>2. Moves(n, s, step, d) \in 1..(n - 1)
    BY <2>1 DEF LeadsTo
  <2> QED BY <2>1, <2>2
<1>10. PICK at : at = [j \in 0..(n - 1) |-> After(n, s, step, j)]
  OBVIOUS
<1>11. /\ at[0] = s
       /\ \A j \in 0..(n - 1) : at[j] \in 0..(n - 1) /\ (at[j] = d <=> j = m)
       /\ \A j \in 0..(n - 2) : RingMove(n, at[j], step) = at[j + 1]
  <2>1. 0 \in 0..(n - 1) /\ \A j \in 0..(n - 2) : j \in 0..(n - 1) /\ j + 1 \in 0..(n - 1)
    OBVIOUS
  <2>2. 0 \in 0..(n - 1)
    OBVIOUS
  <2>3. /\ After(n, s, step, 0) = s
        /\ \A j \in 0..(n - 1) : /\ After(n, s, step, j) \in 0..(n - 1)
                                 /\ After(n, s, step, j) = d <=> j = m
        /\ \A j \in 0..(n - 2) :
             RingMove(n, After(n, s, step, j), step) = After(n, s, step, j + 1)
    BY <1>9 DEF LeadsTo
  <2>4. \A j \in 0..(n - 1) : at[j] = After(n, s, step, j)
    BY <1>10
  <2> QED BY ONLY <2>1, <2>2, <2>3, <2>4
<1> HIDE DEF walk
(* After k rounds. *)
<1> DEFINE Places(x, c) == /\ x \in Seq(0..(n - 1)) /\ Len(x) = c + 1
                           /\ \A i \in 1..(c + 1) : x[i] = at[i - 1]
           S == {k \in Nat : k <= n => Places(walk[k], IF k <= m THEN k ELSE m)}
<1>12. 0 \in S
  <2>1. walk[0] = <<s>> /\ 0 <= m
    BY <1>7
  <2>2. Places(<<s>>, 0)
    <3>1. \A i \in 1..(0 + 1) : i = 1 /\ i - 1 = 0
      OBVIOUS
    <3>2. <<s>> \in Seq(0..(n - 1)) /\ Len(<<s>>) = 0 + 1 /\ <<s>>[1] = s
      OBVIOUS
    <3>3. \A i \in 1..(0 + 1) : <<s>>[i] = at[i - 1]
      BY <1>11, <3>1, <3>2
    <3> QED BY <3>2, <3>3
  <2> HIDE DEF Places
  <2> QED BY <2>1, <2>2
<1>13. ASSUME NEW k \in S PROVE k + 1 \in S
  <2> DEFINE c == IF k <= m THEN k ELSE m
  <2>0. k \in Nat
    OBVIOUS
  <2> SUFFICES ASSUME k + 1 <= n
               PROVE  Places(walk[k + 1], IF k + 1 <= m THEN k + 1 ELSE m)
    <3> HIDE DEF Places
    <3> QED BY <2>0
  <2>1. k \in Nat /\ k <= n /\ k + 1 \in 0..n /\ k + 1 # 0 /\ (k + 1) - 1 = k
    OBVIOUS
  <2>2. PICK x : x = walk[k] /\ Places(x, c)
    <3> HIDE DEF Places
    <3> QED BY <2>1
  <2>3. walk[k + 1] = Longer(x)
    <3> HIDE DEF Longer
    <3> QED BY <1>7, <2>1, <2>2
  <2>4. c \in 0..m /\ c \in 0..(n - 1) /\ c + 1 \in 1..(c + 1) /\ (c + 1) - 1 = c
    BY <2>1
  <2>5. x[Len(x)] = at[c]
    <3> HIDE DEF c
    <3> QED BY <2>2, <2>4
  <2>6. CASE k >= m
    <3>1. c = m /\ ~(k + 1 <= m)
      BY <2>1, <2>6
    <3>2. x[Len(x)] = d
      BY <1>11, <2>4, <2>5, <3>1
    <3> HIDE DEF Places, c
    <3> QED BY <2>2, <2>3, <3>1, <3>2
  <2>7. CASE k < m
    <3>1. c = k /\ k + 1 <= m /\ k # m
      <4>1. m \in Nat
        BY <1>9
      <4> QED BY ONLY <4>1, <2>1, <2>7
    <3>0. k \in 0..(n - 1) /\ k \in 0..(n - 2) /\ k + 1 \in 0..(n - 1)
      <4> HIDE DEF c
      <4> QED BY <1>9, <2>1, <2>7
    <3>2. x[Len(x)] = at[k] /\ at[k] # d /\ RingMove(n, at[k], step) = at[k + 1]
      <4> HIDE DEF c
      <4> QED BY <1>11, <2>5, <3>1, <3>0
    <3>3. PICK y : y = Append(x, at[k + 1])
      OBVIOUS
    <3>4. walk[k + 1] = y
      BY <2>3, <3>2, <3>3
    <3>5. x \in Seq(0..(n - 1)) /\ Len(x) = k + 1 /\ \A i \in 1..(k + 1) : x[i] = at[i - 1]
      <4> HIDE DEF c
      <4> QED BY <2>2, <3>1
    <3>6. /\ y \in Seq(0..(n - 1)) /\ Len(y) = (k + 1) + 1
          /\ \A i \in 1..(k + 1) : y[i] = x[i]
          /\ y[(k + 1) + 1] = at[k + 1]
          /\ \A i : i \in 1..((k + 1) + 1) <=> i \in 1..(k + 1) \/ i = (k + 1) + 1
      <4>1. at[k + 1] \in 0..(n - 1)
        BY <1>11, <3>0
      <4>2. PICK v \in 0..(n - 1) : v = at[k + 1]
        BY <4>1
      <4>3. /\ y \in Seq(0..(n - 1)) /\ Len(y) = Len(x) + 1
            /\ \A i \in 1..Len(x) : y[i] = x[i]
            /\ y[Len(x) + 1] = v
            /\ \A i : i \in 1..(Len(x) + 1) <=> i \in 1..Len(x) \/ i = Len(x) + 1
        <5>1. y = Append(x, v) /\ x \in Seq(0..(n - 1))
          BY <3>3, <3>5, <4>2
        <5>2. PICK D : D = 0..(n - 1)
          OBVIOUS
        <5>3. x \in Seq(D) /\ v \in D
          BY <4>2, <5>1, <5>2
        <5>4. /\ Append(x, v) \in Seq(D) /\ Len(Append(x, v)) = Len(x) + 1
              /\ \A i \in 1..Len(x) : Append(x, v)[i] = x[i]
              /\ Append(x, v)[Len(x) + 1] = v
          BY ONLY <5>3, AppendFacts
        <5>5. \A i : i \in 1..(Len(x) + 1) <=> i \in 1..Len(x) \/ i = Len(x) + 1
          BY ONLY <5>3, AppendFacts
        <5> QED BY ONLY <5>1, <5>2, <5>4, <5>5
      <4> QED BY ONLY <3>5, <4>2, <4>3
    <3>7. ((k + 1) + 1) - 1 = k + 1
      BY <2>1
    <3>8. Places(y, k + 1)
      BY <3>5, <3>6, <3>7
    <3> HIDE DEF Places, c
    <3> QED BY <3>1, <3>4, <3>8
  <2> QED BY <2>1, <2>6, <2>7
<1>14. S = Nat
  <2> HIDE DEF S
  <2>1. S \in SUBSET Nat
    BY DEF S
  <2> QED BY <1>12, <1>13, <2>1, SetInduction
<1>15. Places(walk[n], m)
  <2> HIDE DEF Places
  <2>1. n \in S
    BY <1>14
  <2>2. n <= n /\ (IF n <= m THEN n ELSE m) = m
    BY <1>9
  <2> QED BY <2>1, <2>2
<1>16. \A i \in 1..(m + 1) : i - 1 \in 0..(n - 1)
  OBVIOUS
<1>17. /\ RingRoute(n, both, s, d) \in Seq(0..(n - 1))
       /\ Len(RingRoute(n, both, s, d)) = Moves(n, s, step, d) + 1
       /\ \A i \in 1..(Moves(n, s, step, d) + 1) :
            RingRoute(n, both, s, d)[i] = After(n, s, step, i - 1)
  BY <1>8, <1>9, <1>10, <1>15, <1>16 DEF LeadsTo
<1> QED BY <1>1, <1>17 DEF IsRingWalk

-----------------------------------------------------------------------------
(* Routes are shortest paths *)

LEMMA LinksMadeFrom ==
  ASSUME NEW calls
  PROVE  \A l : l \in LinksMade(calls) <=> \E i \in 1..Len(calls) : l \in LinksOf(calls[i])
BY DEF LinksMade

(* The links of a ring: from every device to the next one and, both ways, to *)
(* the one before.                                                           *)
LEMMA RingLinks ==
  ASSUME NEW n \in Nat, n >= 2, NEW both \in BOOLEAN
  PROVE  \A l : l \in LinksMade(RingConnects(n, both)) <=>
           \E u \in 0..(n - 1) : \/ l = <<u, RingMove(n, u, 1)>>
                                 \/ both /\ l = <<RingMove(n, u, 1), u>>
<1>1. PICK x : x = RingConnects(n, both)
  OBVIOUS
<1>2. Len(x) = n /\ \A i \in 1..n : x[i] = Call(i - 1, RingMove(n, i - 1, 1), both)
  BY <1>1, RingCalls
<1>3. \A i \in 1..n : \A l : l \in LinksOf(x[i]) <=>
        \/ l = <<i - 1, RingMove(n, i - 1, 1)>>
        \/ both /\ l = <<RingMove(n, i - 1, 1), i - 1>>
  <2>1. \A a, b : \A l : l \in LinksOf(Call(a, b, both)) <=>
          l = <<a, b>> \/ (both /\ l = <<b, a>>)
    BY DEF LinksOf, Call
  <2> QED BY <1>2, <2>1
<1>4. \A i \in 1..n : i - 1 \in 0..(n - 1)
  OBVIOUS
<1>5. \A u \in 0..(n - 1) : u + 1 \in 1..n /\ (u + 1) - 1 = u
  OBVIOUS
<1>6. \A l : l \in LinksMade(x) <=> \E i \in 1..n : l \in LinksOf(x[i])
  BY <1>2, LinksMadeFrom
<1> SUFFICES ASSUME NEW l
             PROVE  l \in LinksMade(x) <=>
                      \E u \in 0..(n - 1) : \/ l = <<u, RingMove(n, u, 1)>>
                                            \/ both /\ l = <<RingMove(n, u, 1), u>>
  BY <1>1
<1>7. ASSUME l \in LinksMade(x)
      PROVE  \E u \in 0..(n - 1) : \/ l = <<u, RingMove(n, u, 1)>>
                                   \/ both /\ l = <<RingMove(n, u, 1), u>>
  BY <1>3, <1>4, <1>6, <1>7
<1>8. ASSUME NEW u \in 0..(n - 1), \/ l = <<u, RingMove(n, u, 1)>>
                                   \/ both /\ l = <<RingMove(n, u, 1), u>>
      PROVE  l \in LinksMade(x)
  <2>1. PICK i \in 1..n : i - 1 = u
    BY <1>5
  <2>2. l \in LinksOf(x[i])
    BY <1>3, <1>8, <2>1
  <2> QED BY <1>6, <2>2
<1> QED BY <1>7, <1>8

(* The level of a device: the hops from s, as the unaware backend counts them. *)
RingLevel(n, both, s) == [v \in 0..(n - 1) |-> IF v = s THEN 0 ELSE RingHops(n, both, s, v)]

LEMMA RingLevels ==
  ASSUME NEW n \in Nat, n >= 2, NEW both \in BOOLEAN, NEW s \in 0..(n - 1)
  PROVE  IsLevel(RingLevel(n, both, s), 0..(n - 1), LinksMade(RingConnects(n, both)), s)
<1> DEFINE D == 0..(n - 1)
<1>1. PICK h : h = RingLevel(n, both, s)
  OBVIOUS
<1>2. \A v \in D : h[v] = IF v = s THEN 0 ELSE RingHops(n, both, s, v)
  BY <1>1 DEF RingLevel
<1>3. \A v \in D : v # s => RingHops(n, both, s, v) \in Nat
  BY DEF RingHops, ClockwiseDistance
<1>4. h \in [D -> Nat]
  BY <1>1, <1>3 DEF RingLevel
<1>5. \A u \in D : RingMove(n, u, 1) \in D
  BY DEF RingMove
<1>6. \A u \in D : h[RingMove(n, u, 1)] <= h[u] + 1
  BY <1>2, <1>5 DEF RingMove, RingHops, ClockwiseDistance
<1>7. both => \A u \in D : h[u] <= h[RingMove(n, u, 1)] + 1
  BY <1>2, <1>5 DEF RingMove, RingHops, ClockwiseDistance
<1>8. ASSUME NEW l \in LinksMade(RingConnects(n, both))
      PROVE  l \in D \X D /\ h[l[2]] <= h[l[1]] + 1
  <2>1. PICK u \in D : \/ l = <<u, RingMove(n, u, 1)>>
                       \/ both /\ l = <<RingMove(n, u, 1), u>>
    BY RingLinks
  <2>2. PICK w \in D : w = RingMove(n, u, 1)
    BY <1>5
  <2>3. h[w] <= h[u] + 1 /\ (both => h[u] <= h[w] + 1)
    BY <1>6, <1>7, <2>2
  <2>4. CASE l = <<u, w>>
    BY <2>3, <2>4
  <2>5. CASE both /\ l = <<w, u>>
    BY <2>3, <2>5
  <2> HIDE DEF D
  <2> QED BY <2>1, <2>2, <2>4, <2>5
<1> HIDE DEF D
<1>9. s \in D
  BY DEF D
<1> QED BY <1>1, <1>2, <1>4, <1>8, <1>9 DEF IsLevel, D

(* The route r from s to d is a shortest one over links between devices of D. *)
IsShortest(D, links, s, d, r) ==
  /\ r \in Seq(D)
  /\ IsPath(links, s, d, r)
  /\ AtDistance(links, s, d, Len(r) - 1)

LEMMA RingRouteIsShortest ==
  ASSUME NEW n \in Nat, n >= 2, NEW both \in BOOLEAN,
         NEW s \in 0..(n - 1), NEW d \in 0..(n - 1), s # d
  PROVE  /\ IsShortest(0..(n - 1), LinksMade(RingConnects(n, both)), s, d, RingRoute(n, both, s, d))
         /\ Len(RingRoute(n, both, s, d)) - 1 = RingHops(n, both, s, d)
<1> DEFINE D == 0..(n - 1)
<1>0. PICK links, r : links = LinksMade(RingConnects(n, both)) /\ r = RingRoute(n, both, s, d)
  OBVIOUS
<1>1. PICK step : step = RingStep(n, both, s, d)
  OBVIOUS
<1>2. PICK m : m = Moves(n, s, step, d)
  OBVIOUS
<1>3. /\ step \in {1, -1}
      /\ r \in Seq(D) /\ Len(r) = m + 1
      /\ \A i \in 1..(m + 1) : r[i] = After(n, s, step, i - 1)
  <2>1. step \in {1, -1} /\ IsRingWalk(RingRoute(n, both, s, d), n, s, d, step)
    BY <1>1, RingRouteIsWalk
  <2> QED BY <1>0, <1>2, <2>1 DEF IsRingWalk
<1>4. LeadsTo(n, s, step, d, m)
  BY <1>2, <1>3, MovesLead
<1>5. m \in Nat /\ m \in 1..(n - 1)
  BY <1>4 DEF LeadsTo
<1>6. m = RingHops(n, both, s, d)
  BY <1>1, <1>2 DEF RingStep, RingHops, Moves, ClockwiseDistance
<1>7. PICK at : at = [j \in D |-> After(n, s, step, j)]
  OBVIOUS
<1>8. /\ at[0] = s /\ at[m] = d
      /\ \A j \in D : at[j] \in D
      /\ \A i, j \in D : at[i] = at[j] => i = j
      /\ \A j \in 0..(n - 2) : RingMove(n, at[j], step) = at[j + 1]
  <2>1. 0 \in D /\ m \in D /\ \A j \in 0..(n - 2) : j \in D /\ j + 1 \in D
    BY <1>5
  <2>2. /\ After(n, s, step, 0) = s
        /\ \A j \in D : After(n, s, step, j) \in D /\ (After(n, s, step, j) = d <=> j = m)
        /\ \A i, j \in D : After(n, s, step, i) = After(n, s, step, j) => i = j
        /\ \A j \in 0..(n - 2) :
             RingMove(n, After(n, s, step, j), step) = After(n, s, step, j + 1)
    BY <1>4 DEF LeadsTo
  <2>3. \A j \in D : at[j] = After(n, s, step, j)
    BY <1>7
  <2> HIDE DEF D
  <2> QED BY ONLY <2>1, <2>2, <2>3
<1>9. \A i \in 1..(m + 1) : i - 1 \in D /\ r[i] = at[i - 1]
  <2>1. \A i \in 1..(m + 1) : i - 1 \in D
    BY <1>5
  <2> QED BY <1>3, <1>7, <2>1
<1>10. \A j \in 0..(n - 2) : <<at[j], at[j + 1]>> \in links
  <2> SUFFICES ASSUME NEW j \in 0..(n - 2) PROVE <<at[j], at[j + 1]>> \in links
    OBVIOUS
  <2>1. PICK u \in D, v \in D : u = at[j] /\ v = at[j + 1] /\ RingMove(n, u, step) = v
    <3>1. j \in D /\ j + 1 \in D
      OBVIOUS
    <3> QED BY <1>8, <3>1
  <2>2. CASE step = 1
    BY <1>0, <2>1, <2>2, RingLinks
  <2>3. CASE step = -1
    <3>1. both
      BY <1>1, <2>3 DEF RingStep
    <3>2. RingMove(n, v, 1) = u
      BY <2>1, <2>3 DEF RingMove
    <3> QED BY <1>0, <2>1, <3>1, <3>2, RingLinks
  <2> QED BY <1>3, <2>2, <2>3
<1>11. IsPath(links, s, d, r)
  <2>1. r # <<>> /\ r[1] = s /\ r[Len(r)] = d
    <3>1. 1 \in 1..(m + 1) /\ m + 1 \in 1..(m + 1) /\ 1 - 1 = 0 /\ (m + 1) - 1 = m /\ m + 1 # 0
      BY <1>5
    <3>2. r # <<>>
      BY <1>3, <3>1
    <3> QED BY <1>3, <1>8, <1>9, <3>1, <3>2
  <2>2. \A i \in 1..(Len(r) - 1) : <<r[i], r[i + 1]>> \in links
    <3> SUFFICES ASSUME NEW i \in 1..m PROVE <<r[i], r[i + 1]>> \in links
      BY <1>3, <1>5
    <3>1. /\ i \in 1..(m + 1) /\ i + 1 \in 1..(m + 1) /\ i - 1 \in 0..(n - 2)
          /\ (i + 1) - 1 = (i - 1) + 1
      BY <1>5
    <3> QED BY <1>9, <1>10, <3>1
  <2>3. \A i, j \in 1..Len(r) : r[i] = r[j] => i = j
    <3> SUFFICES ASSUME NEW i \in 1..(m + 1), NEW j \in 1..(m + 1), r[i] = r[j] PROVE i = j
      BY <1>3
    <3>1. i - 1 = j - 1
      BY <1>8, <1>9
    <3> QED BY <1>5, <3>1
  <2> QED BY <2>1, <2>2, <2>3 DEF IsPath
<1>12. AtDistance(links, s, d, Len(r) - 1)
  <2>1. PICK h : h = RingLevel(n, both, s)
    OBVIOUS
  <2>2. IsLevel(h, D, links, s)
    BY <1>0, <2>1, RingLevels
  <2>3. h[d] = Len(r) - 1
    BY <1>3, <1>5, <1>6, <2>1 DEF RingLevel
  <2> HIDE DEF D
  <2> QED BY <1>3, <1>11, <2>2, <2>3, ShortestByLevel
<1> QED BY <1>0, <1>3, <1>5, <1>6, <1>11, <1>12 DEF IsShortest

(* A link that leads to dest at once. *)
LEMMA LinkIsShortest ==
  ASSUME NEW D, NEW s \in D, NEW d \in D, s # d,
         NEW links \in SUBSET (D \X D), <<s, d>> \in links
  PROVE  IsShortest(D, links, s, d, <<s, d>>) /\ Len(<<s, d>>) = 2
<1>1. PICK p : p = <<s, d>>
  OBVIOUS
<1>2. p \in Seq(D) /\ Len(p) = 2 /\ p[1] = s /\ p[2] = d /\ p # <<>>
  BY <1>1
<1>3. IsPath(links, s, d, p)
  <2>1. \A i \in 1..(2 - 1) : i = 1 /\ i + 1 = 2
    OBVIOUS
  <2>2. \A i \in 1..2 : i = 1 \/ i = 2
    OBVIOUS
  <2> QED BY <1>2, <2>1, <2>2 DEF IsPath
<1>4. AtDistance(links, s, d, Len(p) - 1)
  <2> DEFINE h == [v \in D |-> IF v = s THEN 0 ELSE 1]
  <2>1. IsLevel(h, D, links, s)
    BY DEF IsLevel
  <2>2. h[d] = Len(p) - 1
    BY <1>2
  <2> HIDE DEF h
  <2> QED BY <1>2, <1>3, <2>1, <2>2, ShortestByLevel
<1> QED BY <1>1, <1>2, <1>3, <1>4 DEF IsShortest

(* The links of a switch: between it and the NPUs, both ways. *)
LEMMA SwitchLinks ==
  ASSUME NEW n \in Nat
  PROVE  \A l : l \in LinksMade(SwitchConnects(n)) <=>
           \E u \in 0..(n - 1) : l = <<u, n>> \/ l = <<n, u>>
<1>1. PICK x : x = SwitchConnects(n)
  OBVIOUS
<1>2. Len(x) = n /\ \A i \in 1..n : x[i] = Call(i - 1, n, TRUE)
  BY <1>1, SwitchCalls
<1>3. \A i \in 1..n : \A l : l \in LinksOf(x[i]) <=> l = <<i - 1, n>> \/ l = <<n, i - 1>>
  <2>1. \A a, b : \A l : l \in LinksOf(Call(a, b, TRUE)) <=> l = <<a, b>> \/ l = <<b, a>>
    BY DEF LinksOf, Call
  <2> QED BY <1>2, <2>1
<1>4. \A i \in 1..n : i - 1 \in 0..(n - 1)
  OBVIOUS
<1>5. \A u \in 0..(n - 1) : u + 1 \in 1..n /\ (u + 1) - 1 = u
  OBVIOUS
<1>6. \A l : l \in LinksMade(x) <=> \E i \in 1..n : l \in LinksOf(x[i])
  BY <1>2, LinksMadeFrom
<1> SUFFICES ASSUME NEW l
             PROVE  l \in LinksMade(x) <=> \E u \in 0..(n - 1) : l = <<u, n>> \/ l = <<n, u>>
  BY <1>1
<1>7. ASSUME NEW u \in 0..(n - 1), l = <<u, n>> \/ l = <<n, u>>
      PROVE  l \in LinksMade(x)
  <2>1. PICK i \in 1..n : i - 1 = u
    BY <1>5
  <2>2. l \in LinksOf(x[i])
    BY <1>3, <1>7, <2>1
  <2> QED BY <1>6, <2>2
<1> QED BY <1>3, <1>4, <1>6, <1>7

LEMMA SwitchRouteIsShortest ==
  ASSUME NEW n \in Nat, NEW s \in 0..(n - 1), NEW d \in 0..(n - 1), s # d
  PROVE  /\ IsShortest(0..n, LinksMade(SwitchConnects(n)), s, d, SwitchRoute(n, s, d))
         /\ Len(SwitchRoute(n, s, d)) - 1 = SwitchHops
<1>0. PICK links, r : links = LinksMade(SwitchConnects(n)) /\ r = SwitchRoute(n, s, d)
  OBVIOUS
<1>1. PICK D : D = 0..n
  OBVIOUS
<1>2. /\ s \in D /\ d \in D /\ n \in D /\ s # n /\ d # n
      /\ \A u \in 0..(n - 1) : u \in D /\ u # n
  BY <1>1
<1>3. \A l : l \in links <=> \E u \in 0..(n - 1) : l = <<u, n>> \/ l = <<n, u>>
  BY <1>0, SwitchLinks
<1>4. /\ r \in Seq(D) /\ Len(r) = 3 /\ r # <<>>
      /\ r[1] = s /\ r[2] = n /\ r[3] = d
  BY <1>0, <1>2 DEF SwitchRoute
<1>5. IsPath(links, s, d, r)
  <2>1. \A i \in 1..(3 - 1) : (i = 1 /\ i + 1 = 2) \/ (i = 2 /\ i + 1 = 3)
    OBVIOUS
  <2>2. \A i \in 1..3 : i = 1 \/ i = 2 \/ i = 3
    OBVIOUS
  <2>3. <<s, n>> \in links /\ <<n, d>> \in links
    BY <1>3
  <2>4. \A i \in 1..(Len(r) - 1) : <<r[i], r[i + 1]>> \in links
    BY <1>4, <2>1, <2>3
  <2>5. \A i, j \in 1..Len(r) : r[i] = r[j] => i = j
    BY <1>2, <1>4, <2>2
  <2> QED BY <1>4, <2>4, <2>5 DEF IsPath
<1>6. AtDistance(links, s, d, Len(r) - 1)
  <2> DEFINE h == [v \in D |-> IF v = s THEN 0 ELSE IF v = n THEN 1 ELSE 2]
  <2>1. h \in [D -> Nat] /\ h[s] = 0 /\ h[n] = 1 /\ \A u \in 0..(n - 1) : h[u] \in {0, 2}
    BY <1>2
  <2>2. links \subseteq D \X D
    BY <1>2, <1>3
  <2>3. ASSUME NEW l \in links PROVE h[l[2]] <= h[l[1]] + 1
    <3>1. PICK u \in 0..(n - 1) : l = <<u, n>> \/ l = <<n, u>>
      BY <1>3
    <3> HIDE DEF h
    <3> QED BY <2>1, <3>1
  <2>4. h[d] = Len(r) - 1
    BY <1>2, <1>4
  <2>5. IsLevel(h, D, links, s)
    <3> HIDE DEF h
    <3> QED BY <1>2, <2>1, <2>2, <2>3 DEF IsLevel
  <2> HIDE DEF h
  <2> QED BY <1>4, <1>5, <2>4, <2>5, ShortestByLevel
<1> QED BY <1>0, <1>1, <1>4, <1>5, <1>6 DEF IsShortest, SwitchHops

-----------------------------------------------------------------------------
(* The same by shape, for the shape of this state and of the next one *)

DevicesOf(sh) == IF sh.type = "Switch" THEN 0..sh.npus_count ELSE 0..(sh.npus_count - 1)

ConnectsOf(sh) ==
  CASE sh.type = "Ring" -> RingConnects(sh.npus_count, sh.bidirectional)
    [] sh.type = "FullyConnected" -> FullyConnectedConnects(sh.npus_count)
    [] sh.type = "Switch" -> SwitchConnects(sh.npus_count)
    [] sh.type = "Mesh" -> MeshConnects(sh.npus_count)
    [] sh = NoShape -> <<>>

LEMMA ByShape ==
  /\ Device = DevicesOf(shape) /\ Device' = DevicesOf(shape')
  /\ Connects = ConnectsOf(shape) /\ Connects' = ConnectsOf(shape')
<1>1. Device = DevicesOf(shape) /\ Device' = DevicesOf(shape')
  BY DEF Device, NPU, DevicesOf
<1>2. Connects = ConnectsOf(shape)
  BY DEF Connects, ConnectsOf
<1>3. Connects' = ConnectsOf(shape')
  BY DEF Connects, ConnectsOf
<1> QED BY <1>1, <1>2, <1>3

LEMMA ShapeFacts ==
  ASSUME NEW sh \in Shape
  PROVE  /\ sh.type \in {"Ring", "FullyConnected", "Switch", "Mesh"}
         /\ sh.npus_count \in Nat \ {0} /\ sh.npus_count >= 2
         /\ sh.bidirectional \in BOOLEAN
         /\ sh # NoShape
BY MaxNPUsAssumption DEF Shape, NoShape

LEMMA NoShapeConnectsNothing ==
  ConnectsOf(NoShape) = <<>>
BY DEF ConnectsOf, NoShape

LEMMA ConnectsAreCalls ==
  ASSUME NEW sh \in Shape \cup {NoShape}
  PROVE  ConnectsOf(sh) \in Seq(Calls(DevicesOf(sh))) /\ Len(ConnectsOf(sh)) \in Nat
<1> SUFFICES ConnectsOf(sh) \in Seq(Calls(DevicesOf(sh)))
  BY LenProperties
<1>1. CASE sh = NoShape
  BY <1>1, NoShapeConnectsNothing
<1>2. CASE sh \in Shape
  <2>1. /\ sh.type \in {"Ring", "FullyConnected", "Switch", "Mesh"}
        /\ sh.npus_count \in Nat \ {0} /\ sh.npus_count >= 2
        /\ sh.bidirectional \in BOOLEAN
        /\ sh # NoShape
    BY <1>2, ShapeFacts
  <2>2. PICK n \in Nat \ {0}, both \in BOOLEAN :
               n = sh.npus_count /\ n >= 2 /\ both = sh.bidirectional
    BY <2>1
  <2>3. CASE sh.type = "Ring"
    <3>1. RingConnects(n, both) \in Seq(Calls(0..(n - 1)))
      BY <2>2, RingCalls
    <3>2. ConnectsOf(sh) = RingConnects(n, both) /\ DevicesOf(sh) = 0..(n - 1)
      BY <2>1, <2>2, <2>3 DEF ConnectsOf, DevicesOf
    <3> QED BY ONLY <3>1, <3>2
  <2>4. CASE sh.type = "FullyConnected"
    <3>1. FullyConnectedConnects(n) \in Seq(Calls(0..(n - 1)))
      BY FullyConnectedCalls DEF IsLoop
    <3>2. ConnectsOf(sh) = FullyConnectedConnects(n) /\ DevicesOf(sh) = 0..(n - 1)
      BY <2>1, <2>2, <2>4 DEF ConnectsOf, DevicesOf
    <3> QED BY ONLY <3>1, <3>2
  <2>5. CASE sh.type = "Switch"
    <3>1. SwitchConnects(n) \in Seq(Calls(0..n))
      BY SwitchCalls
    <3>2. ConnectsOf(sh) = SwitchConnects(n) /\ DevicesOf(sh) = 0..n
      BY <2>1, <2>2, <2>5 DEF ConnectsOf, DevicesOf
    <3> QED BY ONLY <3>1, <3>2
  <2>6. CASE sh.type = "Mesh"
    <3>1. MeshConnects(n) \in Seq(Calls(0..(n - 1)))
      BY MeshCalls
    <3>2. ConnectsOf(sh) = MeshConnects(n) /\ DevicesOf(sh) = 0..(n - 1)
      BY <2>1, <2>2, <2>6 DEF ConnectsOf, DevicesOf
    <3> QED BY ONLY <3>1, <3>2
  <2> QED BY <2>1, <2>3, <2>4, <2>5, <2>6
<1> QED BY <1>1, <1>2

(* Every route of every shape. *)
LEMMA RouteIsShortest ==
  ASSUME shape \in Shape, NEW s \in NPU, NEW d \in NPU, s # d,
         NEW links, links = LinksMade(Connects),
         NEW r, r = RouteBetween(s, d)
  PROVE  /\ IsShortest(Device, links, s, d, r)
         /\ shape.type # "Mesh" => Hops(s, d) = Len(r) - 1
<1>1. /\ shape.type \in {"Ring", "FullyConnected", "Switch", "Mesh"}
      /\ shape.npus_count \in Nat \ {0} /\ shape.npus_count >= 2
      /\ shape.bidirectional \in BOOLEAN
      /\ shape # NoShape
  BY ShapeFacts
<1>2. PICK n \in Nat \ {0}, both \in BOOLEAN :
             n = shape.npus_count /\ n >= 2 /\ both = shape.bidirectional
  BY <1>1
<1>3. s \in 0..(n - 1) /\ d \in 0..(n - 1)
  BY <1>2 DEF NPU
<1>4. links \subseteq Device \X Device
  <2>1. PICK x : x = Connects
    OBVIOUS
  <2>2. x \in Seq(Calls(Device))
    BY <2>1, ByShape, ConnectsAreCalls
  <2>3. \A i \in 1..Len(x) : LinksOf(x[i]) \subseteq Device \X Device
    <3> SUFFICES ASSUME NEW i \in 1..Len(x) PROVE LinksOf(x[i]) \subseteq Device \X Device
      OBVIOUS
    <3>1. x[i] \in Calls(Device)
      BY <2>2, ElementOfSeq
    <3> QED BY <3>1, LinksOfCall
  <2> QED BY <2>1, <2>3, LinksMadeFrom
<1>5. CASE shape.type = "Ring"
  <2>1. /\ links = LinksMade(RingConnects(n, both))
        /\ r = RingRoute(n, both, s, d)
        /\ Hops(s, d) = RingHops(n, both, s, d)
        /\ Device = 0..(n - 1)
    BY <1>1, <1>2, <1>5 DEF Connects, RouteBetween, Hops, Device, NPU
  <2>2. /\ IsShortest(0..(n - 1), LinksMade(RingConnects(n, both)), s, d, RingRoute(n, both, s, d))
        /\ Len(RingRoute(n, both, s, d)) - 1 = RingHops(n, both, s, d)
    BY ONLY <1>2, <1>3, s # d, RingRouteIsShortest, ZenonT(30)
  <2> QED BY <2>1, <2>2
<1>6. CASE shape.type = "FullyConnected"
  <2>1. /\ links = LinksMade(FullyConnectedConnects(n))
        /\ r = <<s, d>> /\ Hops(s, d) = 1 /\ Device = 0..(n - 1)
    BY <1>1, <1>2, <1>6
    DEF Connects, RouteBetween, Hops, Device, NPU, FullyConnectedRoute, FullyConnectedHops
  <2>2. <<s, d>> \in links
    <3>1. PICK x : x = FullyConnectedConnects(n)
      OBVIOUS
    <3>2. <<s, d>> \in {p \in Pairs(n) : p[1] # p[2]}
      BY <1>3 DEF Pairs
    <3>3. PICK i \in 1..Len(x) : x[i] = Call(<<s, d>>[1], <<s, d>>[2], FALSE)
      BY <3>1, <3>2, FullyConnectedCalls DEF IsLoop
    <3>4. <<s, d>> \in LinksOf(x[i])
      BY <3>3 DEF LinksOf, Call
    <3> QED BY <2>1, <3>1, <3>4, LinksMadeFrom
  <2>3. IsShortest(Device, links, s, d, <<s, d>>) /\ Len(<<s, d>>) = 2
    BY ONLY <1>3, <1>4, <2>1, <2>2, s # d, LinkIsShortest
  <2> QED BY <1>6, <2>1, <2>3
<1>7. CASE shape.type = "Switch"
  <2>1. /\ links = LinksMade(SwitchConnects(n))
        /\ r = SwitchRoute(n, s, d) /\ Hops(s, d) = SwitchHops /\ Device = 0..n
    BY <1>1, <1>2, <1>7 DEF Connects, RouteBetween, Hops, Device
  <2>2. /\ IsShortest(0..n, LinksMade(SwitchConnects(n)), s, d, SwitchRoute(n, s, d))
        /\ Len(SwitchRoute(n, s, d)) - 1 = SwitchHops
    BY <1>2, <1>3, SwitchRouteIsShortest
  <2> QED BY <2>1, <2>2
<1>8. CASE shape.type = "Mesh"
  <2>1. links = LinksMade(MeshConnects(n)) /\ r = <<s, d>> /\ Device = 0..(n - 1)
    BY <1>1, <1>2, <1>8 DEF Connects, RouteBetween, Device, NPU, MeshRoute
  <2>2. <<s, d>> \in links
    <3>1. <<s, d>> \in Pairs(n)
      BY <1>3 DEF Pairs
    <3> QED BY <2>1, <3>1, MeshCalls, LinksMadeFrom
  <2>3. IsShortest(Device, links, s, d, <<s, d>>)
    BY ONLY <1>3, <1>4, <2>1, <2>2, s # d, LinkIsShortest
  <2> QED BY <1>8, <2>1, <2>3
<1> QED BY <1>1, <1>5, <1>6, <1>7, <1>8

-----------------------------------------------------------------------------
(* The inductive invariant *)

(* The links of the first k calls. *)
LinksOfFirst(k) == UNION {LinksOf(Connects[i]) : i \in 1..k}

(* The links are those of the calls made so far. *)
ConstructionOK ==
  /\ made <= Len(Connects)
  /\ connections = LinksOfFirst(made)
  /\ shape = NoShape => src = 0 /\ dest = 0

(* A route was asked for only once the topology was finished. *)
RouteOK ==
  route # <<>> =>
    /\ Constructed
    /\ src # dest
    /\ route = RouteBetween(src, dest)

BInv == TypeOK /\ ConstructionOK /\ RouteOK

LEMMA LinksOfFirstFacts ==
  /\ LinksOfFirst(0) = {}
  /\ \A k \in Nat : LinksOfFirst(k + 1) = LinksOfFirst(k) \cup LinksOf(Connects[k + 1])
  /\ LinksOfFirst(Len(Connects)) = LinksMade(Connects)
<1>1. LinksOfFirst(0) = {}
  BY DEF LinksOfFirst
<1>2. \A k \in Nat : \A i : i \in 1..(k + 1) <=> i \in 1..k \/ i = k + 1
  OBVIOUS
<1>3. ASSUME NEW k \in Nat
      PROVE  LinksOfFirst(k + 1) = LinksOfFirst(k) \cup LinksOf(Connects[k + 1])
  BY <1>2 DEF LinksOfFirst
<1>4. LinksOfFirst(Len(Connects)) = LinksMade(Connects)
  BY DEF LinksOfFirst, LinksMade
<1> QED BY <1>1, <1>3, <1>4

(* A configuration that the parser and construct_topology accept gives a shape. *)
LEMMA AcceptedShape ==
  ASSUME NEW file \in File, NEW reconfigurable \in BOOLEAN,
         Accepted(file), Supported(file, reconfigurable)
  PROVE  [type |-> IF reconfigurable THEN "Mesh" ELSE file.topology[1],
          npus_count |-> file.npus_count[1], bidirectional |-> TRUE] \in Shape
<1>1. \A S : \A x \in Lists(S) : Len(x) = 1 => x[1] \in S
  BY DEF Lists
<1>2. file.npus_count \in Lists(1..MaxNPUs)
  BY DEF File
<1>3. Len(file.topology) = 1 /\ Len(file.npus_count) = 1
  BY DEF Accepted, check_validity, Supported
<1>4. file.npus_count[1] \in 1..MaxNPUs
  BY <1>1, <1>2, <1>3
<1>5. 1 \in 1..Len(file.topology)
  BY <1>3
<1>6. file.npus_count[1] > 1
  BY <1>5 DEF Accepted, check_validity
<1>7. file.topology[1] \in TopologyNames
  BY <1>5 DEF Accepted, AllNamesKnown
<1>8. reconfigurable \/ file.topology[1] # "Reconfig"
  BY DEF Supported
<1>9. PICK m : m = file.npus_count[1]
  OBVIOUS
<1>10. m \in 2..MaxNPUs
  BY <1>4, <1>6, <1>9, MaxNPUsAssumption
<1>11. PICK ty : ty = IF reconfigurable THEN "Mesh" ELSE file.topology[1]
  OBVIOUS
<1>12. ty \in {"Ring", "FullyConnected", "Switch", "Mesh"}
  BY <1>7, <1>8, <1>11 DEF TopologyNames
<1>13. [type |-> ty, npus_count |-> m, bidirectional |-> TRUE] \in Shape
  <2>1. PICK sh : sh = [type |-> ty, npus_count |-> m, bidirectional |-> TRUE]
    OBVIOUS
  <2>2. \E t \in {"Ring", "FullyConnected", "Switch", "Mesh"}, k \in 2..MaxNPUs, both \in BOOLEAN :
          sh = [type |-> t, npus_count |-> k, bidirectional |-> both]
    BY <1>10, <1>12, <2>1, Zenon
  <2>3. sh \in Shape
    BY ONLY <2>2 DEF Shape
  <2> QED BY <2>1, <2>3
<1> QED BY <1>9, <1>11, <1>13

LEMMA InitBInv == Init => BInv
<1> SUFFICES ASSUME Init PROVE BInv
  OBVIOUS
<1>1. shape = NoShape /\ made = 0 /\ connections = {} /\ src = 0 /\ dest = 0 /\ route = <<>>
      /\ exited = FALSE
  BY DEF Init
<1>2. Connects = <<>> /\ Len(Connects) = 0
  BY <1>1, ByShape, NoShapeConnectsNothing
<1>3. LinksOfFirst(0) = {}
  BY LinksOfFirstFacts
<1>4. <<>> \in Seq(Device)
  OBVIOUS
<1>5. TypeOK
  BY <1>1, <1>4 DEF TypeOK
<1>6. ConstructionOK
  BY <1>1, <1>2, <1>3 DEF ConstructionOK
<1>7. RouteOK
  BY <1>1 DEF RouteOK
<1> QED BY <1>5, <1>6, <1>7 DEF BInv

(* A shape is chosen while nothing is connected. *)
LEMMA StartBInv ==
  ASSUME BInv, Start, shape' \in Shape, exited' \in BOOLEAN,
         UNCHANGED <<made, connections, src, dest, route>>
  PROVE  BInv'
<1>1. shape = NoShape /\ made \in Nat /\ src = 0 /\ dest = 0
  BY DEF BInv, TypeOK, ConstructionOK, Start
<1>2. Connects = <<>>
  BY <1>1, ByShape, NoShapeConnectsNothing
<1>3. made = 0
  BY <1>1, <1>2 DEF BInv, ConstructionOK
<1>4. connections = {}
  BY <1>3, LinksOfFirstFacts DEF BInv, ConstructionOK
<1>5. route = <<>>
  BY <1>1 DEF BInv, RouteOK, Constructed
<1>6. made' = 0 /\ connections' = {} /\ src' = 0 /\ dest' = 0 /\ route' = <<>>
  BY <1>1, <1>3, <1>4, <1>5
<1>7. 0 <= Len(Connects')
  BY ByShape, ConnectsAreCalls
<1>8. LinksOfFirst(0)' = {}
  BY DEF LinksOfFirst
<1>9. 0 \in NPU'
  BY ShapeFacts DEF NPU
<1>10. <<>> \in Seq(Device')
  OBVIOUS
<1>11. shape' # NoShape
  BY ShapeFacts
<1>12. ConstructionOK'
  BY <1>6, <1>7, <1>8, <1>11 DEF ConstructionOK, LinksOfFirst
<1> QED BY <1>6, <1>9, <1>10, <1>12 DEF BInv, TypeOK, RouteOK

LEMMA ConnectBInv == BInv /\ Connect => BInv'
<1> SUFFICES ASSUME BInv, Connect PROVE BInv'
  OBVIOUS
<1> USE DEF Connect
<1>1. /\ made \in Nat /\ made' = made + 1 /\ made < Len(Connects)
      /\ shape' = shape /\ shape \in Shape \cup {NoShape}
  BY DEF BInv, TypeOK
<1>2. /\ Connects' = Connects /\ Device' = Device /\ Len(Connects) \in Nat
      /\ Connects \in Seq(Calls(Device))
  BY <1>1, ByShape, ConnectsAreCalls
<1>3. made + 1 \in 1..Len(Connects) /\ made + 1 <= Len(Connects)
  BY <1>1, <1>2
<1>4. connections' \subseteq Device \X Device
  <2>1. Connects[made + 1] \in Calls(Device)
    BY <1>2, <1>3, ElementOfSeq
  <2>2. LinksOf(Connects[made + 1]) \subseteq Device \X Device
    BY <2>1, LinksOfCall
  <2> QED BY <2>2 DEF BInv, TypeOK
<1>5. connections' = LinksOfFirst(made)'
  <2>1. connections' = LinksOfFirst(made + 1)
    BY <1>1, LinksOfFirstFacts DEF BInv, ConstructionOK
  <2> QED BY <1>1, <1>2, <2>1 DEF LinksOfFirst
<1>6. route = <<>>
  BY <1>1, <1>2 DEF BInv, RouteOK, Constructed
<1>7. TypeOK'
  BY <1>1, <1>2, <1>4 DEF BInv, TypeOK, NPU
<1>8. ConstructionOK'
  BY <1>1, <1>2, <1>3, <1>5 DEF BInv, ConstructionOK
<1>9. RouteOK'
  BY <1>6 DEF RouteOK
<1> QED BY <1>7, <1>8, <1>9 DEF BInv

LEMMA AskRouteBInv ==
  ASSUME BInv, NEW s \in NPU, NEW d \in NPU, AskRoute(s, d)
  PROVE  BInv'
<1> USE DEF AskRoute
<1>1. shape \in Shape /\ shape' = shape /\ Constructed /\ s # d
  BY DEF BInv, TypeOK, Constructed
<1>2. Connects' = Connects /\ Device' = Device /\ NPU' = NPU
  BY <1>1 DEF Connects, Device, NPU
<1>3. PICK r : r = RouteBetween(s, d)
  OBVIOUS
<1>4. r \in Seq(Device)
  <2>1. PICK links : links = LinksMade(Connects)
    OBVIOUS
  <2> QED BY <1>1, <1>3, <2>1, RouteIsShortest DEF IsShortest
<1>5. route' = r /\ src' = s /\ dest' = d
  BY <1>3
<1>6. RouteBetween(s, d) = (RouteBetween(src, dest))'
  BY <1>1, <1>5 DEF RouteBetween
<1>7. TypeOK'
  BY <1>1, <1>2, <1>4, <1>5 DEF BInv, TypeOK
<1>8. ConstructionOK'
  <2>1. LinksOfFirst(made)' = LinksOfFirst(made)
    BY <1>2 DEF LinksOfFirst
  <2>2. shape' # NoShape
    BY <1>1, ShapeFacts
  <2> QED BY <1>2, <2>1, <2>2 DEF BInv, ConstructionOK
<1>9. RouteOK'
  <2>1. Constructed'
    BY <1>1, <1>2 DEF Constructed
  <2> QED BY <1>1, <1>3, <1>5, <1>6, <2>1 DEF RouteOK
<1> QED BY <1>7, <1>8, <1>9 DEF BInv

LEMMA UnchangedBInv ==
  ASSUME BInv, exited' \in BOOLEAN, UNCHANGED <<shape, made, connections, src, dest, route>>
  PROVE  BInv'
<1>1. Connects' = Connects /\ Device' = Device /\ NPU' = NPU
  BY DEF Connects, Device, NPU
<1>2. TypeOK'
  BY <1>1 DEF BInv, TypeOK
<1>3. ConstructionOK'
  BY <1>1 DEF BInv, ConstructionOK, LinksOfFirst
<1>4. RouteOK'
  <2>1. (RouteBetween(src, dest))' = RouteBetween(src, dest)
    BY DEF RouteBetween
  <2>2. Constructed' = Constructed
    BY <1>1 DEF Constructed
  <2> QED BY <2>1, <2>2 DEF BInv, RouteOK
<1> QED BY <1>2, <1>3, <1>4 DEF BInv

(* BInv is inductive. *)
LEMMA NextBInv == BInv /\ [Next]_vars => BInv'
<1> SUFFICES ASSUME BInv, [Next]_vars PROVE BInv'
  OBVIOUS
<1>0. exited \in BOOLEAN
  BY DEF BInv, TypeOK
<1>1. ASSUME NEW s \in Shape, Construct(s) PROVE BInv'
  BY <1>0, <1>1, StartBInv DEF Construct
<1>2. ASSUME NEW file \in File, NEW reconfigurable \in BOOLEAN,
             ConstructTopology(file, reconfigurable)
      PROVE  BInv'
  <2>1. shape' \in Shape
    BY <1>2, AcceptedShape DEF ConstructTopology
  <2> QED BY <1>0, <1>2, <2>1, StartBInv DEF ConstructTopology
<1>3. ASSUME NEW file \in File, NEW reconfigurable \in BOOLEAN, Exit(file, reconfigurable)
      PROVE  BInv'
  BY <1>3, UnchangedBInv DEF Exit
<1>4. CASE Connect
  BY <1>4, ConnectBInv
<1>5. ASSUME NEW s \in NPU, NEW d \in NPU, AskRoute(s, d) PROVE BInv'
  BY <1>5, AskRouteBInv
<1>6. CASE UNCHANGED vars
  BY <1>0, <1>6, UnchangedBInv DEF vars
<1> QED BY <1>1, <1>2, <1>3, <1>4, <1>5, <1>6 DEF Next

-----------------------------------------------------------------------------
(* The links are those of the calls of connect() made so far, and a route is *)
(* asked for only of a finished topology: in every state, for every number   *)
(* of NPUs.                                                                  *)
THEOREM TopologiesInvariant == Spec => []BInv
<1>1. Init => BInv
  BY InitBInv
<1>2. BInv /\ [Next]_vars => BInv'
  BY NextBInv
<1> QED BY <1>1, <1>2, PTL DEF Spec

(* The devices connected, and those on a route, are devices of the topology. *)
THEOREM TopologiesTypeCorrect == Spec => []TypeOK
<1>1. BInv => TypeOK
  BY DEF BInv
<1> QED BY <1>1, TopologiesInvariant, PTL

LEMMA FinishedLinks ==
  ASSUME BInv, Constructed
  PROVE  shape \in Shape /\ connections = LinksMade(Connects)
<1>1. shape \in Shape /\ made = Len(Connects)
  BY DEF BInv, TypeOK, Constructed
<1>2. connections = LinksOfFirst(made)
  BY DEF BInv, ConstructionOK
<1> QED BY <1>1, <1>2, LinksOfFirstFacts

(* Every route leads over links that the constructor made, from device to    *)
(* device without a repetition, and no path between its ends is shorter: the *)
(* direction a ring chooses is the right one, and Device::send finds the     *)
(* next device of a chunk connected.                                         *)
THEOREM RoutesAreShortest == Spec => []RoutesAreShortestPaths
<1>1. BInv => RoutesAreShortestPaths
  <2> SUFFICES ASSUME BInv, route # <<>>
               PROVE  /\ IsPath(connections, src, dest, route)
                      /\ AtDistance(connections, src, dest, Len(route) - 1)
    BY DEF RoutesAreShortestPaths
  <2>1. Constructed /\ src # dest /\ route = RouteBetween(src, dest)
    BY DEF BInv, RouteOK
  <2>2. shape \in Shape /\ connections = LinksMade(Connects)
    BY <2>1, FinishedLinks
  <2>3. src \in NPU /\ dest \in NPU
    BY <2>1 DEF BInv, TypeOK, Constructed
  <2> QED BY <2>1, <2>2, <2>3, RouteIsShortest DEF IsShortest
<1> QED BY <1>1, TopologiesInvariant, PTL

(* The congestion unaware backend counts the links of the route that the     *)
(* congestion aware backend takes.                                           *)
THEOREM BackendsAgree == Spec => []BackendsAgreeOnHops
<1>1. BInv => BackendsAgreeOnHops
  <2> SUFFICES ASSUME BInv, route # <<>>, shape.type # "Mesh"
               PROVE  Hops(src, dest) = Len(route) - 1
    BY DEF BackendsAgreeOnHops
  <2>1. Constructed /\ src # dest /\ route = RouteBetween(src, dest)
    BY DEF BInv, RouteOK
  <2>2. shape \in Shape
    BY <2>1, FinishedLinks
  <2>3. src \in NPU /\ dest \in NPU
    BY <2>1 DEF BInv, TypeOK, Constructed
  <2>4. PICK links : links = LinksMade(Connects)
    OBVIOUS
  <2> QED BY <2>1, <2>2, <2>3, <2>4, RouteIsShortest
<1> QED BY <1>1, TopologiesInvariant, PTL

(* The finished mesh has every link, and no call of connect() made a link    *)
(* that another one had made.                                                *)
THEOREM MeshHasEveryLinkOnce == Spec => []MeshIsComplete
<1>1. BInv => MeshIsComplete
  <2> SUFFICES ASSUME BInv, Constructed, shape.type = "Mesh"
               PROVE  /\ connections = Device \X Device
                      /\ \A i, j \in 1..made :
                           i # j => LinksOf(Connects[i]) \cap LinksOf(Connects[j]) = {}
    BY DEF MeshIsComplete
  <2>1. shape \in Shape /\ connections = LinksMade(Connects) /\ made = Len(Connects)
    BY FinishedLinks DEF Constructed
  <2>2. PICK n \in Nat \ {0} : n = shape.npus_count /\ shape # NoShape
    BY <2>1, ShapeFacts
  <2>3. Connects = MeshConnects(n) /\ Device = 0..(n - 1)
    BY <2>2 DEF Connects, Device, NPU
  <2>4. /\ \A l \in Pairs(n) : \E i \in 1..Len(Connects) : l \in LinksOf(Connects[i])
        /\ \A i, j \in 1..Len(Connects) :
             i # j => LinksOf(Connects[i]) \cap LinksOf(Connects[j]) = {}
    BY <2>3, MeshCalls
  <2>5. Device \X Device \subseteq connections
    BY <2>1, <2>3, <2>4, LinksMadeFrom DEF Pairs
  <2>6. connections \subseteq Device \X Device
    BY DEF BInv, TypeOK
  <2> QED BY <2>1, <2>4, <2>5, <2>6
<1> QED BY <1>1, TopologiesInvariant, PTL

=============================================================================
