----------------------------- MODULE ProofLemmas ----------------------------
(***************************************************************************)
(* Lemmas that the proofs about several components need: induction over    *)
(* the natural numbers, division, sequences, paths, and the lists of       *)
(* pending chunks that two backends keep.                                  *)
(***************************************************************************)
EXTENDS Integers, Paths, SequenceTheorems, WellFoundedInduction, TLAPS

(* Induction, of a set of numbers: a smallest number outside S would have a *)
(* predecessor in it.                                                       *)
LEMMA SetInduction ==
  ASSUME NEW S \in SUBSET Nat, 0 \in S, \A n \in S : n + 1 \in S
  PROVE  S = Nat
<1> DEFINE R == OpToRel(<, Nat)
           T == Nat \ S
<1>1. \A x, y \in Nat : <<x, y>> \in R <=> x < y
  BY DEF OpToRel
<1>2. IsWellFoundedOn(R, Nat)
  BY NatLessThanWellFounded
<1>3. ASSUME T # {} PROVE FALSE
  <2> HIDE DEF R
  <2>1. T \subseteq Nat
    OBVIOUS
  <2>2. \E x \in T : \A y \in T : ~ (<<y, x>> \in R)
    <3> HIDE DEF T
    <3> QED BY <1>2, <1>3, <2>1, WFMin
  <2>3. PICK x \in T : \A y \in T : ~ (<<y, x>> \in R)
    BY <2>2
  <2>4. x # 0 /\ x - 1 \in Nat /\ x - 1 < x /\ (x - 1) + 1 = x
    OBVIOUS
  <2>5. x - 1 \in T
    BY <2>4
  <2> QED BY <1>1, <2>3, <2>4, <2>5
<1> QED BY <1>3

(* Iteration: a loop that makes f[k] from f[k - 1] by G defines a function. *)
IsIteration(f, a, G, b) ==
  f[0] = a /\ \A k \in 1..b : f[k] = G[<<k, f[k - 1]>>]

LEMMA Iteration ==
  ASSUME NEW T, NEW a \in T, NEW G \in [Nat \X T -> T], NEW b \in Nat
  PROVE  \E f \in [0..b -> T] : IsIteration(f, a, G, b)
<1> DEFINE S == {n \in Nat : \E f \in [0..n -> T] : IsIteration(f, a, G, n)}
<1>1. 0 \in S
  <2>1. [k \in 0..0 |-> a] \in [0..0 -> T] /\ IsIteration([k \in 0..0 |-> a], a, G, 0)
    BY DEF IsIteration
  <2> QED BY <2>1
<1>2. ASSUME NEW n \in S PROVE n + 1 \in S
  <2>1. PICK f \in [0..n -> T] : IsIteration(f, a, G, n)
    OBVIOUS
  <2>2. n \in Nat /\ n \in 0..n
    OBVIOUS
  <2>3. G[<<n + 1, f[n]>>] \in T
    BY <2>2
  <2> DEFINE g == [k \in 0..(n + 1) |-> IF k = n + 1 THEN G[<<n + 1, f[n]>>] ELSE f[k]]
  <2>4. g \in [0..(n + 1) -> T]
    <3>1. \A k \in 0..(n + 1) : k = n + 1 \/ k \in 0..n
      BY <2>2
    <3> QED BY <2>3, <3>1
  <2>5. IsIteration(g, a, G, n + 1)
    <3>1. 0 \in 0..(n + 1) /\ 0 # n + 1
      BY <2>2
    <3>2. ASSUME NEW k \in 1..(n + 1) PROVE g[k] = G[<<k, g[k - 1]>>]
      <4>1. CASE k = n + 1
        <5>1. k - 1 = n /\ k \in 0..(n + 1) /\ n \in 0..(n + 1) /\ n # n + 1
          BY <2>2, <4>1
        <5> QED BY <4>1, <5>1
      <4>2. CASE k # n + 1
        <5>1. k \in 1..n /\ k \in 0..(n + 1) /\ k - 1 \in 0..(n + 1) /\ k - 1 # n + 1
          BY <2>2, <4>2
        <5>2. f[k] = G[<<k, f[k - 1]>>]
          BY <2>1, <5>1 DEF IsIteration
        <5> QED BY <4>2, <5>1, <5>2
      <4> QED BY <4>1, <4>2
    <3> HIDE DEF g
    <3>3. g[0] = a
      BY <2>1, <3>1 DEF IsIteration, g
    <3> QED BY <3>2, <3>3 DEF IsIteration
  <2> HIDE DEF g
  <2> QED BY <2>2, <2>4, <2>5
<1>3. S = Nat
  <2> HIDE DEF S
  <2>1. S \in SUBSET Nat
    BY DEF S
  <2> QED BY <1>1, <1>2, <2>1, SetInduction
<1> QED BY <1>3

-----------------------------------------------------------------------------
(* Division *)

LEMMA DivBounds ==
  ASSUME NEW a \in Nat, NEW b \in Nat \ {0}
  PROVE  /\ a \div b \in Nat
         /\ (a \div b) * b <= a
         /\ a < (a \div b) * b + b
         /\ a % b = a - (a \div b) * b
OBVIOUS

(* A quotient is at least q, or less, as the dividend is at least q times the *)
(* divisor, or less.                                                          *)
LEMMA DivAtLeast ==
  ASSUME NEW a \in Nat, NEW b \in Nat \ {0}, NEW q \in Nat
  PROVE  q <= a \div b <=> q * b <= a
<1> DEFINE d == a \div b
<1>1. d \in Nat /\ d * b <= a /\ a < d * b + b
  BY DivBounds
<1> HIDE DEF d
<1>2. CASE q <= d
  <2>1. PICK k \in Nat : d = q + k
    BY <1>1, <1>2
  <2>2. d * b = q * b + k * b /\ k * b \in Nat /\ q * b \in Nat
    BY <2>1
  <2> QED BY <1>1, <1>2, <2>2 DEF d
<1>3. CASE ~(q <= d)
  <2>1. PICK k \in Nat : q = d + 1 + k
    <3>1. q - (d + 1) \in Nat /\ q = d + 1 + (q - (d + 1))
      BY <1>1, <1>3
    <3> QED BY <3>1
  <2>2. q * b = d * b + b + k * b /\ k * b \in Nat /\ d * b \in Nat
    BY <1>1, <2>1
  <2> QED BY <1>1, <1>3, <2>2 DEF d
<1> QED BY <1>2, <1>3

(* The quotient and the remainder are determined by what they have to be. *)
LEMMA DivUnique ==
  ASSUME NEW a \in Nat, NEW b \in Nat \ {0}, NEW q \in Nat, NEW r \in Nat,
         a = q * b + r, r < b
  PROVE  a \div b = q /\ a % b = r
<1>1. q <= a \div b
  <2>1. q * b <= a
    <3>1. q * b \in Nat
      OBVIOUS
    <3> QED BY <3>1
  <2> QED BY <2>1, DivAtLeast
<1>2. ~(q + 1 <= a \div b)
  <2>1. (q + 1) * b = q * b + b /\ q * b \in Nat
    OBVIOUS
  <2>2. q + 1 \in Nat /\ ~((q + 1) * b <= a)
    BY <2>1
  <2> QED BY <2>2, DivAtLeast
<1>3. a \div b \in Nat
  BY DivBounds
<1>4. a \div b = q
  BY <1>1, <1>2, <1>3
<1>5. a % b = a - q * b
  BY <1>4, DivBounds
<1>6. q * b \in Nat
  OBVIOUS
<1> QED BY <1>4, <1>5, <1>6

(* The three operations by definitions, which the provers match as they *)
(* stand instead of computing with them.                                *)
Product(s, c) == s * c
Quotient(a, b) == a \div b
Remainder(a, b) == a % b

(* A number modulo a product. *)
LEMMA ModProduct ==
  ASSUME NEW a \in Nat, NEW s \in Nat \ {0}, NEW c \in Nat \ {0}, NEW n,
         n = Product(s, c)
  PROVE  /\ n \in Nat \ {0}
         /\ Quotient(n, c) = s
         /\ Quotient(Remainder(a, n), s) = Remainder(Quotient(a, s), c)
         /\ Remainder(Remainder(a, n), s) = Remainder(a, s)
         /\ Remainder(a, n) =
              Remainder(a, s) + Product(Remainder(Quotient(a, s), c), s)
<1> USE DEF Product, Quotient, Remainder
<1>1. n \in Nat \ {0}
  OBVIOUS
<1>2. n \div c = s
  BY <1>1, DivUnique
<1>3. PICK u \in Nat, v \in Nat : u = a \div s /\ v = a % s /\ a = u * s + v /\ v < s
  BY DivBounds
<1>4. PICK x \in Nat, y \in Nat : x = u \div c /\ y = u % c /\ u = x * c + y /\ y < c
  BY DivBounds
<1>5. PICK w \in Nat : w = y * s + v
  BY <1>3, <1>4
<1>6. a = x * n + w
  <2>1. a = (x * c + y) * s + v
    BY <1>3, <1>4
  <2>2. (x * c + y) * s = x * n + y * s
    <3>1. PICK z \in Nat : z = x * c
      OBVIOUS
    <3>2. (z + y) * s = z * s + y * s
      BY <1>4, <3>1
    <3>3. z * s = x * n
      BY <1>1, <3>1
    <3> QED BY <3>1, <3>2, <3>3
  <2>3. a = (x * n + y * s) + v
    BY ONLY <2>1, <2>2
  <2>4. PICK p \in Nat, q \in Nat : p = x * n /\ q = y * s
    BY <1>1, <1>4
  <2>5. (p + q) + v = p + (q + v)
    BY <1>3, <2>4
  <2> QED BY <1>5, <2>3, <2>4, <2>5
<1>7. w < n
  <2>1. PICK k \in Nat : c = y + 1 + k
    <3>1. c - (y + 1) \in Nat /\ c = y + 1 + (c - (y + 1))
      BY <1>4
    <3> QED BY <3>1
  <2>2. n = y * s + s + k * s /\ y * s \in Nat /\ k * s \in Nat
    BY <1>1, <2>1
  <2> QED BY <1>3, <1>5, <2>2
<1>8. a % n = w
  <2>1. a \in Nat /\ n \in Nat \ {0} /\ x \in Nat /\ w \in Nat
    BY <1>1, <1>4, <1>5
  <2> QED BY ONLY <2>1, <1>6, <1>7, DivUnique
<1>9. w \div s = y /\ w % s = v
  BY <1>3, <1>5, DivUnique
<1>10. w = v + y * s
  <2>1. y * s \in Nat
    BY <1>4
  <2> QED BY <1>3, <1>5, <2>1
<1> QED BY <1>1, <1>2, <1>3, <1>4, <1>8, <1>9, <1>10

-----------------------------------------------------------------------------
(* Sequences *)

LEMMA AppendFacts ==
  ASSUME NEW S, NEW s \in Seq(S), NEW x \in S
  PROVE  /\ Append(s, x) \in Seq(S) /\ Append(s, x) # <<>>
         /\ Len(s) \in Nat /\ Len(Append(s, x)) = Len(s) + 1
         /\ \A i \in 1..Len(s) : Append(s, x)[i] = s[i]
         /\ Append(s, x)[Len(s) + 1] = x
         /\ \A i : i \in 1..(Len(s) + 1) <=> i \in 1..Len(s) \/ i = Len(s) + 1
<1>1. Len(s) \in Nat
  OBVIOUS
<1>2. \A n \in Nat : \A i : i \in 1..(n + 1) <=> i \in 1..n \/ i = n + 1
  OBVIOUS
<1> QED BY <1>1, <1>2, AppendProperties

(* A loop that appends the items of some of its rounds to a list. *)
IsCollected(f, b, rounds, item) ==
  f = [k \in 0..b |-> IF k = 0 THEN <<>>
                      ELSE IF k \in rounds THEN Append(f[k - 1], item[k]) ELSE f[k - 1]]

LEMMA CollectExists ==
  ASSUME NEW T, NEW b \in Nat, NEW rounds, NEW item \in [1..b -> T]
  PROVE  \E f : IsCollected(f, b, rounds, item)
<1> DEFINE Taken(k) == k \in rounds /\ k \in 1..b
           G == [p \in Nat \X Seq(T) |->
                   IF Taken(p[1]) THEN Append(p[2], item[p[1]]) ELSE p[2]]
<1>1. G \in [Nat \X Seq(T) -> Seq(T)]
  <2> SUFFICES ASSUME NEW k \in Nat, NEW x \in Seq(T)
               PROVE  (IF Taken(k) THEN Append(x, item[k]) ELSE x) \in Seq(T)
    OBVIOUS
  <2>1. CASE Taken(k)
    <3>1. item[k] \in T
      BY <2>1
    <3> QED BY <2>1, <3>1, AppendFacts
  <2>2. CASE ~Taken(k)
    BY <2>2
  <2> QED BY <2>1, <2>2
<1>2. PICK g \in [0..b -> Seq(T)] : IsIteration(g, <<>>, G, b)
  <2>1. <<>> \in Seq(T)
    OBVIOUS
  <2> HIDE DEF G
  <2> QED BY <1>1, <2>1, Iteration
<1>3. ASSUME NEW k \in 0..b
      PROVE  g[k] = IF k = 0 THEN <<>>
                    ELSE IF k \in rounds THEN Append(g[k - 1], item[k]) ELSE g[k - 1]
  <2>1. CASE k = 0
    BY <1>2, <2>1 DEF IsIteration
  <2>2. CASE k # 0
    <3>1. k \in 1..b /\ k \in Nat /\ k - 1 \in 0..b
      BY <2>2
    <3>2. <<k, g[k - 1]>> \in Nat \X Seq(T)
      BY <1>2, <3>1
    <3>3. g[k] = G[<<k, g[k - 1]>>]
      BY <1>2, <3>1 DEF IsIteration
    <3> QED BY <2>2, <3>1, <3>2, <3>3
  <2> QED BY <2>1, <2>2
<1>4. IsCollected(g, b, rounds, item)
  BY <1>2, <1>3 DEF IsCollected
<1> QED BY <1>4

(* Where no item is the item of two rounds, the list has every item of the *)
(* rounds once and in order.                                               *)
Collects(x, T, rounds, item) ==
  /\ x \in Seq(T)
  /\ \A i \in 1..Len(x) : \E k \in rounds : x[i] = item[k]
  /\ \A k \in rounds : \E i \in 1..Len(x) : x[i] = item[k]
  /\ \A i, j \in 1..Len(x) : x[i] = x[j] => i = j

LEMMA CollectedList ==
  ASSUME NEW T, NEW b \in Nat, NEW rounds \in SUBSET (1..b), NEW item \in [1..b -> T],
         \A j, k \in 1..b : item[j] = item[k] => j = k,
         NEW f, IsCollected(f, b, rounds, item)
  PROVE  Collects(f[b], T, rounds, item)
<1> DEFINE Upto(m) == {k \in rounds : k <= m}
           S == {m \in Nat : m <= b => Collects(f[m], T, Upto(m), item)}
<1>0. \A k \in rounds : k \in 1..b /\ k \in Nat \ {0} /\ k <= b
  OBVIOUS
<1>1. 0 \in S
  <2>1. f[0] = <<>> /\ Upto(0) = {}
    <3>1. 0 \in 0..b
      OBVIOUS
    <3>2. f[0] = <<>>
      BY <3>1 DEF IsCollected
    <3>3. \A k \in Nat \ {0} : ~(k <= 0)
      OBVIOUS
    <3> QED BY <1>0, <3>2, <3>3
  <2>2. <<>> \in Seq(T) /\ \A i : i \notin 1..Len(<<>>)
    OBVIOUS
  <2> HIDE DEF Upto
  <2> QED BY <2>1, <2>2 DEF Collects
<1>2. ASSUME NEW m \in S PROVE m + 1 \in S
  <2> SUFFICES ASSUME m + 1 <= b PROVE Collects(f[m + 1], T, Upto(m + 1), item)
    OBVIOUS
  <2>1. m \in Nat /\ m + 1 \in 1..b /\ m + 1 \in 0..b /\ m + 1 # 0 /\ (m + 1) - 1 = m
    OBVIOUS
  <2>2. PICK x : x = f[m] /\ Collects(x, T, Upto(m), item)
    <3>1. m <= b
      BY <2>1
    <3> HIDE DEF Upto
    <3> QED BY <3>1
  <2>3. f[m + 1] = IF m + 1 \in rounds THEN Append(x, item[m + 1]) ELSE x
    BY <2>1, <2>2 DEF IsCollected
  <2>4. CASE m + 1 \notin rounds
    <3>1. Upto(m + 1) = Upto(m)
      <4>1. \A k \in Nat : k # m + 1 => (k <= m + 1 <=> k <= m)
        BY <2>1
      <4> QED BY <1>0, <2>4, <4>1
    <3> QED BY <2>2, <2>3, <2>4, <3>1
  <2>5. CASE m + 1 \in rounds
    <3>1. Upto(m + 1) = Upto(m) \cup {m + 1}
      <4>1. \A k \in Nat : k <= m + 1 <=> k <= m \/ k = m + 1
        BY <2>1
      <4> QED BY <1>0, <2>5, <4>1
    <3>2. PICK c \in T : c = item[m + 1]
      BY <2>1
    <3>3. PICK y : y = Append(x, c)
      OBVIOUS
    <3>4. /\ y \in Seq(T) /\ Len(x) \in Nat /\ Len(y) = Len(x) + 1
          /\ \A i \in 1..Len(x) : y[i] = x[i]
          /\ y[Len(x) + 1] = c
          /\ \A i : i \in 1..(Len(x) + 1) <=> i \in 1..Len(x) \/ i = Len(x) + 1
      BY <2>2, <3>2, <3>3, AppendFacts DEF Collects
    <3>5. \A i \in 1..Len(x) : x[i] # c
      <4>1. \A k \in Upto(m) : k \in 1..b /\ k # m + 1
        BY <2>1
      <4>2. \A k \in Upto(m) : item[k] # c
        BY <2>1, <3>2, <4>1
      <4> HIDE DEF Upto
      <4> QED BY <2>2, <4>2 DEF Collects
    <3>r. PICK old, new : old = Upto(m) /\ new = Upto(m + 1)
      OBVIOUS
    <3>s. /\ new = old \cup {m + 1}
          /\ \A i \in 1..Len(x) : \E k \in old : x[i] = item[k]
          /\ \A k \in old : \E i \in 1..Len(x) : x[i] = item[k]
      <4> HIDE DEF Upto
      <4> QED BY <2>2, <3>1, <3>r DEF Collects
    <3>6. \A i \in 1..Len(y) : \E k \in new : y[i] = item[k]
      <4> SUFFICES ASSUME NEW i \in 1..Len(y) PROVE \E k \in new : y[i] = item[k]
        OBVIOUS
      <4>1. CASE i \in 1..Len(x)
        BY ONLY <3>4, <3>s, <4>1
      <4>2. CASE i = Len(x) + 1
        BY ONLY <3>2, <3>4, <3>s, <4>2
      <4> QED BY ONLY i \in 1..Len(y), <3>4, <4>1, <4>2
    <3>7. \A k \in new : \E i \in 1..Len(y) : y[i] = item[k]
      <4> SUFFICES ASSUME NEW k \in new PROVE \E i \in 1..Len(y) : y[i] = item[k]
        OBVIOUS
      <4>1. CASE k \in old
        <5>1. PICK i \in 1..Len(x) : x[i] = item[k]
          BY ONLY <3>s, <4>1
        <5>2. i \in 1..Len(y) /\ y[i] = item[k]
          BY ONLY i \in 1..Len(x), <3>4, <5>1
        <5> QED BY ONLY <5>2
      <4>2. CASE k = m + 1
        <5>1. Len(x) + 1 \in 1..Len(y)
          BY ONLY <3>4
        <5>2. y[Len(x) + 1] = item[k]
          BY ONLY <3>2, <3>4, <4>2
        <5> QED BY ONLY <5>1, <5>2
      <4> QED BY ONLY k \in new, <3>s, <4>1, <4>2
    <3>8. \A i, j \in 1..Len(y) : y[i] = y[j] => i = j
      <4>1. \A i, j \in 1..Len(x) : x[i] = x[j] => i = j
        BY <2>2 DEF Collects
      <4> QED BY ONLY <3>4, <3>5, <4>1
    <3> HIDE DEF Upto
    <3>9. Collects(y, T, Upto(m + 1), item)
      BY <3>4, <3>6, <3>7, <3>8, <3>r DEF Collects
    <3>10. f[m + 1] = y
      BY <2>3, <2>5, <3>2, <3>3
    <3> QED BY <3>9, <3>10
  <2> QED BY <2>4, <2>5
<1>3. S = Nat
  <2> HIDE DEF S
  <2>1. S \in SUBSET Nat
    BY DEF S
  <2> QED BY <1>1, <1>2, <2>1, SetInduction
<1>4. Collects(f[b], T, Upto(b), item)
  <2> HIDE DEF Upto
  <2>1. b \in S /\ b <= b
    BY <1>3
  <2> QED BY <2>1
<1>5. Upto(b) = rounds
  BY <1>0
<1> QED BY <1>4, <1>5

-----------------------------------------------------------------------------
(* Lists of pending chunks: a function p from links to lists, and what      *)
(* becomes of the places of the chunks when one is put at the end of a list *)
(* or taken from the front.                                                 *)

(* Chunk c is in the list of l. *)
Occurs(p, c, l) == \E i \in 1..Len(p[l]) : p[l][i] = c

(* No chunk is in two places. *)
PlacesDiffer(p, L) ==
  \A l, m \in L : \A i \in 1..Len(p[l]), j \in 1..Len(p[m]) :
     p[l][i] = p[m][j] => l = m /\ i = j

(* The lists once c is appended to that of l, and once the first of l is out. *)
Appended(p, L, l, c) == [m \in L |-> IF m = l THEN Append(p[l], c) ELSE p[m]]
Popped(p, L, l) == [m \in L |-> IF m = l THEN Tail(p[l]) ELSE p[m]]

(* What q is to p when c has come into the list of l, or gone from it. *)
CameIn(C, L, p, l, c, q) ==
  /\ q \in [L -> Seq(C)]
  /\ PlacesDiffer(q, L)
  /\ \A d, m : m \in L => (Occurs(q, d, m) <=> Occurs(p, d, m) \/ (d = c /\ m = l))
  /\ q[l] # <<>>
  /\ \A m \in L \ {l} : q[m] = p[m]
WentOut(C, L, p, l, c, q) ==
  /\ q \in [L -> Seq(C)]
  /\ PlacesDiffer(q, L)
  /\ c \in C /\ Occurs(p, c, l)
  /\ \A d, m : m \in L => (Occurs(q, d, m) <=> Occurs(p, d, m) /\ d # c)
  /\ \A m \in L \ {l} : q[m] = p[m]

(* An empty list holds nothing. *)
LEMMA EmptyListHoldsNothing ==
  ASSUME NEW p, NEW l, p[l] = <<>>
  PROVE  \A c : ~Occurs(p, c, l)
<1>1. Len(<<>>) = 0
  OBVIOUS
<1> QED BY <1>1 DEF Occurs

(* A chunk that is in no list is appended to that of l. *)
LEMMA ListsAfterAppend ==
  ASSUME NEW C, NEW L, NEW p \in [L -> Seq(C)], PlacesDiffer(p, L),
         NEW l \in L, NEW c \in C, \A m \in L : ~Occurs(p, c, m)
  PROVE  CameIn(C, L, p, l, c, Appended(p, L, l, c))
<1> DEFINE old == p[l]
           q == Appended(p, L, l, c)
<1> USE DEF Appended
<1>1. old \in Seq(C) /\ Len(old) \in Nat
  OBVIOUS
<1>2. /\ q[l] \in Seq(C) /\ q[l] # <<>>
      /\ Len(q[l]) = Len(old) + 1
      /\ \A i \in 1..Len(old) : q[l][i] = old[i]
      /\ q[l][Len(old) + 1] = c
  BY <1>1, AppendProperties
<1>3. \A m \in L \ {l} : q[m] = p[m]
  OBVIOUS
<1>4. q \in [L -> Seq(C)]
  BY <1>2, <1>3
<1>5. \A i : i \in 1..(Len(old) + 1) <=> i \in 1..Len(old) \/ i = Len(old) + 1
  BY <1>1
<1>6. \A d, m : m \in L => (Occurs(q, d, m) <=> Occurs(p, d, m) \/ (d = c /\ m = l))
  BY <1>1, <1>2, <1>3, <1>5 DEF Occurs
<1>7. PlacesDiffer(q, L)
  <2> SUFFICES ASSUME NEW m \in L, NEW k \in L,
                      NEW i \in 1..Len(q[m]), NEW j \in 1..Len(q[k]), q[m][i] = q[k][j]
               PROVE  m = k /\ i = j
    BY DEF PlacesDiffer
  <2>1. \/ i \in 1..Len(p[m]) /\ q[m][i] = p[m][i]
        \/ m = l /\ i = Len(old) + 1 /\ q[m][i] = c
    BY <1>2, <1>3, <1>5
  <2>2. \/ j \in 1..Len(p[k]) /\ q[k][j] = p[k][j]
        \/ k = l /\ j = Len(old) + 1 /\ q[k][j] = c
    BY <1>2, <1>3, <1>5
  <2>3. \A n \in L : \A h \in 1..Len(p[n]) : p[n][h] # c
    BY DEF Occurs
  <2> QED BY <2>1, <2>2, <2>3 DEF PlacesDiffer
<1> QED BY <1>2, <1>3, <1>4, <1>6, <1>7 DEF CameIn

(* The first chunk of the list of l is taken out. *)
LEMMA ListsAfterPop ==
  ASSUME NEW C, NEW L, NEW p \in [L -> Seq(C)], PlacesDiffer(p, L),
         NEW l \in L, p[l] # <<>>
  PROVE  WentOut(C, L, p, l, Head(p[l]), Popped(p, L, l))
<1> DEFINE old == p[l]
           q == Popped(p, L, l)
           c == Head(p[l])
<1> USE DEF Popped
<1>1. /\ old \in Seq(C) /\ Len(old) \in Nat \ {0}
      /\ c = old[1] /\ c \in C
      /\ 1 \in 1..Len(old)
  BY EmptySeq, HeadTailProperties
<1>2. /\ q[l] \in Seq(C)
      /\ Len(q[l]) = Len(old) - 1
      /\ \A i \in 1..Len(q[l]) : q[l][i] = old[i + 1]
  BY <1>1, HeadTailProperties
<1>3. \A m \in L \ {l} : q[m] = p[m]
  OBVIOUS
<1>4. q \in [L -> Seq(C)]
  BY <1>2, <1>3
<1>5. Occurs(p, c, l)
  BY <1>1 DEF Occurs
<1>6. \A i \in 1..Len(q[l]) : i + 1 \in 1..Len(old) /\ i + 1 # 1
  BY <1>1, <1>2
<1>7. \A i \in 1..Len(old) : i # 1 => i - 1 \in 1..Len(q[l]) /\ q[l][i - 1] = old[i]
  BY <1>1, <1>2
<1>8. \A m \in L : \A i \in 1..Len(p[m]) : p[m][i] = c => m = l /\ i = 1
  BY <1>1 DEF PlacesDiffer
<1> HIDE DEF c
<1>9. ASSUME NEW d, NEW m \in L
      PROVE  Occurs(q, d, m) <=> Occurs(p, d, m) /\ d # c
  <2>1. CASE m # l
    BY <1>3, <1>8, <2>1 DEF Occurs
  <2>2. CASE m = l
    <3>1. ASSUME Occurs(q, d, m) PROVE Occurs(p, d, m) /\ d # c
      <4>1. PICK i \in 1..Len(q[l]) : q[l][i] = d
        BY <2>2, <3>1 DEF Occurs
      <4>2. i + 1 \in 1..Len(old) /\ i + 1 # 1 /\ old[i + 1] = d
        BY <1>2, <1>6, <4>1
      <4> QED BY <1>8, <2>2, <4>2 DEF Occurs
    <3>2. ASSUME Occurs(p, d, m), d # c PROVE Occurs(q, d, m)
      <4>1. PICK i \in 1..Len(old) : old[i] = d
        BY <2>2, <3>2 DEF Occurs
      <4>2. i # 1
        BY <1>1, <3>2, <4>1
      <4> QED BY <1>7, <2>2, <4>1, <4>2 DEF Occurs
    <3> QED BY <3>1, <3>2
  <2> QED BY <2>1, <2>2
<1>10. PlacesDiffer(q, L)
  <2> SUFFICES ASSUME NEW m \in L, NEW k \in L,
                      NEW i \in 1..Len(q[m]), NEW j \in 1..Len(q[k]), q[m][i] = q[k][j]
               PROVE  m = k /\ i = j
    BY DEF PlacesDiffer
  <2> DEFINE u == IF m = l THEN i + 1 ELSE i
             v == IF k = l THEN j + 1 ELSE j
  <2>1. u \in 1..Len(p[m]) /\ q[m][i] = p[m][u]
    BY <1>2, <1>3, <1>6
  <2>2. v \in 1..Len(p[k]) /\ q[k][j] = p[k][v]
    BY <1>2, <1>3, <1>6
  <2>3. m = k /\ u = v
    <3> HIDE DEF u, v
    <3> QED BY <2>1, <2>2 DEF PlacesDiffer
  <2>4. i \in Int /\ j \in Int
    OBVIOUS
  <2> QED BY <2>3, <2>4
<1> QED BY <1>1, <1>3, <1>4, <1>5, <1>9, <1>10 DEF c, WentOut

-----------------------------------------------------------------------------
(* Paths: the devices at most k links away *)

Near(links, src, k) == Within(links, src, k)[k]

(* One link further than the devices of X. *)
Further(links, X) == X \cup {l[2] : l \in {m \in links : m[1] \in X}}

IsReach(f, links, src, b) ==
  f = [k \in 0..b |-> IF k = 0 THEN {src} ELSE Further(links, f[k - 1])]

(* There is such a function, up to every bound. *)
LEMMA ReachExists ==
  ASSUME NEW links, NEW src, NEW b \in Nat
  PROVE  \E f : IsReach(f, links, src, b)
<1> DEFINE S == {n \in Nat : \E f : IsReach(f, links, src, n)}
<1>1. 0 \in S
  <2>1. IsReach([k \in 0..0 |-> {src}], links, src, 0)
    BY DEF IsReach
  <2> QED BY <2>1
<1>2. ASSUME NEW n \in S PROVE n + 1 \in S
  <2>1. PICK f : IsReach(f, links, src, n)
    OBVIOUS
  <2>2. n \in Nat
    OBVIOUS
  <2> DEFINE g == [k \in 0..(n + 1) |-> IF k = n + 1 THEN Further(links, f[n]) ELSE f[k]]
  <2>3. IsReach(g, links, src, n + 1)
    <3> SUFFICES ASSUME NEW k \in 0..(n + 1)
                 PROVE  g[k] = IF k = 0 THEN {src} ELSE Further(links, g[k - 1])
      BY DEF IsReach
    <3>1. CASE k = 0
      <4>1. 0 \in 0..n /\ 0 # n + 1
        BY <2>2
      <4> QED BY <2>1, <3>1, <4>1 DEF IsReach
    <3>2. CASE k = n + 1
      <4>1. k # 0 /\ k - 1 = n /\ n \in 0..(n + 1) /\ n # n + 1
        BY <2>2, <3>2
      <4> QED BY <3>2, <4>1
    <3>3. CASE k # 0 /\ k # n + 1
      <4>1. k \in 0..n /\ k - 1 \in 0..(n + 1) /\ k - 1 # n + 1
        BY <2>2, <3>3
      <4>2. f[k] = Further(links, f[k - 1])
        BY <2>1, <3>3, <4>1 DEF IsReach
      <4> QED BY <3>3, <4>1, <4>2
    <3> QED BY <3>1, <3>2, <3>3
  <2> QED BY <2>2, <2>3
<1>3. S = Nat
  <2> HIDE DEF S
  <2>1. S \in SUBSET Nat
    BY DEF S
  <2> QED BY <1>1, <1>2, <2>1, SetInduction
<1> QED BY <1>3

LEMMA WithinIsReach ==
  ASSUME NEW links, NEW src, NEW b \in Nat
  PROVE  IsReach(Within(links, src, b), links, src, b)
<1>1. Within(links, src, b) = CHOOSE f : IsReach(f, links, src, b)
  BY DEF Within, IsReach, Further
<1> QED BY <1>1, ReachExists

(* The bound does not matter. *)
LEMMA WithinIsNear ==
  ASSUME NEW links, NEW src, NEW b \in Nat, NEW k \in 0..b
  PROVE  Within(links, src, b)[k] = Near(links, src, k)
<1>1. PICK f, g : /\ f = Within(links, src, b) /\ IsReach(f, links, src, b)
                  /\ g = Within(links, src, k) /\ IsReach(g, links, src, k)
  BY WithinIsReach
<1> DEFINE S == {n \in Nat : n <= k => f[n] = g[n]}
<1>2. 0 \in S
  BY <1>1 DEF IsReach
<1>3. ASSUME NEW n \in S PROVE n + 1 \in S
  <2> SUFFICES ASSUME n + 1 <= k PROVE f[n + 1] = g[n + 1]
    OBVIOUS
  <2>1. /\ n + 1 \in 0..k /\ n + 1 \in 0..b /\ n + 1 # 0 /\ (n + 1) - 1 = n
        /\ f[n] = g[n]
    OBVIOUS
  <2>2. f[n + 1] = Further(links, f[n])
    BY <1>1, <2>1 DEF IsReach
  <2>3. g[n + 1] = Further(links, g[n])
    BY <1>1, <2>1 DEF IsReach
  <2> QED BY ONLY <2>1, <2>2, <2>3
<1>4. S = Nat
  <2> HIDE DEF S
  <2>1. S \in SUBSET Nat
    BY DEF S
  <2> QED BY <1>2, <1>3, <2>1, SetInduction
<1> QED BY <1>1, <1>4 DEF Near

LEMMA NearSteps ==
  ASSUME NEW links, NEW src
  PROVE  /\ Near(links, src, 0) = {src}
         /\ \A k \in Nat : Near(links, src, k + 1) = Further(links, Near(links, src, k))
<1>1. Near(links, src, 0) = {src}
  BY WithinIsReach DEF Near, IsReach
<1>2. ASSUME NEW k \in Nat
      PROVE  Near(links, src, k + 1) = Further(links, Near(links, src, k))
  <2>1. IsReach(Within(links, src, k + 1), links, src, k + 1)
    BY WithinIsReach
  <2>2. k + 1 \in 0..(k + 1) /\ k + 1 # 0 /\ (k + 1) - 1 = k /\ k \in 0..(k + 1)
    OBVIOUS
  <2>3. Within(links, src, k + 1)[k] = Near(links, src, k)
    BY <2>2, WithinIsNear
  <2> QED BY <2>1, <2>2, <2>3 DEF IsReach, Near
<1> QED BY <1>1, <1>2

(* The same for one step, with its index named. *)
LEMMA NearNext ==
  ASSUME NEW links, NEW src, NEW k \in Nat, NEW j, j = k + 1
  PROVE  Near(links, src, j) = Further(links, Near(links, src, k))
<1>1. \A i \in Nat : Near(links, src, i + 1) = Further(links, Near(links, src, i))
  BY ONLY NearSteps
<1> QED BY ONLY <1>1, k \in Nat, j = k + 1

LEMMA NearGrows ==
  ASSUME NEW links, NEW src, NEW j \in Nat, NEW k \in Nat, j <= k
  PROVE  Near(links, src, j) \subseteq Near(links, src, k)
<1> DEFINE S == {n \in Nat : Near(links, src, j) \subseteq Near(links, src, j + n)}
<1>1. 0 \in S
  BY Z3
<1>2. ASSUME NEW n \in S PROVE n + 1 \in S
  <2>1. j + n \in Nat /\ j + (n + 1) = (j + n) + 1
    OBVIOUS
  <2>2. Near(links, src, j + n) \subseteq Near(links, src, (j + n) + 1)
    BY <2>1, NearSteps DEF Further
  <2> QED BY <2>1, <2>2
<1>3. S = Nat
  <2> HIDE DEF S
  <2>1. S \in SUBSET Nat
    BY DEF S
  <2> QED BY <1>1, <1>2, <2>1, SetInduction
<1>4. k - j \in Nat /\ j + (k - j) = k
  OBVIOUS
<1>5. Near(links, src, j) \subseteq Near(links, src, j + (k - j))
  <2> HIDE DEF S
  <2>1. k - j \in S
    BY <1>3, <1>4
  <2> QED BY <2>1 DEF S
<1> QED BY <1>4, <1>5

(* The distance by the devices near src. *)
LEMMA AtDistanceIsNear ==
  ASSUME NEW links, NEW src, NEW v, NEW k \in Nat
  PROVE  AtDistance(links, src, v, k) <=>
           v \in Near(links, src, k) /\ \A j \in 0..(k - 1) : v \notin Near(links, src, j)
<1>1. \A j \in 0..(k - 1) : j \in 0..k
  OBVIOUS
<1>2. Within(links, src, k)[k] = Near(links, src, k)
  BY DEF Near
<1> QED BY <1>1, <1>2, WithinIsNear DEF AtDistance

LEMMA ReachableIsNear ==
  ASSUME NEW links, NEW src, NEW v, NEW n \in Nat
  PROVE  Reachable(links, src, v, n) <=> v \in Near(links, src, n)
BY DEF Reachable, Near

(* The devices of a path are near by their place on it. *)
LEMMA PathLeadsNear ==
  ASSUME NEW links, NEW src, NEW dest, NEW D, NEW p \in Seq(D),
         IsPath(links, src, dest, p)
  PROVE  \A k \in 0..(Len(p) - 1) : p[k + 1] \in Near(links, src, k)
<1>1. Len(p) \in Nat
  OBVIOUS
<1> DEFINE S == {k \in Nat : k <= Len(p) - 1 => p[k + 1] \in Near(links, src, k)}
<1>2. 0 \in S
  <2>1. p[0 + 1] = src
    BY DEF IsPath
  <2> QED BY <2>1, NearSteps
<1>3. ASSUME NEW k \in S PROVE k + 1 \in S
  <2> SUFFICES ASSUME k + 1 <= Len(p) - 1
               PROVE  p[(k + 1) + 1] \in Near(links, src, k + 1)
    OBVIOUS
  <2>1. k \in Nat /\ k <= Len(p) - 1 /\ k + 1 \in 1..(Len(p) - 1)
    BY <1>1
  <2>2. <<p[k + 1], p[(k + 1) + 1]>> \in links
    BY <2>1 DEF IsPath
  <2>3. p[k + 1] \in Near(links, src, k)
    BY <2>1
  <2>4. p[(k + 1) + 1] \in Further(links, Near(links, src, k))
    BY <2>2, <2>3 DEF Further
  <2>5. Near(links, src, k + 1) = Further(links, Near(links, src, k))
    BY ONLY k \in Nat, NearNext
  <2> QED BY <2>4, <2>5
<1>4. S = Nat
  <2> HIDE DEF S
  <2>1. S \in SUBSET Nat
    BY DEF S
  <2> QED BY <1>2, <1>3, <2>1, SetInduction
<1> QED BY <1>1, <1>4

(* A number for every device that no link raises by more than one: a device *)
(* at level h is not nearer than h links.                                   *)
IsLevel(h, D, links, src) ==
  /\ h \in [D -> Nat]
  /\ src \in D /\ h[src] = 0
  /\ links \subseteq D \X D
  /\ \A l \in links : h[l[2]] <= h[l[1]] + 1

LEMMA LevelsBound ==
  ASSUME NEW links, NEW src, NEW D, NEW h, IsLevel(h, D, links, src)
  PROVE  \A k \in Nat : \A v \in Near(links, src, k) : v \in D /\ h[v] <= k
<1> DEFINE S == {k \in Nat : \A v \in Near(links, src, k) : v \in D /\ h[v] <= k}
<1>1. 0 \in S
  BY NearSteps DEF IsLevel
<1>2. ASSUME NEW k \in S PROVE k + 1 \in S
  <2> SUFFICES ASSUME NEW v \in Near(links, src, k + 1)
               PROVE  v \in D /\ h[v] <= k + 1
    OBVIOUS
  <2>1. k \in Nat /\ \A u \in Near(links, src, k) : u \in D /\ h[u] <= k
    OBVIOUS
  <2>2. v \in Further(links, Near(links, src, k))
    BY <2>1, NearNext
  <2>3. CASE v \in Near(links, src, k)
    BY <2>1, <2>3 DEF IsLevel
  <2>4. CASE v \notin Near(links, src, k)
    <3>1. PICK l \in links : l[1] \in Near(links, src, k) /\ v = l[2]
      BY <2>2, <2>4 DEF Further
    <3>2. v \in D /\ l[1] \in D /\ h[v] <= h[l[1]] + 1 /\ h[l[1]] <= k
      BY <2>1, <3>1 DEF IsLevel
    <3>3. h[v] \in Nat /\ h[l[1]] \in Nat
      BY <3>2 DEF IsLevel
    <3> QED BY <2>1, <3>2, <3>3
  <2> QED BY <2>3, <2>4
<1>3. S = Nat
  <2> HIDE DEF S
  <2>1. S \in SUBSET Nat
    BY DEF S
  <2> QED BY <1>1, <1>2, <2>1, SetInduction
<1> QED BY <1>3

(* A path whose length is the level of its end is a shortest one. *)
LEMMA ShortestByLevel ==
  ASSUME NEW links, NEW src, NEW dest, NEW D, NEW h, IsLevel(h, D, links, src),
         NEW p \in Seq(D), IsPath(links, src, dest, p), h[dest] = Len(p) - 1
  PROVE  AtDistance(links, src, dest, Len(p) - 1)
<1>1. Len(p) - 1 \in Nat /\ Len(p) - 1 \in 0..(Len(p) - 1) /\ (Len(p) - 1) + 1 = Len(p)
  BY EmptySeq, LenProperties DEF IsPath
<1>2. dest \in Near(links, src, Len(p) - 1)
  <2>1. p[(Len(p) - 1) + 1] \in Near(links, src, Len(p) - 1)
    BY <1>1, PathLeadsNear
  <2> QED BY <1>1, <2>1 DEF IsPath
<1>3. \A j \in 0..(Len(p) - 1 - 1) : dest \notin Near(links, src, j)
  <2>1. \A j \in 0..(Len(p) - 1 - 1) : j \in Nat /\ ~(h[dest] <= j)
    BY <1>1
  <2> QED BY <2>1, LevelsBound
<1>4. PICK k \in Nat : k = Len(p) - 1
  BY <1>1
<1> QED BY <1>2, <1>3, <1>4, AtDistanceIsNear
=============================================================================
