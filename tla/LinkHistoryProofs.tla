------------------------- MODULE LinkHistoryProofs --------------------------
(***************************************************************************)
(* Proofs about LinkHistory, from the invariant of the network it records  *)
(* (module CongestionAwareProofs): the order and the times of the          *)
(* transmissions, and that every step of the network is a step of Delivery.*)
(***************************************************************************)
EXTENDS LinkHistory, CongestionAwareProofs, FiniteSetTheorems

OfferRecord == [chunk : Chunk, time : Nat]
StartRecord == [chunk : Chunk, time : Nat, arrives : Nat]

-----------------------------------------------------------------------------
(* Sequences *)

LEMMA PrefixIs ==
  ASSUME NEW S, NEW s \in Seq(S), NEW t \in Seq(S)
  PROVE  IsPrefix(s, t) <=> Len(s) <= Len(t) /\ \A i \in 1..Len(s) : s[i] = t[i]
<1>1. Len(s) \in Nat /\ Len(t) \in Nat
  OBVIOUS
<1>2. SubSeq(s, 1, Len(s)) = s
  BY SubSeqFull
<1>3. CASE Len(s) <= Len(t)
  <2> DEFINE u == SubSeq(t, 1, Len(s))
  <2>1. \A i \in 1..Len(s) : t[i] \in S
    BY <1>1, <1>3, ElementOfSeq
  <2>2. /\ u \in Seq(S) /\ Len(u) = Len(s)
        /\ \A i \in 1..Len(s) : u[i] = t[i]
    <3>1. /\ SubSeq(t, 1, Len(s)) \in Seq(S)
          /\ Len(SubSeq(t, 1, Len(s))) = IF 1 <= Len(s) THEN Len(s) - 1 + 1 ELSE 0
          /\ \A i \in 1..(Len(s) - 1 + 1) : SubSeq(t, 1, Len(s))[i] = t[1 + i - 1]
      BY <1>1, <2>1, SubSeqProperties
    <3>2. Len(s) - 1 + 1 = Len(s) /\ \A i \in 1..Len(s) : 1 + i - 1 = i
      BY <1>1
    <3>3. (IF 1 <= Len(s) THEN Len(s) - 1 + 1 ELSE 0) = Len(s)
      BY <1>1
    <3> QED BY <3>1, <3>2, <3>3
  <2> HIDE DEF u
  <2>3. (\A i \in 1..Len(s) : s[i] = u[i]) => s = u
    BY <2>2, SeqEqual
  <2>4. s = u => \A i \in 1..Len(s) : s[i] = t[i]
    BY <2>2
  <2>5. (\A i \in 1..Len(s) : s[i] = t[i]) => s = u
    BY <2>2, <2>3
  <2> QED BY <1>2, <1>3, <2>4, <2>5 DEF IsPrefix, u
<1>4. CASE ~(Len(s) <= Len(t))
  BY <1>4 DEF IsPrefix
<1> QED BY <1>3, <1>4

LEMMA ChunksOfFacts ==
  ASSUME NEW s, s \in Seq(OfferRecord) \/ s \in Seq(StartRecord)
  PROVE  /\ ChunksOf(s) \in Seq(Chunk) /\ Len(ChunksOf(s)) = Len(s)
         /\ \A i \in 1..Len(s) : ChunksOf(s)[i] = s[i].chunk
<1>1. Len(s) \in Nat /\ \A i \in 1..Len(s) : s[i].chunk \in Chunk
  <2>1. ASSUME NEW R, s \in Seq(R), \A r \in R : r.chunk \in Chunk
        PROVE  Len(s) \in Nat /\ \A i \in 1..Len(s) : s[i].chunk \in Chunk
    BY <2>1
  <2>2. /\ \A r \in OfferRecord : r.chunk \in Chunk
        /\ \A r \in StartRecord : r.chunk \in Chunk
    BY DEF OfferRecord, StartRecord
  <2> QED BY <2>1, <2>2
<1>2. ChunksOf(s) = [i \in 1..Len(s) |-> s[i].chunk]
  BY DEF ChunksOf
<1>3. ChunksOf(s) \in Seq(Chunk)
  BY <1>1, <1>2
<1> QED BY <1>1, <1>2, <1>3

(* The sequence of a set with at most one element. *)
LEMMA SequencesOfSmallSets ==
  /\ SetToSeq({}) = <<>>
  /\ \A x : SetToSeq({x}) = <<x>>
<1>1. SetToSeq({}) = <<>>
  <2>1. Cardinality({}) = 0
    BY FS_EmptySet
  <2>2. \A f \in [1..0 -> {}] : f = <<>>
    OBVIOUS
  <2>3. <<>> \in [1..0 -> {}] /\ IsInjective(<<>>)
    BY DEF IsInjective
  <2> QED BY <2>1, <2>2, <2>3 DEF SetToSeq
<1>2. ASSUME NEW x PROVE SetToSeq({x}) = <<x>>
  <2>1. Cardinality({x}) = 1
    BY FS_Singleton
  <2>2. \A f \in [1..1 -> {x}] : f = <<x>>
    OBVIOUS
  <2>3. <<x>> \in [1..1 -> {x}] /\ IsInjective(<<x>>)
    BY DEF IsInjective
  <2> QED BY <2>1, <2>2, <2>3 DEF SetToSeq
<1> QED BY <1>1, <1>2

-----------------------------------------------------------------------------
(* Delays *)

(* What the cut to whole ns does to the two delays of a transmission: together *)
(* they are at most one ns off, and not at all if the latency is whole.        *)
LEMMA DelaysApart ==
  ASSUME NEW l \in Link, NEW c \in Chunk,
         NEW p, p = Latency[l] \div Resolution
  PROVE  /\ p \in Nat
         /\ serialization_delay(l, c) \in Nat /\ communication_delay(l, c) \in Nat
         /\ p + serialization_delay(l, c) <= communication_delay(l, c)
         /\ communication_delay(l, c) <= p + serialization_delay(l, c) + 1
         /\ WholeLatency(l) => communication_delay(l, c) = p + serialization_delay(l, c)
<1> DEFINE L == Latency[l]
           B == Bandwidth[l]
           S == Size[c]
           R == Resolution
           q == S \div B
           n == L * B + S * R
           d == B * R
<1>1. L \in Nat /\ B \in Nat \ {0} /\ S \in Nat /\ R \in Nat \ {0}
  BY DelaysAssumption
<1>2. /\ p \in Nat /\ p * R <= L /\ L < p * R + R /\ L % R = L - p * R
      /\ q \in Nat /\ q * B <= S /\ S < q * B + B
  BY <1>1, DivBounds
<1>3. serialization_delay(l, c) = q /\ communication_delay(l, c) = n \div d
  BY DEF serialization_delay, communication_delay
<1>4. WholeLatency(l) <=> L % R = 0
  BY DEF WholeLatency
<1> HIDE DEF L, B, S, R, q, n, d
<1>5. PICK u \in Nat : L = p * R + u /\ u < R
  <2>1. p * R \in Nat
    BY <1>1, <1>2
  <2> QED BY <1>1, <1>2, <2>1
<1>6. PICK v \in Nat : S = q * B + v /\ v < B
  <2>1. q * B \in Nat
    BY <1>1, <1>2
  <2> QED BY <1>1, <1>2, <2>1
<1>7. n = (p + q) * d + u * B + v * R
  <2>1. n = (p * R + u) * B + (q * B + v) * R
    BY <1>5, <1>6 DEF n
  <2> QED BY <1>1, <1>2, <1>5, <1>6, <2>1 DEF d
<1>8. /\ u * B + B <= d /\ v * R + R <= d
      /\ u * B \in Nat /\ v * R \in Nat /\ d \in Nat \ {0}
  <2>1. PICK x \in Nat : R = u + 1 + x
    BY <1>1, <1>5
  <2>2. d = u * B + B + x * B /\ x * B \in Nat /\ u * B \in Nat
    BY <1>1, <2>1 DEF d
  <2>3. PICK y \in Nat : B = v + 1 + y
    BY <1>1, <1>6
  <2>4. d = v * R + R + y * R /\ y * R \in Nat /\ v * R \in Nat
    BY <1>1, <2>3 DEF d
  <2> QED BY <1>1, <2>2, <2>4
<1>9. n \in Nat /\ (p + q) * d \in Nat
  BY <1>1, <1>2, <1>7, <1>8
<1>10. (p + q) * d <= n /\ n < (p + q + 2) * d
  <2>1. (p + q + 2) * d = (p + q) * d + d + d
    BY <1>2, <1>8
  <2> QED BY <1>1, <1>7, <1>8, <1>9, <2>1
<1>11. p + q <= n \div d /\ ~(p + q + 2 <= n \div d) /\ n \div d \in Nat
  <2>1. n \div d \in Nat
    BY <1>8, <1>9, DivBounds
  <2>0. \A k \in Nat : k <= n \div d <=> k * d <= n
    BY <1>8, <1>9, DivAtLeast
  <2>2. p + q <= n \div d <=> (p + q) * d <= n
    <3>1. p + q \in Nat
      BY <1>2
    <3> QED BY <2>0, <3>1
  <2>3. p + q + 2 <= n \div d <=> (p + q + 2) * d <= n
    <3>1. p + q + 2 \in Nat
      BY <1>2
    <3> QED BY <2>0, <3>1
  <2>4. (p + q + 2) * d \in Nat
    BY <1>2, <1>8
  <2> QED BY <1>9, <1>10, <2>1, <2>2, <2>3, <2>4
<1>12. WholeLatency(l) => ~(p + q + 1 <= n \div d)
  <2> SUFFICES ASSUME WholeLatency(l) PROVE ~(p + q + 1 <= n \div d)
    OBVIOUS
  <2>1. u = 0
    <3>1. p * R \in Nat
      BY <1>1, <1>2
    <3> QED BY <1>2, <1>4, <1>5, <3>1
  <2>2. n < (p + q) * d + d
    BY <1>1, <1>7, <1>8, <1>9, <2>1
  <2>3. (p + q + 1) * d = (p + q) * d + d /\ (p + q + 1) * d \in Nat
    BY <1>2, <1>8
  <2>4. p + q + 1 <= n \div d <=> (p + q + 1) * d <= n
    <3>1. p + q + 1 \in Nat
      BY <1>2
    <3>2. \A k \in Nat : k <= n \div d <=> k * d <= n
      BY <1>8, <1>9, DivAtLeast
    <3> QED BY <3>1, <3>2
  <2> QED BY <1>9, <2>2, <2>3, <2>4
<1> QED BY <1>2, <1>3, <1>11, <1>12

-----------------------------------------------------------------------------
(* The record of one link: o the chunks handed to it, s the transmissions, p *)
(* the pending chunks.                                                       *)
Matches(o, s, p) ==
  /\ Len(o) = Len(s) + Len(p)
  /\ \A i \in 1..Len(s) : o[i].chunk = s[i].chunk
  /\ \A i \in 1..Len(p) : o[Len(s) + i].chunk = p[i]

EndOfLast(l, s) == IF s = <<>> THEN 0 ELSE EndOf(l, s[Len(s)])

InTime(l, o, s) ==
  \A i \in 1..Len(s) :
     /\ s[i].arrives = s[i].time + communication_delay(l, s[i].chunk)
     /\ s[i].time = LaterOf(o[i].time, IF i = 1 THEN 0 ELSE EndOf(l, s[i - 1]))

LEMMA MatchesWaiting ==
  ASSUME NEW o \in Seq(OfferRecord), NEW s \in Seq(StartRecord), NEW p \in Seq(Chunk),
         Matches(o, s, p), NEW x \in OfferRecord
  PROVE  Matches(Append(o, x), s, Append(p, x.chunk))
<1>1. x.chunk \in Chunk /\ Len(s) \in Nat
  BY DEF OfferRecord
<1>2. PICK o2 : o2 = Append(o, x)
  OBVIOUS
<1>3. PICK p2 : p2 = Append(p, x.chunk)
  OBVIOUS
<1>4. /\ Len(o) \in Nat /\ Len(o2) = Len(o) + 1
      /\ \A i \in 1..Len(o) : o2[i] = o[i]
      /\ o2[Len(o) + 1] = x
  BY <1>2, AppendFacts
<1>5. /\ Len(p) \in Nat /\ Len(p2) = Len(p) + 1
      /\ \A i \in 1..Len(p) : p2[i] = p[i]
      /\ p2[Len(p) + 1] = x.chunk
      /\ \A i : i \in 1..(Len(p) + 1) <=> i \in 1..Len(p) \/ i = Len(p) + 1
  BY <1>1, <1>3, AppendFacts
<1>6. Len(o) = Len(s) + Len(p)
  BY DEF Matches
<1>7. Len(o2) = Len(s) + Len(p2)
  BY <1>1, <1>4, <1>5, <1>6
<1>8. \A i \in 1..Len(s) : i \in 1..Len(o) /\ o2[i].chunk = s[i].chunk
  BY <1>1, <1>4, <1>5, <1>6 DEF Matches
<1>9. \A i \in 1..Len(p) : o2[Len(s) + i].chunk = p2[i]
  <2> TAKE i \in 1..Len(p)
  <2>1. Len(s) + i \in 1..Len(o)
    BY <1>1, <1>4, <1>5, <1>6
  <2>2. o[Len(s) + i].chunk = p[i]
    BY DEF Matches
  <2> QED BY <1>4, <1>5, <2>1, <2>2
<1>10. o2[Len(s) + (Len(p) + 1)].chunk = p2[Len(p) + 1]
  <2>1. Len(s) + (Len(p) + 1) = Len(o) + 1
    BY <1>1, <1>5, <1>6
  <2> QED BY <1>4, <1>5, <2>1
<1>11. \A i \in 1..Len(p2) : o2[Len(s) + i].chunk = p2[i]
  BY <1>5, <1>9, <1>10
<1> QED BY <1>2, <1>3, <1>7, <1>8, <1>11 DEF Matches

LEMMA MatchesAtOnce ==
  ASSUME NEW o \in Seq(OfferRecord), NEW s \in Seq(StartRecord),
         Matches(o, s, <<>>), NEW x \in OfferRecord, NEW y \in StartRecord, x.chunk = y.chunk
  PROVE  Matches(Append(o, x), Append(s, y), <<>>) /\ Len(o) = Len(s)
<1>1. PICK o2 : o2 = Append(o, x)
  OBVIOUS
<1>2. PICK s2 : s2 = Append(s, y)
  OBVIOUS
<1>3. /\ Len(o) \in Nat /\ Len(o2) = Len(o) + 1
      /\ \A i \in 1..Len(o) : o2[i] = o[i]
      /\ o2[Len(o) + 1] = x
  BY <1>1, AppendFacts
<1>4. /\ Len(s) \in Nat /\ Len(s2) = Len(s) + 1
      /\ \A i \in 1..Len(s) : s2[i] = s[i]
      /\ s2[Len(s) + 1] = y
      /\ \A i : i \in 1..(Len(s) + 1) <=> i \in 1..Len(s) \/ i = Len(s) + 1
  BY <1>2, AppendFacts
<1>5. Len(<<>>) = 0 /\ 1..0 = {}
  OBVIOUS
<1>6. Len(o) = Len(s) /\ \A i \in 1..Len(s) : o[i].chunk = s[i].chunk
  BY <1>4, <1>5 DEF Matches
<1>7. \A i \in 1..Len(s2) : o2[i].chunk = s2[i].chunk
  BY <1>3, <1>4, <1>6
<1>8. Len(o2) = Len(s2) + Len(<<>>)
  BY <1>3, <1>4, <1>5, <1>6
<1> QED BY <1>1, <1>2, <1>5, <1>6, <1>7, <1>8 DEF Matches

LEMMA MatchesNext ==
  ASSUME NEW o \in Seq(OfferRecord), NEW s \in Seq(StartRecord), NEW p \in Seq(Chunk),
         Matches(o, s, p), p # <<>>, NEW y \in StartRecord, y.chunk = Head(p)
  PROVE  Matches(o, Append(s, y), Tail(p)) /\ Len(s) + 1 <= Len(o)
<1>1. PICK s2 : s2 = Append(s, y)
  OBVIOUS
<1>2. PICK p2 : p2 = Tail(p)
  OBVIOUS
<1>3. /\ Len(s) \in Nat /\ Len(s2) = Len(s) + 1
      /\ \A i \in 1..Len(s) : s2[i] = s[i]
      /\ s2[Len(s) + 1] = y
      /\ \A i : i \in 1..(Len(s) + 1) <=> i \in 1..Len(s) \/ i = Len(s) + 1
  BY <1>1, AppendFacts
<1>4. /\ Len(p) \in Nat \ {0} /\ Len(p2) = Len(p) - 1 /\ Len(p2) \in Nat
      /\ \A i \in 1..Len(p2) : p2[i] = p[i + 1]
      /\ Head(p) = p[1] /\ 1 \in 1..Len(p)
  BY <1>2, EmptySeq, HeadTailProperties
<1>5. Len(o) = Len(s) + Len(p)
  BY DEF Matches
<1>6. Len(o) = Len(s2) + Len(p2) /\ Len(s) + 1 <= Len(o)
  BY <1>3, <1>4, <1>5
<1>7. o[Len(s) + 1].chunk = y.chunk
  BY <1>4 DEF Matches
<1>8. \A i \in 1..Len(s2) : o[i].chunk = s2[i].chunk
  BY <1>3, <1>7 DEF Matches
<1>9. \A i \in 1..Len(p2) : o[Len(s2) + i].chunk = p2[i]
  <2> TAKE i \in 1..Len(p2)
  <2>1. i + 1 \in 1..Len(p) /\ Len(s2) + i = Len(s) + (i + 1)
    BY <1>3, <1>4
  <2>2. o[Len(s) + (i + 1)].chunk = p[i + 1]
    BY <2>1 DEF Matches
  <2> QED BY <1>4, <2>1, <2>2
<1> QED BY <1>1, <1>2, <1>6, <1>8, <1>9 DEF Matches

LEMMA InTimeWaiting ==
  ASSUME NEW l \in Link, NEW o \in Seq(OfferRecord), NEW s \in Seq(StartRecord),
         InTime(l, o, s), Len(s) <= Len(o), NEW x \in OfferRecord
  PROVE  InTime(l, Append(o, x), s)
<1>1. \A i \in 1..Len(s) : i \in 1..Len(o)
  OBVIOUS
<1>2. \A i \in 1..Len(o) : Append(o, x)[i] = o[i]
  BY AppendFacts
<1> QED BY <1>1, <1>2 DEF InTime

LEMMA InTimeStarted ==
  ASSUME NEW l \in Link, NEW o \in Seq(OfferRecord), NEW s \in Seq(StartRecord),
         InTime(l, o, s), NEW y \in StartRecord,
         y.arrives = y.time + communication_delay(l, y.chunk),
         y.time = LaterOf(o[Len(s) + 1].time, EndOfLast(l, s))
  PROVE  InTime(l, o, Append(s, y)) /\ EndOfLast(l, Append(s, y)) = EndOf(l, y)
<1>1. PICK s2 : s2 = Append(s, y)
  OBVIOUS
<1>2. /\ Len(s) \in Nat /\ Len(s2) = Len(s) + 1 /\ s2 # <<>>
      /\ \A i \in 1..Len(s) : s2[i] = s[i]
      /\ s2[Len(s) + 1] = y
      /\ \A i : i \in 1..(Len(s) + 1) <=> i \in 1..Len(s) \/ i = Len(s) + 1
  BY <1>1, AppendFacts
<1>3. EndOfLast(l, s2) = EndOf(l, y)
  BY <1>2 DEF EndOfLast
<1>4. ASSUME NEW i \in 1..Len(s)
      PROVE  /\ s2[i].arrives = s2[i].time + communication_delay(l, s2[i].chunk)
             /\ s2[i].time = LaterOf(o[i].time, IF i = 1 THEN 0 ELSE EndOf(l, s2[i - 1]))
  <2>1. s2[i] = s[i] /\ (i # 1 => s2[i - 1] = s[i - 1])
    BY <1>2
  <2> QED BY <2>1 DEF InTime
<1>5. y.time = LaterOf(o[Len(s) + 1].time,
                       IF Len(s) + 1 = 1 THEN 0 ELSE EndOf(l, s2[Len(s) + 1 - 1]))
  <2>1. CASE s = <<>>
    <3>1. Len(s) = 0 /\ EndOfLast(l, s) = 0
      BY <2>1 DEF EndOfLast
    <3> QED BY <3>1
  <2>2. CASE s # <<>>
    <3>1. Len(s) # 0 /\ Len(s) \in 1..Len(s) /\ Len(s) + 1 - 1 = Len(s)
      BY <1>2, <2>2, EmptySeq
    <3>2. EndOfLast(l, s) = EndOf(l, s2[Len(s) + 1 - 1]) /\ Len(s) + 1 # 1
      BY <1>2, <2>2, <3>1 DEF EndOfLast
    <3> QED BY <3>2
  <2> QED BY <2>1, <2>2
<1>6. InTime(l, o, s2)
  BY <1>2, <1>4, <1>5 DEF InTime
<1> QED BY <1>1, <1>3, <1>6

-----------------------------------------------------------------------------
(* The record of one link, with b whether it is busy, w the entries of the   *)
(* queue and t the time.  The chunk under way over a busy link is done with  *)
(* when the entry that frees the link runs.                                  *)
NoOverlap(l, s) == \A i, j \in 1..Len(s) : i < j => s[j].time >= EndOf(l, s[i])

RecordOK(l, w, t, b, p, o, s) ==
  /\ Matches(o, s, p)
  /\ InTime(l, o, s)
  /\ NoOverlap(l, s)
  /\ \A i \in 1..Len(o) : o[i].time <= t
  /\ b => \A f \in At(w, Free(l)) : f.time = EndOfLast(l, s)
  /\ ~b => EndOfLast(l, s) <= t

(* What is crossing link l: the transmissions after those whose chunks have  *)
(* reached the other end, m, in the order of their arrival events.           *)
Crossing(l, w, rt, s, m) ==
  /\ Len(m) <= Len(s)
  /\ \A i \in 1..Len(m) : m[i] = s[i].chunk
  /\ \A i \in 1..Len(s) : i > Len(m) =>
        /\ NextLink(rt[s[i].chunk]) = l
        /\ \E a \in At(w, Arrival(s[i].chunk)) : a.time = s[i].arrives
  /\ \A i, j \in 1..Len(s) : i > Len(m) /\ i < j =>
        \A a \in At(w, Arrival(s[i].chunk)), b \in At(w, Arrival(s[j].chunk)) : a.id < b.id
  /\ \A c \in Chunk : At(w, Arrival(c)) # {} /\ NextLink(rt[c]) = l =>
        \E i \in 1..Len(s) : i > Len(m) /\ s[i].chunk = c

(* No chunk gets to the next device before it has crossed the link.          *)
CrossesInTime(w, t, rt, sn) ==
  \A c \in Chunk :
     /\ sn[c] <= t
     /\ \A a \in At(w, Arrival(c)) : a.time >= sn[c] + communication_delay(NextLink(rt[c]), c)

(* All of it: the histories sn, o, s and m agree with the network. *)
HistoryOK(w, t, b, p, rt, sn, o, s, m) ==
  /\ sn \in [Chunk -> Nat]
  /\ o \in [Link -> Seq(OfferRecord)]
  /\ s \in [Link -> Seq(StartRecord)]
  /\ m \in [Link -> Seq(Chunk)]
  /\ \A l \in Link : RecordOK(l, w, t, b[l], p[l], o[l], s[l])
  /\ \A l \in Link : WholeLatency(l) => Crossing(l, w, rt, s[l], m[l])
  /\ CrossesInTime(w, t, rt, sn)

HInv == HistoryOK(waiting, now, busy, pending_chunks, route, since, offered, started, reached)

-----------------------------------------------------------------------------
(* The steps of the record of one link *)

LEMMA EndIs ==
  ASSUME NEW l \in Link, NEW y \in StartRecord
  PROVE  /\ EndOf(l, y) = y.time + serialization_delay(l, y.chunk)
         /\ EndOf(l, y) \in Nat /\ EndOf(l, y) >= y.time
<1>1. y.chunk \in Chunk /\ y.time \in Nat
  BY DEF StartRecord
<1>2. serialization_delay(l, y.chunk) \in Nat
  BY <1>1, DelayTypes
<1>3. EndOf(l, y) = y.time + serialization_delay(l, y.chunk)
  BY DEF EndOf, serialization_delay
<1> QED BY <1>1, <1>2, <1>3

(* The end of the last transmission is not before that of any other. *)
LEMMA LastEndsLast ==
  ASSUME NEW l \in Link, NEW s \in Seq(StartRecord), NoOverlap(l, s)
  PROVE  EndOfLast(l, s) \in Nat /\ \A i \in 1..Len(s) : EndOf(l, s[i]) <= EndOfLast(l, s)
<1>1. Len(s) \in Nat /\ \A i \in 1..Len(s) : s[i] \in StartRecord
  BY ElementOfSeq
<1>2. CASE s = <<>>
  <2>1. Len(s) = 0
    BY <1>2
  <2> QED BY <1>2, <2>1 DEF EndOfLast
<1>3. CASE s # <<>>
  <2>1. Len(s) \in 1..Len(s) /\ EndOfLast(l, s) = EndOf(l, s[Len(s)])
    BY <1>1, <1>3, EmptySeq DEF EndOfLast
  <2>2. EndOf(l, s[Len(s)]) \in Nat /\ EndOf(l, s[Len(s)]) >= s[Len(s)].time
    BY <1>1, <2>1, EndIs
  <2>3. \A i \in 1..Len(s) : EndOf(l, s[i]) \in Nat
    BY <1>1, EndIs
  <2>4. \A i \in 1..Len(s) : i # Len(s) => EndOf(l, s[i]) <= s[Len(s)].time
    BY <1>1, <2>1 DEF NoOverlap
  <2>5. s[Len(s)].time \in Nat
    BY <1>1, <2>1 DEF StartRecord
  <2> QED BY <2>1, <2>2, <2>3, <2>4, <2>5
<1> QED BY <1>2, <1>3

LEMMA NoOverlapStarted ==
  ASSUME NEW l \in Link, NEW s \in Seq(StartRecord), NoOverlap(l, s),
         NEW y \in StartRecord, y.time >= EndOfLast(l, s)
  PROVE  NoOverlap(l, Append(s, y))
<1>1. PICK s2 : s2 = Append(s, y)
  OBVIOUS
<1>2. /\ Len(s) \in Nat /\ Len(s2) = Len(s) + 1
      /\ \A i \in 1..Len(s) : s2[i] = s[i]
      /\ s2[Len(s) + 1] = y
      /\ \A i : i \in 1..(Len(s) + 1) <=> i \in 1..Len(s) \/ i = Len(s) + 1
  BY <1>1, AppendFacts
<1>3. \A i \in 1..Len(s) : EndOf(l, s[i]) \in Nat /\ EndOf(l, s[i]) <= EndOfLast(l, s)
  BY LastEndsLast, ElementOfSeq, EndIs
<1>4. y.time \in Nat /\ EndOfLast(l, s) \in Nat
  BY LastEndsLast DEF StartRecord
<1>5. \A i \in 1..Len(s) : y.time >= EndOf(l, s[i])
  BY <1>3, <1>4
<1>6. ASSUME NEW i \in 1..Len(s2), NEW j \in 1..Len(s2), i < j
      PROVE  s2[j].time >= EndOf(l, s2[i])
  <2>1. i \in 1..Len(s)
    BY <1>2, <1>6
  <2>2. CASE j \in 1..Len(s)
    BY <1>2, <1>6, <2>1, <2>2 DEF NoOverlap
  <2>3. CASE j = Len(s) + 1
    BY <1>2, <1>5, <2>1, <2>3
  <2> QED BY <1>2, <2>2, <2>3
<1> QED BY <1>1, <1>6 DEF NoOverlap

(* Nothing happens to the link; time passes up to its next entry at most. *)
LEMMA RecordLater ==
  ASSUME NEW l \in Link, NEW w, NEW t \in Nat, NEW b, NEW p,
         NEW o \in Seq(OfferRecord), NEW s \in Seq(StartRecord),
         RecordOK(l, w, t, b, p, o, s),
         NEW w2, NEW t2 \in Nat, t2 >= t, At(w2, Free(l)) = At(w, Free(l))
  PROVE  RecordOK(l, w2, t2, b, p, o, s)
<1>1. \A i \in 1..Len(o) : o[i].time \in Nat
  <2>1. \A i \in 1..Len(o) : o[i] \in OfferRecord
    BY ElementOfSeq
  <2> QED BY <2>1 DEF OfferRecord
<1>2. \A i \in 1..Len(o) : o[i].time <= t2
  BY <1>1 DEF RecordOK
<1>3. ~b => EndOfLast(l, s) <= t2
  BY LastEndsLast DEF RecordOK
<1> QED BY <1>2, <1>3 DEF RecordOK

(* A chunk is handed to the link while it is busy. *)
LEMMA RecordWaiting ==
  ASSUME NEW l \in Link, NEW w, NEW t \in Nat, NEW b, NEW p \in Seq(Chunk), b,
         NEW o \in Seq(OfferRecord), NEW s \in Seq(StartRecord),
         RecordOK(l, w, t, b, p, o, s), NEW c \in Chunk
  PROVE  RecordOK(l, w, t, b, Append(p, c), Append(o, [chunk |-> c, time |-> t]), s)
<1>1. PICK x : x = [chunk |-> c, time |-> t]
  OBVIOUS
<1>2. x \in OfferRecord /\ x.chunk = c /\ x.time = t
  BY <1>1 DEF OfferRecord
<1>3. Matches(Append(o, x), s, Append(p, c))
  BY <1>2, MatchesWaiting DEF RecordOK
<1>4. InTime(l, Append(o, x), s)
  <2>1. Len(s) <= Len(o)
    <3>1. Len(o) = Len(s) + Len(p) /\ Len(s) \in Nat /\ Len(p) \in Nat
      BY DEF RecordOK, Matches
    <3> QED BY <3>1
  <2> QED BY <1>2, <2>1, InTimeWaiting DEF RecordOK
<1>5. \A i \in 1..Len(Append(o, x)) : Append(o, x)[i].time <= t
  <2>1. PICK o2 : o2 = Append(o, x)
    OBVIOUS
  <2>2. /\ Len(o2) = Len(o) + 1
        /\ \A i \in 1..Len(o) : o2[i] = o[i]
        /\ o2[Len(o) + 1] = x
        /\ \A i : i \in 1..(Len(o) + 1) <=> i \in 1..Len(o) \/ i = Len(o) + 1
    BY <1>2, <2>1, AppendFacts
  <2>3. \A i \in 1..Len(o2) : o2[i].time <= t
    BY <1>2, <2>2 DEF RecordOK
  <2> QED BY <2>1, <2>3
<1> QED BY <1>1, <1>3, <1>4, <1>5 DEF RecordOK

(* A chunk is handed to the link while it is free. *)
LEMMA RecordAtOnce ==
  ASSUME NEW l \in Link, NEW w, NEW t \in Nat, NEW b, ~b,
         NEW o \in Seq(OfferRecord), NEW s \in Seq(StartRecord),
         RecordOK(l, w, t, b, <<>>, o, s), NEW c \in Chunk,
         NEW w2, \A f \in At(w2, Free(l)) : f.time = t + serialization_delay(l, c)
  PROVE  RecordOK(l, w2, t, TRUE, <<>>, Append(o, [chunk |-> c, time |-> t]),
           Append(s, [chunk |-> c, time |-> t, arrives |-> t + communication_delay(l, c)]))
<1>1. PICK x : x = [chunk |-> c, time |-> t]
  OBVIOUS
<1>2. PICK y : y = [chunk |-> c, time |-> t, arrives |-> t + communication_delay(l, c)]
  OBVIOUS
<1>3. x \in OfferRecord /\ x.chunk = c /\ x.time = t
  BY <1>1 DEF OfferRecord
<1>4. /\ y \in StartRecord /\ y.chunk = c /\ y.time = t
      /\ y.arrives = t + communication_delay(l, c)
  BY <1>2, DelayTypes DEF StartRecord
<1>5. PICK o2 : o2 = Append(o, x)
  OBVIOUS
<1>6. /\ o2 \in Seq(OfferRecord)
      /\ Len(o) \in Nat /\ Len(o2) = Len(o) + 1
      /\ \A i \in 1..Len(o) : o2[i] = o[i]
      /\ o2[Len(o) + 1] = x
      /\ \A i : i \in 1..(Len(o) + 1) <=> i \in 1..Len(o) \/ i = Len(o) + 1
  BY <1>3, <1>5, AppendFacts
<1>7. Matches(o2, Append(s, y), <<>>) /\ Len(o) = Len(s)
  BY <1>3, <1>4, <1>5, MatchesAtOnce DEF RecordOK
<1>8. EndOfLast(l, s) <= t /\ EndOfLast(l, s) \in Nat
  BY LastEndsLast DEF RecordOK
<1>9. InTime(l, o2, Append(s, y)) /\ EndOfLast(l, Append(s, y)) = EndOf(l, y)
  <2>1. InTime(l, o2, s)
    <3>1. Len(s) <= Len(o)
      BY <1>6, <1>7
    <3> QED BY <1>3, <1>5, <3>1, InTimeWaiting DEF RecordOK
  <2>2. y.time = LaterOf(o2[Len(s) + 1].time, EndOfLast(l, s))
    BY <1>3, <1>4, <1>6, <1>7, <1>8 DEF LaterOf
  <2> QED BY <1>4, <1>6, <2>1, <2>2, InTimeStarted
<1>10. NoOverlap(l, Append(s, y))
  BY <1>4, <1>8, NoOverlapStarted DEF RecordOK
<1>11. \A i \in 1..Len(o2) : o2[i].time <= t
  BY <1>3, <1>6 DEF RecordOK
<1>12. \A f \in At(w2, Free(l)) : f.time = EndOfLast(l, Append(s, y))
  BY <1>4, <1>9, EndIs
<1>13. RecordOK(l, w2, t, TRUE, <<>>, o2, Append(s, y))
  BY <1>7, <1>9, <1>10, <1>11, <1>12 DEF RecordOK
<1> QED BY <1>1, <1>2, <1>5, <1>13

(* The link becomes free, and a chunk was waiting for it. *)
LEMMA RecordNext ==
  ASSUME NEW l \in Link, NEW w, NEW t \in Nat, NEW b, b,
         NEW p \in Seq(Chunk), p # <<>>,
         NEW o \in Seq(OfferRecord), NEW s \in Seq(StartRecord),
         RecordOK(l, w, t, b, p, o, s),
         NEW e \in At(w, Free(l)), e.time = t,
         NEW c, c = Head(p), NEW w2,
         \A f \in At(w2, Free(l)) : f.time = t + serialization_delay(l, c)
  PROVE  RecordOK(l, w2, t, b, Tail(p), o,
           Append(s, [chunk |-> c, time |-> t, arrives |-> t + communication_delay(l, c)]))
<1>1. c \in Chunk
  BY EmptySeq, HeadTailProperties
<1>2. PICK y : y = [chunk |-> c, time |-> t, arrives |-> t + communication_delay(l, c)]
  OBVIOUS
<1>3. /\ y \in StartRecord /\ y.chunk = c /\ y.time = t
      /\ y.arrives = t + communication_delay(l, c)
  BY <1>1, <1>2, DelayTypes DEF StartRecord
<1>4. EndOfLast(l, s) = t
  BY DEF RecordOK
<1>5. Matches(o, Append(s, y), Tail(p)) /\ Len(s) + 1 <= Len(o)
  BY <1>3, MatchesNext DEF RecordOK
<1>6. Len(s) + 1 \in 1..Len(o)
  <2>1. Len(s) \in Nat /\ Len(o) \in Nat
    OBVIOUS
  <2> QED BY <1>5, <2>1
<1>7. o[Len(s) + 1].time <= t /\ o[Len(s) + 1].time \in Nat
  <2>1. o[Len(s) + 1] \in OfferRecord
    BY <1>6, ElementOfSeq
  <2> QED BY <1>6, <2>1 DEF RecordOK, OfferRecord
<1>8. y.time = LaterOf(o[Len(s) + 1].time, EndOfLast(l, s))
  BY <1>3, <1>4, <1>7 DEF LaterOf
<1>9. InTime(l, o, Append(s, y)) /\ EndOfLast(l, Append(s, y)) = EndOf(l, y)
  BY <1>3, <1>8, InTimeStarted DEF RecordOK
<1>10. NoOverlap(l, Append(s, y))
  BY <1>3, <1>4, NoOverlapStarted DEF RecordOK
<1>11. \A f \in At(w2, Free(l)) : f.time = EndOfLast(l, Append(s, y))
  BY <1>3, <1>9, EndIs
<1>12. RecordOK(l, w2, t, b, Tail(p), o, Append(s, y))
  BY <1>5, <1>9, <1>10, <1>11 DEF RecordOK
<1> QED BY <1>2, <1>12

(* The link becomes free, and no chunk is waiting for it. *)
LEMMA RecordFreed ==
  ASSUME NEW l \in Link, NEW w, NEW t \in Nat, NEW b, b, NEW p, NEW o, NEW s,
         RecordOK(l, w, t, b, p, o, s),
         NEW e \in At(w, Free(l)), e.time = t, NEW w2
  PROVE  RecordOK(l, w2, t, FALSE, p, o, s)
BY DEF RecordOK

-----------------------------------------------------------------------------
(* The record of one link as a member of the histories *)

(* The two properties of order and time, and what is kept of the arrivals,  *)
(* are consequences of the record being right.                              *)
LEMMA RecordsTellOrder ==
  ASSUME NEW l \in Link, NEW w, NEW t \in Nat, NEW b, NEW p \in Seq(Chunk),
         NEW o \in Seq(OfferRecord), NEW s \in Seq(StartRecord),
         RecordOK(l, w, t, b, p, o, s)
  PROVE  IsPrefix(ChunksOf(s), ChunksOf(o))
<1>1. PICK u : u = ChunksOf(s)
  OBVIOUS
<1>2. PICK v : v = ChunksOf(o)
  OBVIOUS
<1>3. u \in Seq(Chunk) /\ Len(u) = Len(s) /\ \A i \in 1..Len(s) : u[i] = s[i].chunk
  BY <1>1, ChunksOfFacts
<1>4. v \in Seq(Chunk) /\ Len(v) = Len(o) /\ \A i \in 1..Len(o) : v[i] = o[i].chunk
  BY <1>2, ChunksOfFacts
<1>5. Len(s) \in Nat /\ Len(p) \in Nat /\ Len(o) = Len(s) + Len(p)
  BY DEF RecordOK, Matches
<1>6. Len(u) <= Len(v)
  BY <1>3, <1>4, <1>5
<1>7. \A i \in 1..Len(u) : u[i] = v[i]
  BY <1>3, <1>4, <1>5 DEF RecordOK, Matches
<1> QED BY <1>1, <1>2, <1>3, <1>4, <1>6, <1>7, PrefixIs

(* A later transmission arrives at most one ns before an earlier one, and     *)
(* not before it if the latency is a whole number of ns.                      *)
LEMMA ArrivalsInOrder ==
  ASSUME NEW l \in Link, NEW w, NEW t \in Nat, NEW b, NEW p,
         NEW o \in Seq(OfferRecord), NEW s \in Seq(StartRecord),
         RecordOK(l, w, t, b, p, o, s),
         NEW i \in 1..Len(s), NEW j \in 1..Len(s), i < j
  PROVE  /\ s[j].arrives + 1 >= s[i].arrives
         /\ WholeLatency(l) => s[j].arrives >= s[i].arrives
<1>1. PICK x : x = s[i]
  OBVIOUS
<1>2. PICK y : y = s[j]
  OBVIOUS
<1>3. /\ x \in StartRecord /\ y \in StartRecord
      /\ x.chunk \in Chunk /\ y.chunk \in Chunk /\ x.time \in Nat /\ y.time \in Nat
  <2>1. x \in StartRecord /\ y \in StartRecord
    BY <1>1, <1>2, ElementOfSeq
  <2> QED BY <2>1 DEF StartRecord
<1>4. /\ x.arrives = x.time + communication_delay(l, x.chunk)
      /\ y.arrives = y.time + communication_delay(l, y.chunk)
  BY <1>1, <1>2 DEF RecordOK, InTime
<1>5. y.time >= x.time + serialization_delay(l, x.chunk)
  <2>1. EndOf(l, x) = x.time + serialization_delay(l, x.chunk)
    BY <1>3, EndIs
  <2>2. y.time >= EndOf(l, x)
    BY <1>1, <1>2 DEF RecordOK, NoOverlap
  <2> QED BY <2>1, <2>2
<1>6. PICK q : q = Latency[l] \div Resolution
  OBVIOUS
<1>7. /\ q \in Nat
      /\ serialization_delay(l, x.chunk) \in Nat /\ communication_delay(l, x.chunk) \in Nat
      /\ communication_delay(l, x.chunk) <= q + serialization_delay(l, x.chunk) + 1
      /\ WholeLatency(l) =>
           communication_delay(l, x.chunk) = q + serialization_delay(l, x.chunk)
  BY <1>3, <1>6, DelaysApart
<1>8. /\ serialization_delay(l, y.chunk) \in Nat /\ communication_delay(l, y.chunk) \in Nat
      /\ q + serialization_delay(l, y.chunk) <= communication_delay(l, y.chunk)
  BY <1>3, <1>6, DelaysApart
<1>9. /\ y.arrives + 1 >= x.arrives
      /\ WholeLatency(l) => y.arrives >= x.arrives
  <2>1. PICK sx : sx = serialization_delay(l, x.chunk)
    OBVIOUS
  <2>2. PICK dx : dx = communication_delay(l, x.chunk)
    OBVIOUS
  <2>3. PICK sy : sy = serialization_delay(l, y.chunk)
    OBVIOUS
  <2>4. PICK dy : dy = communication_delay(l, y.chunk)
    OBVIOUS
  <2>5. /\ x.arrives = x.time + dx /\ y.arrives = y.time + dy /\ y.time >= x.time + sx
        /\ sx \in Nat /\ dx \in Nat /\ sy \in Nat /\ dy \in Nat
        /\ dx <= q + sx + 1 /\ q + sy <= dy
    BY <1>4, <1>5, <1>7, <1>8, <2>1, <2>2, <2>3, <2>4
  <2>6. WholeLatency(l) => dx = q + sx
    BY <1>7, <2>1, <2>2
  <2>7. x.time \in Nat /\ y.time \in Nat /\ q \in Nat
    BY <1>3, <1>7
  <2>8. PICK tx \in Nat, ty \in Nat : tx = x.time /\ ty = y.time
    BY <2>7
  <2>a. /\ ty >= tx + sx /\ dx <= q + sx + 1 /\ q + sy <= dy
        /\ tx \in Nat /\ ty \in Nat /\ q \in Nat
        /\ sx \in Nat /\ dx \in Nat /\ sy \in Nat /\ dy \in Nat
    BY ONLY <2>5, <2>7, <2>8
  <2>9. ty + dy >= tx + sx + q
    BY ONLY <2>a, SMTT(30)
  <2>10. ty + dy + 1 >= tx + dx /\ (dx = q + sx => ty + dy >= tx + dx)
    BY ONLY <2>a, <2>9, SMTT(30)
  <2> QED BY <2>5, <2>6, <2>8, <2>10
<1> QED BY <1>1, <1>2, <1>9

-----------------------------------------------------------------------------
(* What is recorded in a step *)

(* No transmission is scheduled. *)
LEMMA NoneStarted ==
  ASSUME started \in [Link -> Seq(StartRecord)], RecordStarts,
         \A e \in waiting' : e.id <= issued /\ e.id \in Nat, issued \in Nat
  PROVE  started' = started
<1>1. \A l : StartedOn(l) = {}
  BY DEF StartedOn
<1>2. \A l \in Link : started[l] \o SetToSeq({}) = started[l]
  <2> TAKE l \in Link
  <2>1. PICK s : s = started[l]
    OBVIOUS
  <2>2. s \in Seq(StartRecord)
    BY <2>1
  <2>3. s \o <<>> = s
    BY <2>2
  <2> QED BY <2>1, <2>3, SequencesOfSmallSets
<1>3. started' = [l \in Link |-> started[l] \o SetToSeq({})]
  BY <1>1 DEF RecordStarts
<1> QED BY <1>2, <1>3

(* One transmission is scheduled, of chunk c over link l. *)
LEMMA OneStarted ==
  ASSUME started \in [Link -> Seq(StartRecord)], RecordStarts,
         issued \in Nat,
         NEW l \in Link, NEW c \in Chunk, NEW t \in Nat, NEW w,
         \A e \in w : e.id <= issued /\ e.id \in Nat,
         now' = t, NextLink(route'[c]) = l,
         ScheduleTransmission(l, c, t, w)
  PROVE  started' = [started EXCEPT ![l] = Append(@,
           [chunk |-> c, time |-> t, arrives |-> t + communication_delay(l, c)])]
<1> DEFINE a == [id |-> issued + 1, time |-> t + communication_delay(l, c),
                 event |-> Arrival(c)]
           f == [id |-> issued + 2, time |-> t + serialization_delay(l, c),
                 event |-> Free(l)]
           y == [chunk |-> c, time |-> t, arrives |-> t + communication_delay(l, c)]
<1>1. waiting' = w \cup {a, f}
  BY DEF ScheduleTransmission
<1>2. /\ a.id > issued /\ a.time = t + communication_delay(l, c)
      /\ a.event.handler = "chunk_arrived_next_device" /\ a.event.arg = c
      /\ f.event.handler # "chunk_arrived_next_device"
  BY DEF Arrival, Free
<1> HIDE DEF a, f
<1>3. \A m : {n \in waiting' : /\ n.id > issued
                               /\ n.event.handler = "chunk_arrived_next_device"
                               /\ NextLink(route'[n.event.arg]) = m}
             = IF m = l THEN {a} ELSE {}
  <2> TAKE m
  <2>1. \A n \in w : ~(n.id > issued)
    OBVIOUS
  <2> QED BY <1>1, <1>2, <2>1
<1>4. StartedOn(l) = {y} /\ \A m : m # l => StartedOn(m) = {}
  <2>1. StartedOn(l) = {[chunk |-> e.event.arg, time |-> now', arrives |-> e.time] : e \in {a}}
    BY <1>3 DEF StartedOn
  <2>2. \A m : m # l => StartedOn(m)
            = {[chunk |-> e.event.arg, time |-> now', arrives |-> e.time] : e \in {}}
    BY <1>3 DEF StartedOn
  <2> QED BY <1>2, <2>1, <2>2
<1> HIDE DEF y
<1>5. \A m \in Link : /\ started[m] \o <<>> = started[m]
                      /\ started[m] \o <<y>> = Append(started[m], y)
  <2> TAKE m \in Link
  <2>1. PICK s : s = started[m]
    OBVIOUS
  <2>2. s \in Seq(StartRecord)
    BY <2>1
  <2>3. s \o <<>> = s /\ s \o <<y>> = Append(s, y)
    BY <2>2
  <2> QED BY <2>1, <2>3
<1>6. \A m \in Link : started'[m] = IF m = l THEN Append(started[m], y) ELSE started[m]
  <2>1. \A m \in Link : started'[m] = started[m] \o SetToSeq(StartedOn(m))
    BY DEF RecordStarts
  <2> QED BY <1>4, <1>5, <2>1, SequencesOfSmallSets
<1>7. started' = [m \in Link |-> started'[m]]
  BY DEF RecordStarts
<1> QED BY <1>6, <1>7 DEF y

(* The queue after a transmission is scheduled for a chunk that has no arrival *)
(* event, over a link that no entry is to free.                                *)
LEMMA TransmissionEntries ==
  ASSUME issued \in Nat, NEW l \in Link, NEW c \in Chunk, NEW t \in Nat, NEW w,
         At(w, Arrival(c)) = {}, At(w, Free(l)) = {},
         ScheduleTransmission(l, c, t, w)
  PROVE  /\ \E a : /\ At(waiting', Arrival(c)) = {a}
                   /\ a.id = issued + 1 /\ a.time = t + communication_delay(l, c)
         /\ \A f \in At(waiting', Free(l)) : f.time = t + serialization_delay(l, c)
         /\ \A ev : ev # Arrival(c) /\ ev # Free(l) => At(waiting', ev) = At(w, ev)
<1>1. PICK a : a = [id |-> issued + 1, time |-> t + communication_delay(l, c),
                    event |-> Arrival(c)]
  OBVIOUS
<1>2. PICK f : f = [id |-> issued + 2, time |-> t + serialization_delay(l, c),
                    event |-> Free(l)]
  OBVIOUS
<1>3. waiting' = w \cup {a, f}
  BY <1>1, <1>2 DEF ScheduleTransmission
<1>4. a.event = Arrival(c) /\ a.id = issued + 1 /\ a.time = t + communication_delay(l, c)
  BY <1>1
<1>5. f.event = Free(l) /\ f.time = t + serialization_delay(l, c)
  BY <1>2
<1>6. At(waiting', Arrival(c)) = {a}
  BY <1>3, <1>4, <1>5, EventsDiffer DEF At
<1>7. At(waiting', Free(l)) = {f}
  BY <1>3, <1>4, <1>5, EventsDiffer DEF At
<1>8. \A ev : ev # Arrival(c) /\ ev # Free(l) => At(waiting', ev) = At(w, ev)
  BY <1>3, <1>4, <1>5 DEF At
<1> QED BY <1>4, <1>5, <1>6, <1>7, <1>8

-----------------------------------------------------------------------------
(* The steps of what is crossing a link *)

(* The queue and the routes change, but not for the chunks under way. *)
LEMMA CrossingAlike ==
  ASSUME NEW l \in Link, NEW w, NEW rt, NEW s \in Seq(StartRecord), NEW m \in Seq(Chunk),
         Crossing(l, w, rt, s, m), NEW w2, NEW rt2,
         \A d \in Chunk : At(w2, Arrival(d)) = At(w, Arrival(d)),
         \A d \in Chunk : At(w, Arrival(d)) # {} => rt2[d] = rt[d]
  PROVE  Crossing(l, w2, rt2, s, m)
<1>1. \A i \in 1..Len(s) : s[i].chunk \in Chunk
  <2>1. \A i \in 1..Len(s) : s[i] \in StartRecord
    BY ElementOfSeq
  <2> QED BY <2>1 DEF StartRecord
<1>2. Len(m) <= Len(s) /\ \A i \in 1..Len(m) : m[i] = s[i].chunk
  BY DEF Crossing
<1>3. ASSUME NEW i \in 1..Len(s), i > Len(m)
      PROVE  /\ NextLink(rt2[s[i].chunk]) = l
             /\ \E a \in At(w2, Arrival(s[i].chunk)) : a.time = s[i].arrives
  <2>1. PICK a \in At(w, Arrival(s[i].chunk)) : a.time = s[i].arrives
    BY <1>3 DEF Crossing
  <2>2. rt2[s[i].chunk] = rt[s[i].chunk] /\ NextLink(rt[s[i].chunk]) = l
    BY <1>1, <1>3, <2>1 DEF Crossing
  <2> QED BY <1>1, <2>1, <2>2
<1>4. ASSUME NEW i \in 1..Len(s), NEW j \in 1..Len(s), i > Len(m), i < j,
             NEW a \in At(w2, Arrival(s[i].chunk)), NEW b \in At(w2, Arrival(s[j].chunk))
      PROVE  a.id < b.id
  BY <1>1, <1>4 DEF Crossing
<1>5. ASSUME NEW c \in Chunk, At(w2, Arrival(c)) # {}, NextLink(rt2[c]) = l
      PROVE  \E i \in 1..Len(s) : i > Len(m) /\ s[i].chunk = c
  BY <1>5 DEF Crossing
<1> QED BY <1>2, <1>3, <1>4, <1>5 DEF Crossing

(* A chunk reaches the other end of the link: it was the next one to do so. *)
LEMMA CrossingReached ==
  ASSUME NEW l \in Link, NEW w \in SUBSET Entry, NEW rt,
         NEW s \in Seq(StartRecord), NEW m \in Seq(Chunk),
         Crossing(l, w, rt, s, m),
         \A i, j \in 1..Len(s) : i < j => s[j].arrives >= s[i].arrives,
         \A d \in Chunk : \A a, b \in At(w, Arrival(d)) : a = b,
         NEW e \in w, IsNext(e, w), NEW c \in Chunk, e.event = Arrival(c),
         NextLink(rt[c]) = l
  PROVE  Crossing(l, w \ {e}, rt, s, Append(m, c))
<1>t. /\ Len(s) \in Nat /\ Len(m) \in Nat
      /\ \A i \in 1..Len(s) : s[i].chunk \in Chunk /\ s[i].arrives \in Nat
      /\ \A a \in w : a.id \in Nat /\ a.time \in Nat
  <2>1. \A i \in 1..Len(s) : s[i] \in StartRecord
    BY ElementOfSeq
  <2> QED BY <2>1 DEF StartRecord, Entry
<1>1. e \in At(w, Arrival(c))
  BY DEF At
<1>2. PICK k \in 1..Len(s) : k > Len(m) /\ s[k].chunk = c
  BY <1>1 DEF Crossing
<1>3. PICK n \in Nat : n = Len(m) + 1
  BY <1>t
<1>4. n \in 1..Len(s) /\ n > Len(m) /\ n <= k
  BY <1>2, <1>3, <1>t
<1>5. n = k
  <2> SUFFICES ASSUME n < k PROVE FALSE
    BY <1>4, <1>2
  <2>1. PICK a \in At(w, Arrival(s[n].chunk)) : a.time = s[n].arrives
    BY <1>4 DEF Crossing
  <2>2. PICK b \in At(w, Arrival(c)) : b.time = s[k].arrives
    BY <1>2 DEF Crossing
  <2>3. b = e
    BY <1>1
  <2>4. a.time <= e.time
    <3>1. s[k].arrives >= s[n].arrives
      BY <1>2, <1>4
    <3> QED BY <2>1, <2>2, <2>3, <3>1, <1>t, <1>2, <1>4
  <2>5. a.id < e.id
    BY <1>1, <1>2, <1>4, <2>1 DEF Crossing
  <2>6. a \in w /\ a # e
    BY <1>t, <2>5 DEF At
  <2> QED BY <2>4, <2>5, <2>6, <1>t DEF IsNext, Precedes
<1>6. s[n].chunk = c
  BY <1>2, <1>5
<1>7. PICK m2 : m2 = Append(m, c)
  OBVIOUS
<1>8. /\ Len(m2) = n
      /\ \A i \in 1..Len(m) : m2[i] = m[i]
      /\ m2[n] = c
      /\ \A i : i \in 1..n <=> i \in 1..Len(m) \/ i = n
  BY <1>3, <1>7, AppendFacts
<1>9. Len(m2) <= Len(s) /\ \A i \in 1..Len(m2) : m2[i] = s[i].chunk
  <2>1. \A i \in 1..Len(m) : m[i] = s[i].chunk
    BY DEF Crossing
  <2>2. \A i \in 1..n : m2[i] = s[i].chunk
    BY <1>6, <1>8, <2>1
  <2>3. n <= Len(s)
    BY <1>4
  <2> QED BY <1>8, <2>2, <2>3
<1>10. ASSUME NEW i \in 1..Len(s), i > n
       PROVE  /\ NextLink(rt[s[i].chunk]) = l
              /\ \E a \in At(w \ {e}, Arrival(s[i].chunk)) : a.time = s[i].arrives
  <2>1. i > Len(m)
    BY <1>3, <1>10, <1>t
  <2>2. PICK a \in At(w, Arrival(s[i].chunk)) : a.time = s[i].arrives
    BY <2>1 DEF Crossing
  <2>3. e.id < a.id
    <3>1. n < i /\ e \in At(w, Arrival(s[n].chunk))
      BY <1>1, <1>6, <1>10
    <3> QED BY <1>4, <2>2, <3>1 DEF Crossing
  <2>4. a # e /\ a \in w /\ a.event = Arrival(s[i].chunk)
    BY <2>3, <1>t DEF At
  <2>5. a \in At(w \ {e}, Arrival(s[i].chunk))
    BY <2>4 DEF At
  <2> QED BY <2>1, <2>2, <2>5 DEF Crossing
<1>11. ASSUME NEW i \in 1..Len(s), NEW j \in 1..Len(s), i > n, i < j,
              NEW a \in At(w \ {e}, Arrival(s[i].chunk)),
              NEW b \in At(w \ {e}, Arrival(s[j].chunk))
       PROVE  a.id < b.id
  <2>1. i > Len(m)
    BY <1>3, <1>11, <1>t
  <2>2. a \in At(w, Arrival(s[i].chunk)) /\ b \in At(w, Arrival(s[j].chunk))
    BY DEF At
  <2> QED BY <1>11, <2>1, <2>2 DEF Crossing
<1>12. ASSUME NEW d \in Chunk, At(w \ {e}, Arrival(d)) # {}, NextLink(rt[d]) = l
       PROVE  \E i \in 1..Len(s) : i > n /\ s[i].chunk = d
  <2>1. PICK a : a \in w /\ a # e /\ a.event = Arrival(d)
    BY <1>12 DEF At
  <2>2. a \in At(w, Arrival(d))
    BY <2>1 DEF At
  <2>3. d # c
    BY <1>1, <2>1, <2>2
  <2>4. PICK i \in 1..Len(s) : i > Len(m) /\ s[i].chunk = d
    BY <1>12, <2>2 DEF Crossing
  <2>5. i # n
    BY <1>6, <2>3, <2>4
  <2>6. i > n
    BY <1>3, <1>t, <2>4, <2>5
  <2> QED BY <2>4, <2>6
<1>13. Crossing(l, w \ {e}, rt, s, m2)
  BY <1>8, <1>9, <1>10, <1>11, <1>12 DEF Crossing
<1> QED BY <1>7, <1>13

(* A chunk reaches the other end of another link. *)
LEMMA CrossingElsewhere ==
  ASSUME NEW l \in Link, NEW w, NEW rt, NEW s \in Seq(StartRecord), NEW m \in Seq(Chunk),
         Crossing(l, w, rt, s, m), NEW e \in w, NEW c \in Chunk, e.event = Arrival(c),
         NextLink(rt[c]) # l
  PROVE  Crossing(l, w \ {e}, rt, s, m)
<1>1. \A i \in 1..Len(s) : s[i].chunk \in Chunk
  <2>1. \A i \in 1..Len(s) : s[i] \in StartRecord
    BY ElementOfSeq
  <2> QED BY <2>1 DEF StartRecord
<1>2. \A d \in Chunk : d # c => At(w \ {e}, Arrival(d)) = At(w, Arrival(d))
  BY EventsDiffer DEF At
<1>3. \A d \in Chunk : At(w \ {e}, Arrival(d)) \subseteq At(w, Arrival(d))
  BY DEF At
<1>4. \A i \in 1..Len(s) : i > Len(m) => s[i].chunk # c
  BY DEF Crossing
<1> QED BY <1>1, <1>2, <1>3, <1>4 DEF Crossing

(* A transmission begins over the link. *)
LEMMA CrossingStarted ==
  ASSUME NEW l \in Link, NEW w \in SUBSET Entry, NEW rt,
         NEW s \in Seq(StartRecord), NEW m \in Seq(Chunk),
         Crossing(l, w, rt, s, m), NEW n \in Nat, \A e \in w : e.id <= n,
         NEW y \in StartRecord, NEW c, c = y.chunk,
         At(w, Arrival(c)) = {}, NextLink(rt[c]) = l,
         NEW w2, NEW a, At(w2, Arrival(c)) = {a}, a.id = n + 1, a.time = y.arrives,
         \A d \in Chunk : d # c => At(w2, Arrival(d)) = At(w, Arrival(d))
  PROVE  Crossing(l, w2, rt, Append(s, y), m)
<1>1. PICK s2 : s2 = Append(s, y)
  OBVIOUS
<1>2. /\ Len(s) \in Nat /\ Len(s2) = Len(s) + 1
      /\ \A i \in 1..Len(s) : s2[i] = s[i]
      /\ s2[Len(s) + 1] = y
      /\ \A i : i \in 1..(Len(s) + 1) <=> i \in 1..Len(s) \/ i = Len(s) + 1
  BY <1>1, AppendFacts
<1>3. /\ \A i \in 1..Len(s) : s[i].chunk \in Chunk
      /\ \A e \in w : e.id \in Nat
      /\ Len(m) \in Nat /\ Len(m) <= Len(s) /\ Len(s) + 1 > Len(m)
  <2>1. \A i \in 1..Len(s) : s[i] \in StartRecord
    BY ElementOfSeq
  <2> QED BY <1>2, <2>1 DEF StartRecord, Entry, Crossing
<1>4. \A i \in 1..Len(s) : i > Len(m) => s[i].chunk # c
  BY DEF Crossing
<1>5. Len(m) <= Len(s2) /\ \A i \in 1..Len(m) : m[i] = s2[i].chunk
  <2>1. \A i \in 1..Len(m) : i \in 1..Len(s) /\ m[i] = s[i].chunk
    BY <1>3, <1>2 DEF Crossing
  <2> QED BY <1>2, <1>3, <2>1
<1>6. ASSUME NEW i \in 1..Len(s2), i > Len(m)
      PROVE  /\ NextLink(rt[s2[i].chunk]) = l
             /\ \E b \in At(w2, Arrival(s2[i].chunk)) : b.time = s2[i].arrives
  <2>1. CASE i \in 1..Len(s)
    <3>1. s2[i] = s[i] /\ At(w2, Arrival(s[i].chunk)) = At(w, Arrival(s[i].chunk))
      BY <1>2, <1>3, <1>4, <1>6, <2>1
    <3> QED BY <1>6, <2>1, <3>1 DEF Crossing
  <2>2. CASE i = Len(s) + 1
    BY <1>2, <2>2
  <2> QED BY <1>2, <2>1, <2>2
<1>7. ASSUME NEW i \in 1..Len(s2), NEW j \in 1..Len(s2), i > Len(m), i < j,
             NEW b \in At(w2, Arrival(s2[i].chunk)), NEW d \in At(w2, Arrival(s2[j].chunk))
      PROVE  b.id < d.id
  <2>1. i \in 1..Len(s) /\ s2[i] = s[i] /\ b \in At(w, Arrival(s[i].chunk))
    <3>1. i \in 1..Len(s)
      BY <1>2, <1>7
    <3> QED BY <1>2, <1>3, <1>4, <1>7, <3>1
  <2>2. CASE j \in 1..Len(s)
    <3>1. j > Len(m)
      BY <1>3, <1>7, <2>1, <2>2
    <3>2. s2[j] = s[j] /\ d \in At(w, Arrival(s[j].chunk))
      BY <1>2, <1>3, <1>4, <2>2, <3>1
    <3> QED BY <1>7, <2>1, <2>2, <3>2 DEF Crossing
  <2>3. CASE j = Len(s) + 1
    <3>1. d = a
      BY <1>2, <2>3
    <3>2. b.id <= n /\ b.id \in Nat
      BY <1>3, <2>1 DEF At
    <3> QED BY <3>1, <3>2
  <2> QED BY <1>2, <2>2, <2>3
<1>8. ASSUME NEW d \in Chunk, At(w2, Arrival(d)) # {}, NextLink(rt[d]) = l
      PROVE  \E i \in 1..Len(s2) : i > Len(m) /\ s2[i].chunk = d
  <2>1. CASE d = c
    BY <1>2, <1>3, <2>1
  <2>2. CASE d # c
    <3>1. PICK i \in 1..Len(s) : i > Len(m) /\ s[i].chunk = d
      BY <1>8, <2>2 DEF Crossing
    <3> QED BY <1>2, <3>1
  <2> QED BY <2>1, <2>2
<1>9. Crossing(l, w2, rt, s2, m)
  BY <1>5, <1>6, <1>7, <1>8 DEF Crossing
<1> QED BY <1>1, <1>9

(* A transmission begins over another link. *)
LEMMA CrossingStartedElsewhere ==
  ASSUME NEW l \in Link, NEW w, NEW rt, NEW s \in Seq(StartRecord), NEW m \in Seq(Chunk),
         Crossing(l, w, rt, s, m), NEW c \in Chunk,
         At(w, Arrival(c)) = {}, NextLink(rt[c]) # l,
         NEW w2, \A d \in Chunk : d # c => At(w2, Arrival(d)) = At(w, Arrival(d))
  PROVE  Crossing(l, w2, rt, s, m)
<1>1. \A i \in 1..Len(s) : s[i].chunk \in Chunk
  <2>1. \A i \in 1..Len(s) : s[i] \in StartRecord
    BY ElementOfSeq
  <2> QED BY <2>1 DEF StartRecord
<1>2. \A i \in 1..Len(s) : i > Len(m) => s[i].chunk # c
  BY DEF Crossing
<1>3. \A i \in 1..Len(s) : i > Len(m) =>
         At(w2, Arrival(s[i].chunk)) = At(w, Arrival(s[i].chunk))
  BY <1>1, <1>2
<1>4. ASSUME NEW i \in 1..Len(s), i > Len(m)
      PROVE  /\ NextLink(rt[s[i].chunk]) = l
             /\ \E b \in At(w2, Arrival(s[i].chunk)) : b.time = s[i].arrives
  BY <1>3, <1>4 DEF Crossing
<1>5. ASSUME NEW i \in 1..Len(s), NEW j \in 1..Len(s), i > Len(m), i < j
      PROVE  \A a \in At(w2, Arrival(s[i].chunk)), b \in At(w2, Arrival(s[j].chunk)) : a.id < b.id
  <2>1. j > Len(m)
    BY <1>5
  <2> QED BY <1>3, <1>5, <2>1 DEF Crossing
<1>6. ASSUME NEW d \in Chunk, At(w2, Arrival(d)) # {}, NextLink(rt[d]) = l
      PROVE  \E i \in 1..Len(s) : i > Len(m) /\ s[i].chunk = d
  BY <1>6 DEF Crossing
<1> QED BY <1>4, <1>5, <1>6 DEF Crossing

-----------------------------------------------------------------------------
(* The steps of the time a chunk has been crossing *)

(* A chunk gets to a device, and its arrival is no longer scheduled. *)
LEMMA CrossesInTimeMoved ==
  ASSUME NEW w, NEW t \in Nat, NEW rt, NEW sn \in [Chunk -> Nat], CrossesInTime(w, t, rt, sn),
         NEW c \in Chunk, NEW w2, NEW t2 \in Nat, t2 >= t, NEW rt2, NEW sn2,
         At(w2, Arrival(c)) = {}, sn2[c] = t2,
         \A d \in Chunk : d # c => /\ At(w2, Arrival(d)) = At(w, Arrival(d))
                                   /\ rt2[d] = rt[d] /\ sn2[d] = sn[d]
  PROVE  CrossesInTime(w2, t2, rt2, sn2)
<1>1. sn2[c] = t2 /\ \A d \in Chunk : d # c => sn2[d] = sn[d]
  OBVIOUS
<1>2. \A d \in Chunk : d # c => sn[d] \in Nat /\ sn[d] <= t
  BY DEF CrossesInTime
<1>3. \A d \in Chunk : sn2[d] <= t2
  BY <1>1, <1>2
<1>4. \A d \in Chunk : d # c => \A a \in At(w2, Arrival(d)) :
         a.time >= sn2[d] + communication_delay(NextLink(rt2[d]), d)
  BY <1>1 DEF CrossesInTime
<1> QED BY <1>3, <1>4 DEF CrossesInTime

(* A transmission begins. *)
LEMMA CrossesInTimeStarted ==
  ASSUME NEW w, NEW t \in Nat, NEW rt, NEW sn \in [Chunk -> Nat], CrossesInTime(w, t, rt, sn),
         NEW c \in Chunk, NEW l \in Link, NextLink(rt[c]) = l,
         NEW w2, NEW a, At(w2, Arrival(c)) = {a}, a.time = t + communication_delay(l, c),
         \A d \in Chunk : d # c => At(w2, Arrival(d)) = At(w, Arrival(d))
  PROVE  CrossesInTime(w2, t, rt, sn)
<1>1. sn[c] \in Nat /\ sn[c] <= t /\ communication_delay(l, c) \in Nat
  BY DelayTypes DEF CrossesInTime
<1>2. a.time >= sn[c] + communication_delay(l, c)
  BY <1>1
<1> QED BY <1>2 DEF CrossesInTime

(* Nothing happens to arrivals. *)
LEMMA CrossesInTimeLater ==
  ASSUME NEW w, NEW t \in Nat, NEW rt, NEW sn \in [Chunk -> Nat], CrossesInTime(w, t, rt, sn),
         NEW w2, NEW t2 \in Nat, t2 >= t,
         \A d \in Chunk : At(w2, Arrival(d)) = At(w, Arrival(d))
  PROVE  CrossesInTime(w2, t2, rt, sn)
<1>1. \A d \in Chunk : sn[d] \in Nat /\ sn[d] <= t
  BY DEF CrossesInTime
<1>2. \A d \in Chunk : sn[d] <= t2
  BY <1>1
<1> QED BY <1>2 DEF CrossesInTime

-----------------------------------------------------------------------------
(* A chunk that is nowhere is handed to link l, which its route rt takes next. *)
LEMMA HandedToLink ==
  ASSUME TypeOK, PendingOnlyBehindBusy, NEW l \in Link, NEW c \in Chunk, NEW t \in Nat,
         NEW w, CalendarOKAt(w, t, issued), BusyAt(w, busy), At(w, Arrival(c)) = {},
         NEW rt, NextLink(rt[c]) = l, NEW sn, NEW m,
         HistoryOK(w, t, busy, pending_chunks, rt, sn, offered, started, m),
         LinkSend(l, c, t, w), Offer(l, c), RecordStarts, now' = t, route' = rt
  PROVE  HistoryOK(waiting', t, busy', pending_chunks', rt, sn, offered', started', m)
<1> DEFINE x == [chunk |-> c, time |-> t]
           y == [chunk |-> c, time |-> t, arrives |-> t + communication_delay(l, c)]
<1>t. /\ issued \in Nat /\ busy \in [Link -> BOOLEAN]
      /\ pending_chunks \in [Link -> Seq(Chunk)]
  BY DEF TypeOK
<1>h. /\ sn \in [Chunk -> Nat]
      /\ offered \in [Link -> Seq(OfferRecord)]
      /\ started \in [Link -> Seq(StartRecord)]
      /\ m \in [Link -> Seq(Chunk)]
      /\ \A k \in Link : RecordOK(k, w, t, busy[k], pending_chunks[k], offered[k], started[k])
      /\ \A k \in Link : WholeLatency(k) => Crossing(k, w, rt, started[k], m[k])
      /\ CrossesInTime(w, t, rt, sn)
  BY DEF HistoryOK
<1>w. w \in SUBSET Entry /\ \A e \in w : e.id <= issued /\ e.id \in Nat
  BY DEF CalendarOKAt, Entry
<1>x. x \in OfferRecord /\ y \in StartRecord /\ y.chunk = c
      /\ y.arrives = t + communication_delay(l, c)
  BY DelayTypes DEF OfferRecord, StartRecord
<1>o. offered' = [offered EXCEPT ![l] = Append(@, x)]
  BY DEF Offer
<1> HIDE DEF x, y
<1>1. /\ offered' \in [Link -> Seq(OfferRecord)]
      /\ offered'[l] = Append(offered[l], x)
      /\ \A k \in Link \ {l} : offered'[k] = offered[k]
  <2>1. Append(offered[l], x) \in Seq(OfferRecord)
    BY <1>h, <1>x, AppendFacts
  <2> QED BY <1>h, <1>o, <2>1
<1>2. CASE busy[l]
  <2>1. /\ pending_chunks' = [pending_chunks EXCEPT ![l] = Append(@, c)]
        /\ waiting' = w /\ busy' = busy /\ issued' = issued
    BY <1>2 DEF LinkSend
  <2>2. started' = started
    BY <1>h, <1>t, <1>w, <2>1, NoneStarted
  <2>3. /\ pending_chunks'[l] = Append(pending_chunks[l], c)
        /\ \A k \in Link \ {l} : pending_chunks'[k] = pending_chunks[k]
    BY <1>t, <2>1
  <2>4. RecordOK(l, w, t, busy[l], Append(pending_chunks[l], c), Append(offered[l], x), started[l])
    <3>1. /\ pending_chunks[l] \in Seq(Chunk) /\ offered[l] \in Seq(OfferRecord)
          /\ started[l] \in Seq(StartRecord)
          /\ RecordOK(l, w, t, busy[l], pending_chunks[l], offered[l], started[l])
      BY <1>h, <1>t
    <3> QED BY <1>2, <3>1, RecordWaiting DEF x
  <2>5. \A k \in Link : RecordOK(k, waiting', t, busy'[k], pending_chunks'[k], offered'[k], started'[k])
    <3> TAKE k \in Link
    <3>1. CASE k = l
      BY <1>1, <2>1, <2>2, <2>3, <2>4, <3>1
    <3>2. CASE k # l
      BY <1>1, <1>h, <2>1, <2>2, <2>3, <3>2
    <3> QED BY <3>1, <3>2
  <2> QED BY <1>1, <1>h, <2>1, <2>2, <2>5 DEF HistoryOK
<1>3. CASE ~busy[l]
  <2>1. ScheduleTransmission(l, c, t, w) /\ pending_chunks' = pending_chunks
    BY <1>3 DEF LinkSend
  <2>2. started' = [started EXCEPT ![l] = Append(@, y)]
    BY <1>h, <1>t, <1>w, <2>1, OneStarted DEF y
  <2>3. /\ started' \in [Link -> Seq(StartRecord)]
        /\ started'[l] = Append(started[l], y)
        /\ \A k \in Link \ {l} : started'[k] = started[k]
    <3>1. Append(started[l], y) \in Seq(StartRecord)
      BY <1>h, <1>x, AppendFacts
    <3> QED BY <1>h, <2>2, <3>1
  <2>4. At(w, Free(l)) = {} /\ pending_chunks[l] = <<>>
    BY <1>3 DEF BusyAt, PendingOnlyBehindBusy
  <2>5. PICK a : /\ At(waiting', Arrival(c)) = {a}
                 /\ a.id = issued + 1 /\ a.time = t + communication_delay(l, c)
    BY <1>t, <2>1, <2>4, TransmissionEntries
  <2>6. /\ \A f \in At(waiting', Free(l)) : f.time = t + serialization_delay(l, c)
        /\ \A ev : ev # Arrival(c) /\ ev # Free(l) => At(waiting', ev) = At(w, ev)
    BY <1>t, <2>1, <2>4, TransmissionEntries
  <2>7. /\ \A d \in Chunk : d # c => At(waiting', Arrival(d)) = At(w, Arrival(d))
        /\ \A k \in Link : k # l => At(waiting', Free(k)) = At(w, Free(k))
    BY <2>6, EventsDiffer
  <2>8. busy'[l] = TRUE /\ \A k \in Link \ {l} : busy'[k] = busy[k]
    BY <1>t, <2>1 DEF ScheduleTransmission
  <2>9. RecordOK(l, waiting', t, TRUE, <<>>, Append(offered[l], x), Append(started[l], y))
    <3>1. /\ offered[l] \in Seq(OfferRecord) /\ started[l] \in Seq(StartRecord)
          /\ RecordOK(l, w, t, busy[l], <<>>, offered[l], started[l])
      BY <1>h, <2>4
    <3> QED BY <1>3, <2>6, <3>1, RecordAtOnce DEF x, y
  <2>10. \A k \in Link : RecordOK(k, waiting', t, busy'[k], pending_chunks'[k], offered'[k], started'[k])
    <3> TAKE k \in Link
    <3>1. CASE k = l
      BY <1>1, <2>1, <2>3, <2>4, <2>8, <2>9, <3>1
    <3>2. CASE k # l
      <4>1. RecordOK(k, w, t, busy[k], pending_chunks[k], offered[k], started[k])
        BY <1>h
      <4>2. RecordOK(k, waiting', t, busy[k], pending_chunks[k], offered[k], started[k])
        <5>1. offered[k] \in Seq(OfferRecord) /\ started[k] \in Seq(StartRecord) /\ t >= t
          BY <1>h
        <5> QED BY <2>7, <3>2, <4>1, <5>1, RecordLater
      <4> QED BY <1>1, <2>1, <2>3, <2>8, <3>2, <4>2
    <3> QED BY <3>1, <3>2
  <2>11. \A k \in Link : WholeLatency(k) => Crossing(k, waiting', rt, started'[k], m[k])
    <3> SUFFICES ASSUME NEW k \in Link, WholeLatency(k)
                 PROVE  Crossing(k, waiting', rt, started'[k], m[k])
      OBVIOUS
    <3>1. /\ Crossing(k, w, rt, started[k], m[k])
          /\ started[k] \in Seq(StartRecord) /\ m[k] \in Seq(Chunk)
      BY <1>h
    <3>2. CASE k = l
      <4>1. Crossing(l, waiting', rt, Append(started[l], y), m[l])
        <5>1. /\ Crossing(l, w, rt, started[l], m[l])
              /\ started[l] \in Seq(StartRecord) /\ m[l] \in Seq(Chunk)
          BY <3>1, <3>2
        <5>2. y \in StartRecord /\ c = y.chunk /\ a.time = y.arrives /\ a.id = issued + 1
          BY <1>x, <2>5
        <5>3. issued \in Nat /\ w \in SUBSET Entry /\ \A e \in w : e.id <= issued
          BY <1>t, <1>w
        <5>4. At(w, Arrival(c)) = {} /\ NextLink(rt[c]) = l
          OBVIOUS
        <5>5. /\ At(waiting', Arrival(c)) = {a}
              /\ \A d \in Chunk : d # c => At(waiting', Arrival(d)) = At(w, Arrival(d))
          BY <2>5, <2>7
        <5> QED BY <5>1, <5>2, <5>3, <5>4, <5>5, CrossingStarted
      <4> QED BY <2>3, <3>2, <4>1
    <3>3. CASE k # l
      <4>1. Crossing(k, waiting', rt, started[k], m[k])
        BY <2>7, <3>1, <3>3, CrossingStartedElsewhere
      <4> QED BY <2>3, <3>3, <4>1
    <3> QED BY <3>2, <3>3
  <2>12. CrossesInTime(waiting', t, rt, sn)
    BY <1>h, <2>5, <2>7, CrossesInTimeStarted
  <2> QED BY <1>1, <1>h, <2>3, <2>10, <2>11, <2>12 DEF HistoryOK
<1> QED BY <1>2, <1>3

-----------------------------------------------------------------------------
(* The steps of the network with its history *)

LEMMA SendHStep ==
  ASSUME IInv, HInv, NEW c \in Chunk, NEW r \in Routes, NEW t \in 0..LastSend, SendH(c, r, t)
  PROVE  HInv'
<1>t. t \in Nat
  BY DelaysAssumption
<1>1. /\ route[c] = <<>> /\ t >= now
      /\ \A e \in waiting : t <= e.time
      /\ now' = t
      /\ route' = [route EXCEPT ![c] = r]
      /\ LinkSend(NextLink(r), c, t, waiting)
      /\ since' = [since EXCEPT ![c] = t]
      /\ Offer(NextLink(r), c) /\ RecordStarts /\ reached' = reached
  BY DEF SendH, Send
<1>2. /\ TypeOK /\ PendingOnlyBehindBusy /\ BusyAt(waiting, busy)
      /\ CalendarOKAt(waiting, t, issued)
      /\ At(waiting, Arrival(c)) = {}
      /\ now \in Nat /\ route \in [Chunk -> Seq(Device)]
  <2>1. At(waiting, Arrival(c)) = {}
    BY <1>1 DEF IInv, OnePlacePerChunk, SomewhereWhileUnderWay, Sent, InFlight, EntriesFor, At
  <2>2. CalendarOKAt(waiting, t, issued)
    BY <1>1, IInvAt DEF CalendarOKAt
  <2>3. TypeOK /\ PendingOnlyBehindBusy
    BY DEF IInv
  <2> QED BY <2>1, <2>2, <2>3, IInvAt DEF TypeOK
<1>3. route'[c] = r /\ \A d \in Chunk : d # c => route'[d] = route[d]
  BY <1>1, <1>2
<1>h. /\ since \in [Chunk -> Nat]
      /\ offered \in [Link -> Seq(OfferRecord)]
      /\ started \in [Link -> Seq(StartRecord)]
      /\ reached \in [Link -> Seq(Chunk)]
      /\ \A l \in Link : RecordOK(l, waiting, now, busy[l], pending_chunks[l], offered[l], started[l])
      /\ \A l \in Link : WholeLatency(l) => Crossing(l, waiting, route, started[l], reached[l])
      /\ CrossesInTime(waiting, now, route, since)
  BY DEF HInv, HistoryOK
<1>4. HistoryOK(waiting, t, busy, pending_chunks, route', since', offered, started, reached)
  <2>1. \A l \in Link : RecordOK(l, waiting, t, busy[l], pending_chunks[l], offered[l], started[l])
    <3> TAKE l \in Link
    <3>1. offered[l] \in Seq(OfferRecord) /\ started[l] \in Seq(StartRecord)
      BY <1>h
    <3> QED BY <1>h, <1>t, <1>1, <1>2, <3>1, RecordLater
  <2>2. \A l \in Link : WholeLatency(l) => Crossing(l, waiting, route', started[l], reached[l])
    <3> SUFFICES ASSUME NEW l \in Link, WholeLatency(l)
                 PROVE  Crossing(l, waiting, route', started[l], reached[l])
      OBVIOUS
    <3>1. started[l] \in Seq(StartRecord) /\ reached[l] \in Seq(Chunk)
      BY <1>h
    <3>2. \A d \in Chunk : At(waiting, Arrival(d)) # {} => route'[d] = route[d]
      BY <1>2, <1>3
    <3> QED BY <1>h, <3>1, <3>2, CrossingAlike
  <2>3. CrossesInTime(waiting, t, route', since')
    <3>1. since'[c] = t /\ \A d \in Chunk : d # c => since'[d] = since[d]
      BY <1>h, <1>1
    <3>2. \A d \in Chunk : d # c => route'[d] = route[d] /\ since'[d] = since[d]
      BY <1>3, <3>1
    <3>3. /\ CrossesInTime(waiting, now, route, since) /\ since \in [Chunk -> Nat]
          /\ now \in Nat /\ t \in Nat /\ t >= now /\ At(waiting, Arrival(c)) = {}
      BY <1>h, <1>t, <1>1, <1>2
    <3> QED BY <3>1, <3>2, <3>3, CrossesInTimeMoved
  <2>4. since' \in [Chunk -> Nat]
    BY <1>h, <1>t, <1>1
  <2> QED BY <1>h, <2>1, <2>2, <2>3, <2>4 DEF HistoryOK
<1>5. HistoryOK(waiting', t, busy', pending_chunks', route', since', offered', started', reached)
  <2>1. NextLink(r) \in Link /\ NextLink(route'[c]) = NextLink(r)
    BY <1>3, FirstHop
  <2> QED BY <1>t, <1>1, <1>2, <1>4, <2>1, HandedToLink
<1> QED BY <1>1, <1>5 DEF HInv

(* A chunk whose arrival is scheduled is on its way over a link. *)
LEMMA OnItsWay ==
  ASSUME IInv, NEW c \in Chunk, EntriesFor(Arrival(c)) # {}
  PROVE  /\ route[c] \in Seq(Device) /\ Len(route[c]) \in Nat /\ Len(route[c]) >= 2
         /\ NextLink(route[c]) \in Link
         /\ Len(Tail(route[c])) = Len(route[c]) - 1
         /\ Len(route[c]) # 2 => NextLink(Tail(route[c])) \in Link
<1>1. route[c] # <<>> /\ invoked[c] = 0
  BY DEF IInv, OnePlacePerChunk, SomewhereWhileUnderWay, InFlight, Sent
<1>2. PICK r : r = route[c]
  OBVIOUS
<1>3. r \in Seq(Device)
  BY <1>2 DEF IInv, TypeOK
<1>4. /\ Len(r) \in Nat /\ Len(r) # 1
      /\ \A i \in 1..(Len(r) - 1) : <<r[i], r[i + 1]>> \in Link
  BY <1>1, <1>2, <1>3 DEF IInv, CallbackOnceAtDestination
<1>5. Len(r) >= 2 /\ 1 \in 1..(Len(r) - 1)
  <2>1. r # <<>>
    BY <1>1, <1>2
  <2>2. Len(r) \in Nat /\ Len(r) # 0 /\ Len(r) # 1
    BY <1>3, <1>4, <2>1, EmptySeq
  <2>3. \A n \in Nat : n # 0 /\ n # 1 => n >= 2 /\ 1 \in 1..(n - 1)
    OBVIOUS
  <2> QED BY ONLY <2>2, <2>3
<1>6. PICK u : u = Tail(r)
  OBVIOUS
<1>7. Len(u) = Len(r) - 1 /\ \A i \in 1..Len(u) : u[i] = r[i + 1]
  BY <1>1, <1>2, <1>3, <1>6, HeadTailProperties
<1>8. NextLink(r) \in Link
  BY <1>4, <1>5 DEF NextLink
<1>9. Len(r) # 2 => NextLink(u) \in Link
  <2> SUFFICES ASSUME Len(r) # 2 PROVE NextLink(u) \in Link
    OBVIOUS
  <2>1. 1 \in 1..Len(u) /\ 2 \in 1..Len(u) /\ 2 \in 1..(Len(r) - 1)
    BY <1>4, <1>5, <1>7
  <2>2. u[1] = r[2] /\ u[2] = r[3]
    BY <1>7, <2>1
  <2>3. <<r[2], r[3]>> \in Link
    BY <1>4, <2>1
  <2> QED BY <2>2, <2>3 DEF NextLink
<1> QED BY <1>2, <1>3, <1>4, <1>5, <1>6, <1>7, <1>8, <1>9

LEMMA ArrivedHStep ==
  ASSUME IInv, HInv, NEW e \in waiting, NEW c \in Chunk, ChunkArrivedNextDeviceH(e, c)
  PROVE  HInv'
<1>w. PICK w : w = waiting \ {e}
  OBVIOUS
<1>r. PICK r : r = Tail(route[c])
  OBVIOUS
<1>l. PICK l : l = NextLink(route[c])
  OBVIOUS
<1>1. /\ IsNext(e, waiting) /\ e.event = Arrival(c) /\ now' = e.time
      /\ route' = [route EXCEPT ![c] = r]
      /\ since' = [since EXCEPT ![c] = e.time]
      /\ reached' = [reached EXCEPT ![l] = Append(@, c)]
      /\ RecordStarts
  BY <1>l, <1>r DEF ChunkArrivedNextDeviceH, ChunkArrivedNextDevice
<1>i. /\ TypeOK /\ CalendarOK /\ PendingOnlyBehindBusy /\ OneArrival
      /\ now \in Nat /\ issued \in Nat /\ route \in [Chunk -> Seq(Device)]
      /\ waiting \in SUBSET Entry
  BY DEF IInv, OnePlacePerChunk, TypeOK
<1>2. /\ e.time \in Nat /\ e.time >= now
      /\ CalendarOKAt(w, e.time, issued)
      /\ \A ev : ev # Arrival(c) => At(w, ev) = EntriesFor(ev)
      /\ At(w, Arrival(c)) = EntriesFor(Arrival(c)) \ {e}
      /\ e \in EntriesFor(Arrival(c))
  BY <1>w, <1>1, <1>i, AfterTake
<1>3. At(w, Arrival(c)) = {}
  BY <1>2, <1>i DEF OneArrival
<1>4. /\ route[c] \in Seq(Device) /\ Len(route[c]) \in Nat /\ Len(route[c]) >= 2
      /\ l \in Link
      /\ Len(r) = Len(route[c]) - 1
      /\ Len(route[c]) # 2 => NextLink(r) \in Link
  BY <1>2, <1>l, <1>r, OnItsWay
<1>5. route'[c] = r /\ \A d \in Chunk : d # c => route'[d] = route[d]
  BY <1>1, <1>i
<1>6. /\ \A k \in Link : At(w, Free(k)) = At(waiting, Free(k))
      /\ \A d \in Chunk : d # c => At(w, Arrival(d)) = At(waiting, Arrival(d))
  BY <1>2, EventsDiffer, IInvAt
<1>7. BusyAt(w, busy)
  BY <1>6, IInvAt DEF BusyAt
<1>h. /\ since \in [Chunk -> Nat]
      /\ offered \in [Link -> Seq(OfferRecord)]
      /\ started \in [Link -> Seq(StartRecord)]
      /\ reached \in [Link -> Seq(Chunk)]
      /\ \A k \in Link : RecordOK(k, waiting, now, busy[k], pending_chunks[k], offered[k], started[k])
      /\ \A k \in Link : WholeLatency(k) => Crossing(k, waiting, route, started[k], reached[k])
      /\ CrossesInTime(waiting, now, route, since)
  BY DEF HInv, HistoryOK
<1>m. /\ reached' \in [Link -> Seq(Chunk)]
      /\ reached'[l] = Append(reached[l], c)
      /\ \A k \in Link \ {l} : reached'[k] = reached[k]
  <2>1. Append(reached[l], c) \in Seq(Chunk)
    BY <1>h, <1>4, AppendFacts
  <2> QED BY <1>h, <1>1, <1>4, <2>1
<1>8. HistoryOK(w, e.time, busy, pending_chunks, route', since', offered, started, reached')
  <2>1. \A k \in Link : RecordOK(k, w, e.time, busy[k], pending_chunks[k], offered[k], started[k])
    <3> TAKE k \in Link
    <3>1. offered[k] \in Seq(OfferRecord) /\ started[k] \in Seq(StartRecord)
      BY <1>h
    <3> QED BY <1>h, <1>i, <1>2, <1>6, <3>1, RecordLater
  <2>2. \A k \in Link : WholeLatency(k) => Crossing(k, w, route', started[k], reached'[k])
    <3> SUFFICES ASSUME NEW k \in Link, WholeLatency(k)
                 PROVE  Crossing(k, w, route', started[k], reached'[k])
      OBVIOUS
    <3>1. /\ started[k] \in Seq(StartRecord) /\ reached[k] \in Seq(Chunk)
          /\ reached'[k] \in Seq(Chunk)
          /\ Crossing(k, waiting, route, started[k], reached[k])
      BY <1>h, <1>m
    <3>2. Crossing(k, w, route, started[k], reached'[k])
      <4>1. CASE k = l
        <5>1. \A i, j \in 1..Len(started[k]) :
                 i < j => started[k][j].arrives >= started[k][i].arrives
          <6>1. RecordOK(k, waiting, now, busy[k], pending_chunks[k], offered[k], started[k])
            BY <1>h
          <6>2. offered[k] \in Seq(OfferRecord)
            BY <1>h
          <6> QED BY <1>i, <3>1, <6>1, <6>2, ArrivalsInOrder
        <5>2. \A d \in Chunk : \A a, b \in At(waiting, Arrival(d)) : a = b
          BY <1>i, IInvAt DEF OneArrival
        <5>3. NextLink(route[c]) = k
          BY <1>l, <4>1
        <5>4. Crossing(k, w, route, started[k], Append(reached[k], c))
          BY <1>1, <1>i, <1>w, <3>1, <5>1, <5>2, <5>3, CrossingReached
        <5> QED BY <1>m, <4>1, <5>4
      <4>2. CASE k # l
        <5>1. NextLink(route[c]) # k
          BY <1>l, <4>2
        <5>2. Crossing(k, w, route, started[k], reached[k])
          BY <1>1, <1>w, <3>1, <5>1, CrossingElsewhere
        <5> QED BY <1>m, <4>2, <5>2
      <4> QED BY <4>1, <4>2
    <3>3. \A d \in Chunk : At(w, Arrival(d)) # {} => route'[d] = route[d]
      BY <1>3, <1>5
    <3> QED BY <3>1, <3>2, <3>3, CrossingAlike
  <2>3. CrossesInTime(w, e.time, route', since')
    <3>1. since'[c] = e.time /\ \A d \in Chunk : d # c => since'[d] = since[d]
      BY <1>h, <1>1
    <3>2. \A d \in Chunk : d # c => /\ At(w, Arrival(d)) = At(waiting, Arrival(d))
                                     /\ route'[d] = route[d] /\ since'[d] = since[d]
      BY <1>5, <1>6, <3>1
    <3>3. /\ CrossesInTime(waiting, now, route, since) /\ since \in [Chunk -> Nat]
          /\ now \in Nat /\ e.time \in Nat /\ e.time >= now
      BY <1>h, <1>i, <1>2
    <3> QED BY <1>3, <3>1, <3>2, <3>3, CrossesInTimeMoved
  <2>4. since' \in [Chunk -> Nat]
    BY <1>h, <1>1, <1>2
  <2> QED BY <1>h, <1>m, <2>1, <2>2, <2>3, <2>4 DEF HistoryOK
<1>9. CASE Len(route[c]) = 2
  <2>1. waiting' = w /\ UNCHANGED <<busy, pending_chunks, issued>>
    BY <1>w, <1>9 DEF ChunkArrivedNextDeviceH, ChunkArrivedNextDevice
  <2>2. offered' = offered
    <3>1. Len(route'[c]) = 1
      BY <1>4, <1>5, <1>9
    <3> QED BY <3>1 DEF ChunkArrivedNextDeviceH
  <2>3. started' = started
    <3>1. \A a \in waiting' : a.id <= issued /\ a.id \in Nat
      BY <1>2, <2>1 DEF CalendarOKAt, Entry
    <3> QED BY <1>h, <1>i, <1>1, <3>1, NoneStarted
  <2> QED BY <1>1, <1>8, <2>1, <2>2, <2>3 DEF HInv
<1>10. CASE Len(route[c]) # 2
  <2>1. LinkSend(NextLink(r), c, e.time, w)
    BY <1>w, <1>r, <1>10 DEF ChunkArrivedNextDeviceH, ChunkArrivedNextDevice
  <2>2. Offer(NextLink(r), c)
    <3>1. Len(route'[c]) # 1
      <4>1. route'[c] = r /\ Len(r) = Len(route[c]) - 1 /\ Len(route[c]) \in Nat
        BY <1>4, <1>5
      <4> QED BY <1>10, <4>1
    <3> QED BY <1>5, <3>1 DEF ChunkArrivedNextDeviceH
  <2>3. NextLink(r) \in Link /\ NextLink(route'[c]) = NextLink(r)
    BY <1>4, <1>5, <1>10
  <2>4. HistoryOK(waiting', e.time, busy', pending_chunks', route', since', offered', started',
          reached')
    BY <1>i, <1>1, <1>2, <1>3, <1>7, <1>8, <2>1, <2>2, <2>3, HandedToLink
  <2> QED BY <1>1, <2>4 DEF HInv
<1> QED BY <1>9, <1>10

LEMMA FreedHStep ==
  ASSUME IInv, HInv, NEW e \in waiting, NEW l \in Link, LinkBecomeFreeH(e, l)
  PROVE  HInv'
<1>w. PICK w : w = waiting \ {e}
  OBVIOUS
<1>1. /\ IsNext(e, waiting) /\ e.event = Free(l) /\ now' = e.time
      /\ UNCHANGED <<route, since, offered, reached>> /\ RecordStarts
  BY DEF LinkBecomeFreeH, LinkBecomeFree
<1>i. /\ TypeOK /\ CalendarOK /\ PendingForItsRoute /\ NotInBoth /\ OnePendingPlace
      /\ now \in Nat /\ issued \in Nat
      /\ pending_chunks \in [Link -> Seq(Chunk)] /\ busy \in [Link -> BOOLEAN]
  BY DEF IInv, OnePlacePerChunk, TypeOK
<1>2. /\ e.time \in Nat /\ e.time >= now
      /\ CalendarOKAt(w, e.time, issued)
      /\ \A ev : ev # Free(l) => At(w, ev) = EntriesFor(ev)
      /\ At(w, Free(l)) = EntriesFor(Free(l)) \ {e}
      /\ e \in EntriesFor(Free(l))
  BY <1>w, <1>1, <1>i, AfterTake
<1>3. At(w, Free(l)) = {} /\ busy[l] /\ e \in At(waiting, Free(l))
  BY <1>2, IInvAt DEF IInv, BusyUntilFreed
<1>4. /\ \A k \in Link : k # l => At(w, Free(k)) = At(waiting, Free(k))
      /\ \A d \in Chunk : At(w, Arrival(d)) = At(waiting, Arrival(d))
  BY <1>2, EventsDiffer, IInvAt
<1>h. /\ since \in [Chunk -> Nat]
      /\ offered \in [Link -> Seq(OfferRecord)]
      /\ started \in [Link -> Seq(StartRecord)]
      /\ reached \in [Link -> Seq(Chunk)]
      /\ \A k \in Link : RecordOK(k, waiting, now, busy[k], pending_chunks[k], offered[k], started[k])
      /\ \A k \in Link : WholeLatency(k) => Crossing(k, waiting, route, started[k], reached[k])
      /\ CrossesInTime(waiting, now, route, since)
  BY DEF HInv, HistoryOK
(* Up to the entry: the record of the other links, and what is crossing. *)
<1>5. /\ \A k \in Link : WholeLatency(k) => Crossing(k, w, route, started[k], reached[k])
      /\ CrossesInTime(w, e.time, route, since)
      /\ \A k \in Link : RecordOK(k, waiting, e.time, busy[k], pending_chunks[k], offered[k], started[k])
  <2>1. ASSUME NEW k \in Link, WholeLatency(k)
        PROVE  Crossing(k, w, route, started[k], reached[k])
    <3>1. /\ started[k] \in Seq(StartRecord) /\ reached[k] \in Seq(Chunk)
          /\ Crossing(k, waiting, route, started[k], reached[k])
      BY <1>h, <2>1
    <3> QED BY <1>4, <3>1, CrossingAlike
  <2>2. CrossesInTime(w, e.time, route, since)
    BY <1>h, <1>i, <1>2, <1>4, CrossesInTimeLater
  <2>3. ASSUME NEW k \in Link
        PROVE  RecordOK(k, waiting, e.time, busy[k], pending_chunks[k], offered[k], started[k])
    <3>1. offered[k] \in Seq(OfferRecord) /\ started[k] \in Seq(StartRecord)
      BY <1>h
    <3> QED BY <1>h, <1>i, <1>2, <3>1, RecordLater
  <2> QED BY <2>1, <2>2, <2>3
<1>6. CASE pending_chunks[l] = <<>>
  <2>1. /\ busy' = [busy EXCEPT ![l] = FALSE]
        /\ waiting' = w
        /\ UNCHANGED <<pending_chunks, issued>>
    BY <1>w, <1>6 DEF LinkBecomeFreeH, LinkBecomeFree
  <2>2. started' = started
    <3>1. \A a \in waiting' : a.id <= issued /\ a.id \in Nat
      BY <1>2, <2>1 DEF CalendarOKAt, Entry
    <3> QED BY <1>h, <1>i, <1>1, <3>1, NoneStarted
  <2>3. \A k \in Link : RecordOK(k, w, e.time, busy'[k], pending_chunks[k], offered[k], started[k])
    <3> TAKE k \in Link
    <3>1. CASE k = l
      <4>1. RecordOK(l, w, e.time, FALSE, pending_chunks[l], offered[l], started[l])
        BY <1>2, <1>3, <1>5, RecordFreed
      <4>2. busy'[l] = FALSE
        BY <1>i, <2>1
      <4> QED BY <3>1, <4>1, <4>2
    <3>2. CASE k # l
      <4>1. RecordOK(k, w, e.time, busy[k], pending_chunks[k], offered[k], started[k])
        <5>1. /\ offered[k] \in Seq(OfferRecord) /\ started[k] \in Seq(StartRecord)
              /\ e.time >= e.time
          BY <1>h, <1>2
        <5> QED BY <1>2, <1>4, <1>5, <3>2, <5>1, RecordLater
      <4>2. busy'[k] = busy[k]
        BY <1>i, <2>1, <3>2
      <4> QED BY <4>1, <4>2
    <3> QED BY <3>1, <3>2
  <2>4. HistoryOK(w, e.time, busy', pending_chunks, route, since, offered, started, reached)
    BY <1>h, <1>5, <2>3 DEF HistoryOK
  <2> QED BY <1>1, <2>1, <2>2, <2>4 DEF HInv
<1>7. CASE pending_chunks[l] # <<>>
  <2>c. PICK c : c = Head(pending_chunks[l])
    OBVIOUS
  <2>1. /\ pending_chunks' = [pending_chunks EXCEPT ![l] = Tail(@)]
        /\ ScheduleTransmission(l, c, e.time, w)
    BY <1>w, <1>7, <2>c DEF LinkBecomeFreeH, LinkBecomeFree, ProcessPendingTransmission
  <2>2. c \in Chunk /\ IsPending(c, l)
    BY <1>i, <1>7, <2>c, <2>1, AfterPop
  <2>3. NextLink(route[c]) = l /\ At(w, Arrival(c)) = {}
    BY <1>2, <1>i, <2>2, EventsDiffer DEF PendingForItsRoute, NotInBoth, InFlight
  <2>y. PICK y : y = [chunk |-> c, time |-> e.time,
                      arrives |-> e.time + communication_delay(l, c)]
    OBVIOUS
  <2>x. /\ y \in StartRecord /\ y.chunk = c
        /\ y.arrives = e.time + communication_delay(l, c)
    BY <1>2, <2>2, <2>y, DelayTypes DEF StartRecord
  <2>4. started' = [started EXCEPT ![l] = Append(@, y)]
    <3>1. \A a \in w : a.id <= issued /\ a.id \in Nat
      BY <1>2 DEF CalendarOKAt, Entry
    <3>2. NextLink(route'[c]) = l
      BY <1>1, <2>3
    <3>3. started' = [started EXCEPT ![l] = Append(@,
             [chunk |-> c, time |-> e.time, arrives |-> e.time + communication_delay(l, c)])]
      BY <1>h, <1>i, <1>1, <1>2, <2>1, <2>2, <3>1, <3>2, OneStarted
    <3> QED BY <2>y, <3>3
  <2>5. /\ started' \in [Link -> Seq(StartRecord)]
        /\ started'[l] = Append(started[l], y)
        /\ \A k \in Link \ {l} : started'[k] = started[k]
    <3>1. Append(started[l], y) \in Seq(StartRecord)
      BY <1>h, <2>x, AppendFacts
    <3> QED BY <1>h, <2>4, <3>1
  <2>t. PICK t \in Nat : t = e.time
    BY <1>2
  <2>s. ScheduleTransmission(l, c, t, w) /\ At(w, Free(l)) = {}
    BY <1>3, <2>1, <2>t
  <2>6. PICK a : /\ At(waiting', Arrival(c)) = {a}
                 /\ a.id = issued + 1 /\ a.time = e.time + communication_delay(l, c)
    BY <1>i, <2>2, <2>3, <2>s, <2>t, TransmissionEntries
  <2>7. /\ \A f \in At(waiting', Free(l)) : f.time = e.time + serialization_delay(l, c)
        /\ \A ev : ev # Arrival(c) /\ ev # Free(l) => At(waiting', ev) = At(w, ev)
    BY <1>i, <2>2, <2>3, <2>s, <2>t, TransmissionEntries
  <2>8. /\ \A d \in Chunk : d # c => At(waiting', Arrival(d)) = At(w, Arrival(d))
        /\ \A k \in Link : k # l => At(waiting', Free(k)) = At(waiting, Free(k))
    BY <1>4, <2>7, EventsDiffer
  <2>9. /\ \A k \in Link : busy'[k] = busy[k]
        /\ pending_chunks'[l] = Tail(pending_chunks[l])
        /\ \A k \in Link \ {l} : pending_chunks'[k] = pending_chunks[k]
    BY <1>3, <1>i, <2>1 DEF ScheduleTransmission
  <2>10. \A k \in Link : RecordOK(k, waiting', e.time, busy'[k], pending_chunks'[k], offered[k], started'[k])
    <3> TAKE k \in Link
    <3>1. offered[k] \in Seq(OfferRecord) /\ started[k] \in Seq(StartRecord)
      BY <1>h
    <3>2. CASE k = l
      <4>1. RecordOK(l, waiting', e.time, busy[l], Tail(pending_chunks[l]), offered[l],
              Append(started[l], y))
        <5>1. pending_chunks[l] \in Seq(Chunk)
          BY <1>i
        <5>2. RecordOK(l, waiting, e.time, busy[l], pending_chunks[l], offered[l], started[l])
          BY <1>5
        <5> QED BY <1>2, <1>3, <1>7, <2>c, <2>y, <2>7, <3>1, <3>2, <5>1, <5>2, RecordNext
      <4> QED BY <2>5, <2>9, <3>2, <4>1
    <3>3. CASE k # l
      <4>1. RecordOK(k, waiting', e.time, busy[k], pending_chunks[k], offered[k], started[k])
        <5>1. e.time >= e.time
          BY <1>2
        <5> QED BY <1>2, <1>5, <2>8, <3>1, <3>3, <5>1, RecordLater
      <4> QED BY <2>5, <2>9, <3>3, <4>1
    <3> QED BY <3>2, <3>3
  <2>11. \A k \in Link : WholeLatency(k) => Crossing(k, waiting', route, started'[k], reached[k])
    <3> SUFFICES ASSUME NEW k \in Link, WholeLatency(k)
                 PROVE  Crossing(k, waiting', route, started'[k], reached[k])
      OBVIOUS
    <3>1. /\ Crossing(k, w, route, started[k], reached[k])
          /\ started[k] \in Seq(StartRecord) /\ reached[k] \in Seq(Chunk)
      BY <1>h, <1>5
    <3>2. CASE k = l
      <4>1. Crossing(l, waiting', route, Append(started[l], y), reached[l])
        <5>1. /\ Crossing(l, w, route, started[l], reached[l])
              /\ started[l] \in Seq(StartRecord) /\ reached[l] \in Seq(Chunk)
          BY <3>1, <3>2
        <5>2. y \in StartRecord /\ c = y.chunk /\ a.time = y.arrives /\ a.id = issued + 1
          BY <2>x, <2>6
        <5>3. issued \in Nat /\ w \in SUBSET Entry /\ \A f \in w : f.id <= issued
          BY <1>i, <1>2 DEF CalendarOKAt
        <5>4. /\ At(waiting', Arrival(c)) = {a}
              /\ \A d \in Chunk : d # c => At(waiting', Arrival(d)) = At(w, Arrival(d))
          BY <2>6, <2>8
        <5> QED BY <2>3, <5>1, <5>2, <5>3, <5>4, CrossingStarted
      <4> QED BY <2>5, <3>2, <4>1
    <3>3. CASE k # l
      <4>1. Crossing(k, waiting', route, started[k], reached[k])
        BY <2>2, <2>3, <2>8, <3>1, <3>3, CrossingStartedElsewhere
      <4> QED BY <2>5, <3>3, <4>1
    <3> QED BY <3>2, <3>3
  <2>12. CrossesInTime(waiting', e.time, route, since)
    <3>1. /\ CrossesInTime(w, t, route, since) /\ since \in [Chunk -> Nat]
          /\ c \in Chunk /\ NextLink(route[c]) = l
      BY <1>h, <1>5, <2>2, <2>3, <2>t
    <3>2. /\ At(waiting', Arrival(c)) = {a} /\ a.time = t + communication_delay(l, c)
          /\ \A d \in Chunk : d # c => At(waiting', Arrival(d)) = At(w, Arrival(d))
      BY <2>6, <2>8, <2>t
    <3>3. CrossesInTime(waiting', t, route, since)
      BY <3>1, <3>2, CrossesInTimeStarted
    <3> QED BY <2>t, <3>3
  <2>13. HistoryOK(waiting', e.time, busy', pending_chunks', route, since, offered, started', reached)
    BY <1>h, <2>5, <2>10, <2>11, <2>12 DEF HistoryOK
  <2> QED BY <1>1, <2>13 DEF HInv
<1> QED BY <1>6, <1>7

LEMMA HistoryInit == InitH => IInv /\ HInv
<1> SUFFICES ASSUME InitH PROVE IInv /\ HInv
  OBVIOUS
<1>1. /\ Init /\ now = 0 /\ waiting = {}
      /\ busy = [l \in Link |-> FALSE] /\ pending_chunks = [l \in Link |-> <<>>]
      /\ since = [c \in Chunk |-> 0]
      /\ offered = [l \in Link |-> <<>>] /\ started = [l \in Link |-> <<>>]
      /\ reached = [l \in Link |-> <<>>]
  BY DEF InitH, Init
<1>2. Len(<<>>) = 0 /\ 1..0 = {}
  OBVIOUS
<1>3. \A ev : At(waiting, ev) = {}
  BY <1>1 DEF At
<1>4. \A l \in Link : RecordOK(l, waiting, 0, FALSE, <<>>, <<>>, <<>>)
  BY <1>2, <1>3 DEF RecordOK, Matches, InTime, NoOverlap, EndOfLast
<1>5. \A l \in Link : Crossing(l, waiting, route, <<>>, <<>>)
  BY <1>2, <1>3 DEF Crossing
<1>6. CrossesInTime(waiting, now, route, since)
  BY <1>1, <1>3 DEF CrossesInTime
<1>7. /\ since \in [Chunk -> Nat]
      /\ offered \in [Link -> Seq(OfferRecord)]
      /\ started \in [Link -> Seq(StartRecord)]
      /\ reached \in [Link -> Seq(Chunk)]
  <2>1. <<>> \in Seq(OfferRecord) /\ <<>> \in Seq(StartRecord) /\ <<>> \in Seq(Chunk)
    OBVIOUS
  <2> QED BY <1>1, <2>1
<1>8. HInv
  <2>1. \A l \in Link :
           RecordOK(l, waiting, now, busy[l], pending_chunks[l], offered[l], started[l])
    BY <1>1, <1>4
  <2>2. \A l \in Link : Crossing(l, waiting, route, started[l], reached[l])
    BY <1>1, <1>5
  <2> QED BY <1>6, <1>7, <2>1, <2>2 DEF HInv, HistoryOK
<1> QED BY <1>1, <1>8, InvInit

(* A step of the network with its history is one of the network. *)
LEMMA HistoryFollows == [NextH]_varsH => [Next]_vars
<1>1. NextH => Next
  BY DEF NextH, Next, RunNextEventH, RunNextEvent, Handle, SendH, ChunkArrivedNextDeviceH,
     LinkBecomeFreeH
<1>2. UNCHANGED varsH => UNCHANGED vars
  BY DEF varsH
<1> QED BY <1>1, <1>2

LEMMA HistoryStep == IInv /\ HInv /\ [NextH]_varsH => IInv' /\ HInv'
<1> SUFFICES ASSUME IInv, HInv, [NextH]_varsH PROVE IInv' /\ HInv'
  OBVIOUS
<1>1. IInv'
  BY HistoryFollows, InvStep
<1>2. ASSUME NEW c \in Chunk, NEW r \in Routes, NEW t \in 0..LastSend, SendH(c, r, t)
      PROVE  HInv'
  BY <1>2, SendHStep
<1>3. ASSUME NEW e \in waiting, NEW c \in Chunk, ChunkArrivedNextDeviceH(e, c)
      PROVE  HInv'
  BY <1>3, ArrivedHStep
<1>4. ASSUME NEW e \in waiting, NEW l \in Link, LinkBecomeFreeH(e, l)
      PROVE  HInv'
  BY <1>4, FreedHStep
<1>5. ASSUME UNCHANGED varsH PROVE HInv'
  BY <1>5 DEF varsH, vars, history, HInv
<1> QED BY <1>1, <1>2, <1>3, <1>4, <1>5 DEF NextH, RunNextEventH

(* The invariant of the network holds with the history, and the history      *)
(* agrees with the network in every state.                                   *)
THEOREM HistoryInvariant == SpecH => [](IInv /\ HInv)
BY HistoryInit, HistoryStep, PTL DEF SpecH

-----------------------------------------------------------------------------
(* Every link serves the chunks in the order they were handed to it, whether *)
(* they had to wait or not.                                                  *)
THEOREM LinksServeInOrder == SpecH => []ServedInOrder
<1>1. IInv /\ HInv => ServedInOrder
  <2> SUFFICES ASSUME IInv, HInv, NEW l \in Link
               PROVE  IsPrefix(ChunksOf(started[l]), ChunksOf(offered[l]))
    BY DEF ServedInOrder
  <2>1. RecordOK(l, waiting, now, busy[l], pending_chunks[l], offered[l], started[l])
    BY DEF HInv, HistoryOK
  <2>2. /\ offered[l] \in Seq(OfferRecord) /\ started[l] \in Seq(StartRecord)
        /\ pending_chunks[l] \in Seq(Chunk) /\ now \in Nat
    BY DEF HInv, HistoryOK, IInv, TypeOK
  <2> QED BY <2>1, <2>2, RecordsTellOrder
<1> QED BY <1>1, HistoryInvariant, PTL

(* A transmission begins when its chunk is handed to the link or when the one *)
(* before it ends, whichever is later: no link idles while chunks wait for    *)
(* it, and none carries two at once.                                          *)
THEOREM LinksConserveWork == SpecH => []WorkConserving
<1>1. HInv => WorkConserving
  <2> SUFFICES ASSUME HInv, NEW l \in Link, NEW i \in 1..Len(started[l])
               PROVE  started[l][i].time = LaterOf(offered[l][i].time,
                        IF i = 1 THEN 0 ELSE EndOf(l, started[l][i - 1]))
    BY DEF WorkConserving
  <2>1. InTime(l, offered[l], started[l])
    BY DEF HInv, HistoryOK, RecordOK
  <2> QED BY <2>1 DEF InTime
<1> QED BY <1>1, HistoryInvariant, PTL

(* A chunk reaches the other end of a link at most one ns before one that was *)
(* transmitted ahead of it, and never on a link with a latency in whole ns.   *)
THEOREM OvertakingIsRounding == SpecH => []OvertakesByRounding
<1>1. IInv /\ HInv => OvertakesByRounding
  <2> SUFFICES ASSUME IInv, HInv, NEW l \in Link
               PROVE  /\ \A i, j \in 1..Len(started[l]) :
                            i < j => started[l][j].arrives + 1 >= started[l][i].arrives
                      /\ WholeLatency(l) => IsPrefix(reached[l], ChunksOf(started[l]))
    BY DEF OvertakesByRounding
  <2>1. RecordOK(l, waiting, now, busy[l], pending_chunks[l], offered[l], started[l])
    BY DEF HInv, HistoryOK
  <2>2. /\ offered[l] \in Seq(OfferRecord) /\ started[l] \in Seq(StartRecord)
        /\ reached[l] \in Seq(Chunk) /\ now \in Nat
    BY DEF HInv, HistoryOK, IInv, TypeOK
  <2>3. \A i, j \in 1..Len(started[l]) :
           i < j => started[l][j].arrives + 1 >= started[l][i].arrives
    BY <2>1, <2>2, ArrivalsInOrder
  <2>4. ASSUME WholeLatency(l) PROVE IsPrefix(reached[l], ChunksOf(started[l]))
    <3>1. PICK m : m = reached[l]
      OBVIOUS
    <3>2. PICK u : u = ChunksOf(started[l])
      OBVIOUS
    <3>3. /\ u \in Seq(Chunk) /\ Len(u) = Len(started[l])
          /\ \A i \in 1..Len(started[l]) : u[i] = started[l][i].chunk
      BY <2>2, <3>2, ChunksOfFacts
    <3>4. /\ m \in Seq(Chunk) /\ Len(m) <= Len(started[l])
          /\ \A i \in 1..Len(m) : m[i] = started[l][i].chunk
      BY <2>2, <2>4, <3>1 DEF HInv, HistoryOK, Crossing
    <3>5. Len(m) <= Len(u) /\ \A i \in 1..Len(m) : i \in 1..Len(started[l])
      BY <3>3, <3>4, <2>2
    <3>6. \A i \in 1..Len(m) : m[i] = u[i]
      BY <3>3, <3>4, <3>5
    <3> QED BY <3>1, <3>2, <3>3, <3>4, <3>5, <3>6, PrefixIs
  <2> QED BY <2>3, <2>4
<1> QED BY <1>1, HistoryInvariant, PTL

-----------------------------------------------------------------------------
(* Delivery *)

(* Once the communication delay is over, the hop was long enough. *)
LEMMA LongEnoughAfterDelay ==
  ASSUME NEW l \in Link, NEW c \in Chunk, NEW u \in Nat, NEW t \in Nat,
         t >= u + communication_delay(l, c)
  PROVE  Promise!LongEnough(l, c, u, t)
<1> DEFINE L == Latency[l]
           B == Bandwidth[l]
           S == Size[c]
           R == Resolution
           n == L * B + S * R
<1>1. L \in Nat /\ B \in Nat \ {0} /\ S \in Nat /\ R \in Nat \ {0}
  BY DelaysAssumption
<1>2. communication_delay(l, c) = n \div (B * R)
  BY DEF communication_delay
<1>3. Promise!LongEnough(l, c, u, t) <=> (t - u + 1) * B * R > n
  BY DEF Promise!LongEnough
<1> HIDE DEF L, B, S, R, n
<1>4. n \in Nat
  BY <1>1 DEF n
<1>5. PICK d : d = B * R
  OBVIOUS
<1>6. d \in Nat \ {0}
  BY <1>1, <1>5
<1>7. PICK q \in Nat : q = n \div d /\ n < q * d + d
  BY <1>4, <1>6, DivBounds
<1>8. PICK k \in Nat : t - u = q + k
  <2>1. t >= u + q
    BY <1>2, <1>5, <1>7
  <2>2. t - u - q \in Nat /\ t - u = q + (t - u - q)
    BY <2>1
  <2> QED BY <2>2
<1>9. (t - u + 1) * B * R = q * d + d + k * d
  <2>1. (t - u + 1) * B * R = (q + k + 1) * d
    BY <1>1, <1>5, <1>8
  <2>2. (q + k + 1) * d = q * d + d + k * d
    BY <1>6
  <2> QED BY <2>1, <2>2
<1>10. k * d \in Nat /\ q * d \in Nat
  BY <1>6
<1> QED BY <1>3, <1>4, <1>6, <1>7, <1>9, <1>10

LEMMA DeliveryInit == InitH => Promise!Init
BY DEF InitH, Init, Promise!Init

LEMMA DeliveryStep == IInv /\ HInv /\ [NextH]_varsH => [Promise!Next]_(Promise!vars)
<1> SUFFICES ASSUME IInv, HInv, [NextH]_varsH PROVE [Promise!Next]_(Promise!vars)
  OBVIOUS
<1>1. ASSUME NEW c \in Chunk, NEW r \in Routes, NEW t \in 0..LastSend, SendH(c, r, t)
      PROVE  Promise!Next
  <2>1. Promise!Send(c, r)
    BY <1>1 DEF SendH, Send, Promise!Send
  <2>2. now' >= now
    BY <1>1 DEF SendH, Send
  <2> QED BY <2>1, <2>2 DEF Promise!Next
<1>2. ASSUME NEW e \in waiting, NEW c \in Chunk, ChunkArrivedNextDeviceH(e, c)
      PROVE  Promise!Next
  <2>1. /\ IsNext(e, waiting) /\ e.event = Arrival(c) /\ now' = e.time
        /\ route' = [route EXCEPT ![c] = Tail(@)]
        /\ since' = [since EXCEPT ![c] = e.time]
    BY <1>2 DEF ChunkArrivedNextDeviceH, ChunkArrivedNextDevice
  <2>2. e.time \in Nat /\ e.time >= now /\ e \in EntriesFor(Arrival(c))
    BY <2>1, AfterTake DEF IInv
  <2>3. /\ Len(route[c]) >= 2 /\ Len(route[c]) \in Nat
        /\ NextLink(route[c]) \in Link
    BY <2>2, OnItsWay
  <2>4. invoked' = [invoked EXCEPT ![c] = IF Len(route[c]) = 2 THEN @ + 1 ELSE @]
    <3>1. CASE Len(route[c]) = 2
      BY <1>2, <3>1 DEF ChunkArrivedNextDeviceH, ChunkArrivedNextDevice
    <3>2. CASE Len(route[c]) # 2
      <4>1. invoked' = invoked
        BY <1>2, <3>2 DEF ChunkArrivedNextDeviceH, ChunkArrivedNextDevice
      <4>2. invoked \in [Chunk -> Nat]
        BY DEF IInv, TypeOK
      <4> QED BY <3>2, <4>1, <4>2
    <3> QED BY <3>1, <3>2
  <2>5. Promise!LongEnough(NextLink(route[c]), c, since[c], now')
    <3>1. since[c] \in Nat
      BY DEF HInv, HistoryOK
    <3>2. e.time >= since[c] + communication_delay(NextLink(route[c]), c)
      <4>1. e \in At(waiting, Arrival(c))
        BY <2>2, IInvAt
      <4> QED BY <4>1 DEF HInv, HistoryOK, CrossesInTime
    <3>3. PICK u \in Nat : u = since[c]
      BY <3>1
    <3>4. PICK t \in Nat : t = e.time
      BY <2>2
    <3>5. PICK l \in Link : l = NextLink(route[c])
      BY <2>3
    <3>6. Promise!LongEnough(l, c, u, t)
      BY <3>2, <3>3, <3>4, <3>5, LongEnoughAfterDelay
    <3> QED BY <2>1, <3>3, <3>4, <3>5, <3>6
  <2>6. Promise!Hop(c)
    BY <2>1, <2>3, <2>4, <2>5 DEF Promise!Hop, NextLink
  <2> QED BY <2>1, <2>2, <2>6 DEF Promise!Next
<1>3. ASSUME NEW e \in waiting, NEW l \in Link, LinkBecomeFreeH(e, l)
      PROVE  Promise!Next
  <2>1. IsNext(e, waiting) /\ now' = e.time /\ UNCHANGED <<route, invoked, since>>
    BY <1>3 DEF LinkBecomeFreeH, LinkBecomeFree, ProcessPendingTransmission
  <2>2. now' >= now
    BY <2>1, AfterTake DEF IInv
  <2> QED BY <2>1, <2>2 DEF Promise!Next, Promise!Tick
<1>4. CASE UNCHANGED varsH
  BY <1>4 DEF varsH, vars, history, Promise!vars
<1> QED BY <1>1, <1>2, <1>3, <1>4 DEF NextH, RunNextEventH

(* Every step of the network keeps the promise of Delivery: chunks follow     *)
(* their routes hop by hop, no hop is faster than its link, and the callback  *)
(* is invoked with the last one.                                              *)
THEOREM NetworkKeepsItsPromise == SpecH => Promise!Init /\ [][Promise!Next]_(Promise!vars)
BY DeliveryInit, DeliveryStep, HistoryInvariant, PTL DEF SpecH
=============================================================================
