--------------------------- MODULE StreamBudgetProofs ---------------------------
(***************************************************************************)
(* Theorems about StreamBudget, for any connections, frames, limits and    *)
(* reserves: the accounts are exact, the configured budgets hold, a        *)
(* publication that passed its preflight is not refused later, and the     *)
(* reserve of essential control can be used, if it covers the growth of a  *)
(* send vector.                                                            *)
(***************************************************************************)
EXTENDS StreamBudget, FiniteSetLemmas

-----------------------------------------------------------------------------
(* Compaction *)

\* The doubling loop, unrolled
LEMMA DoubledStep ==
    \A k \in Nat : /\ Doubled[k] = IF k = 0 THEN FirstVectors ELSE 2 * Doubled[k - 1]
                   /\ Doubled[k] \in Nat
<1> DEFINE Upto(g, n) == \A k \in 0 .. n : g[k] = IF k = 0 THEN FirstVectors ELSE 2 * g[k - 1]
           G(n) == CHOOSE g \in [Nat -> Nat] : Upto(g, n)
           F == [k \in Nat |-> G(k)[k]]
<1>1. FirstVectors \in Nat
  BY SizesAssumption
<1>2. \A n \in Nat : \E g \in [Nat -> Nat] : Upto(g, n)
  <2> DEFINE Bad == {n \in Nat : ~ \E g \in [Nat -> Nat] : Upto(g, n)}
  <2> SUFFICES ASSUME Bad # {} PROVE FALSE
    OBVIOUS
  <2>1. PICK m \in Bad : \A y \in Bad : m <= y
    <3>1. Bad \subseteq Nat
      OBVIOUS
    <3> HIDE DEF Bad
    <3>2. QED BY <3>1, MinOfNaturals
  <2>2. CASE m = 0
    <3>1. [k \in Nat |-> FirstVectors] \in [Nat -> Nat]
      BY <1>1
    <3>2. Upto([k \in Nat |-> FirstVectors], m)
      BY <2>2
    <3>3. QED BY <3>1, <3>2
  <2>3. CASE m # 0
    <3>1. m \in Nat /\ m - 1 \in Nat
      BY <2>3
    <3>2. m - 1 \notin Bad
      <4>1. ~(m <= m - 1)
        BY <3>1
      <4> HIDE DEF Bad
      <4>2. QED BY <2>1, <4>1
    <3>3. PICK g \in [Nat -> Nat] : Upto(g, m - 1)
      BY <3>1, <3>2
    <3> DEFINE h == [g EXCEPT ![m] = 2 * g[m - 1]]
    <3>4. h \in [Nat -> Nat] /\ h[m] = 2 * g[m - 1] /\ \A k \in Nat \ {m} : h[k] = g[k]
      BY <3>1
    <3> HIDE DEF h
    <3>5. ASSUME NEW k \in 0 .. m
          PROVE  h[k] = IF k = 0 THEN FirstVectors ELSE 2 * h[k - 1]
      <4>1. CASE k = m
        BY <2>3, <3>1, <3>4, <4>1
      <4>2. CASE k # m
        <5>1. k \in 0 .. m - 1 /\ k \in Nat \ {m}
          BY <3>1, <4>2
        <5>2. k # 0 => k - 1 \in Nat \ {m}
          BY <3>1
        <5>3. QED BY <3>3, <3>4, <5>1, <5>2
      <4>3. QED BY <4>1, <4>2
    <3>6. QED BY <3>1, <3>4, <3>5
  <2>4. QED BY <2>2, <2>3
<1>3. ASSUME NEW n \in Nat, NEW g \in [Nat -> Nat], NEW h \in [Nat -> Nat], Upto(g, n), Upto(h, n)
      PROVE  \A k \in 0 .. n : g[k] = h[k]
  <2> DEFINE Bad == {k \in 0 .. n : g[k] # h[k]}
  <2> SUFFICES ASSUME Bad # {} PROVE FALSE
    OBVIOUS
  <2>1. PICK m \in Bad : \A y \in Bad : m <= y
    <3>1. Bad \subseteq Nat
      OBVIOUS
    <3> HIDE DEF Bad
    <3>2. QED BY <3>1, MinOfNaturals
  <2>2. m # 0
    BY <1>3
  <2>3. m - 1 \in 0 .. n /\ m - 1 \notin Bad
    BY <2>1, <2>2
  <2>4. QED BY <1>3, <2>2, <2>3
<1>4. \A n \in Nat : G(n) \in [Nat -> Nat] /\ Upto(G(n), n)
  BY <1>2
<1>5. \A k \in Nat : F[k] = G(k)[k] /\ F[k] \in Nat
  BY <1>4
<1>6. \A k \in Nat : F[k] = IF k = 0 THEN FirstVectors ELSE 2 * F[k - 1]
  <2> SUFFICES ASSUME NEW k \in Nat
               PROVE  F[k] = IF k = 0 THEN FirstVectors ELSE 2 * F[k - 1]
    OBVIOUS
  <2> HIDE DEF F, G
  <2>1. G(k) \in [Nat -> Nat] /\ Upto(G(k), k) /\ k \in 0 .. k
    BY <1>4
  <2>2. CASE k = 0
    BY <1>5, <2>1, <2>2
  <2>3. CASE k # 0
    <3>1. k - 1 \in Nat /\ k - 1 \in 0 .. k - 1 /\ \A j \in 0 .. k - 1 : j \in 0 .. k
      BY <2>3
    <3>2. Upto(G(k), k - 1) /\ Upto(G(k - 1), k - 1) /\ G(k - 1) \in [Nat -> Nat]
      BY <1>4, <2>1, <3>1
    <3>3. G(k)[k - 1] = G(k - 1)[k - 1]
      BY <1>3, <2>1, <3>1, <3>2
    <3>4. QED BY <1>5, <2>1, <2>3, <3>1, <3>3
  <2>4. QED BY <2>2, <2>3
<1>7. F = [k \in Nat |-> IF k = 0 THEN FirstVectors ELSE 2 * F[k - 1]]
  <2>1. F = [k \in Nat |-> F[k]]
    OBVIOUS
  <2> HIDE DEF F
  <2>2. QED BY <1>6, <2>1
<1>8. Doubled = [k \in Nat |-> IF k = 0 THEN FirstVectors ELSE 2 * Doubled[k - 1]]
  <2> HIDE DEF F
  <2>1. QED BY <1>7 DEF Doubled
<1>9. \A k \in Nat : Doubled[k] = IF k = 0 THEN FirstVectors ELSE 2 * Doubled[k - 1]
  BY <1>8
<1>10. \A k \in Nat : Doubled[k] \in Nat
  <2> DEFINE Bad == {k \in Nat : Doubled[k] \notin Nat}
  <2> SUFFICES ASSUME Bad # {} PROVE FALSE
    OBVIOUS
  <2>1. PICK m \in Bad : \A y \in Bad : m <= y
    <3>1. Bad \subseteq Nat
      OBVIOUS
    <3> HIDE DEF Bad
    <3>2. QED BY <3>1, MinOfNaturals
  <2>2. m # 0
    BY <1>1, <1>9
  <2>3. m - 1 \in Nat /\ m - 1 \notin Bad
    BY <2>1, <2>2
  <2>4. QED BY <1>9, <2>2, <2>3
<1>11. QED BY <1>9, <1>10

\* Doubling passes every size in as many steps.
LEMMA DoubledGrows ==
    \A k \in Nat : Doubled[k] \in Nat \ {0} /\ Doubled[k] > k
<1> DEFINE Bad == {k \in Nat : ~(Doubled[k] > k)}
<1>1. \A k \in Nat : Doubled[k] > k
  <2> SUFFICES ASSUME Bad # {} PROVE FALSE
    OBVIOUS
  <2>1. PICK m \in Bad : \A y \in Bad : m <= y
    <3>1. Bad \subseteq Nat
      OBVIOUS
    <3> HIDE DEF Bad
    <3>2. QED BY <3>1, MinOfNaturals
  <2>2. m # 0
    BY DoubledStep, SizesAssumption
  <2>3. m - 1 \in Nat /\ m - 1 \notin Bad
    BY <2>1, <2>2
  <2>4. Doubled[m - 1] > m - 1 /\ Doubled[m - 1] \in Nat /\ Doubled[m] = 2 * Doubled[m - 1]
    BY <2>2, <2>3, DoubledStep
  <2>5. QED BY <2>2, <2>4
<1>2. QED BY <1>1, DoubledStep

\* Compaction never grows a vector.
LEMMA CompactedShrinks ==
    ASSUME NEW cap \in Nat, NEW n \in Nat
    PROVE  Compacted(cap, n) \in Nat /\ Compacted(cap, n) <= cap
<1> DEFINE S == {m \in {Doubled[k] : k \in 0 .. n} : m >= n}
<1>1. CASE n = 0
  BY <1>1 DEF Compacted
<1>2. CASE n # 0 /\ ~(cap > FirstVectors /\ n <= cap \div 4)
  BY <1>2 DEF Compacted
<1>3. CASE n # 0 /\ cap > FirstVectors /\ n <= cap \div 4
  <2>1. Compacted(cap, n) = Min(S)
    BY <1>3 DEF Compacted
  <2>2. \A k \in 0 .. n : k \in Nat /\ Doubled[k] \in Nat \ {0} /\ Doubled[k] > k
    BY DoubledGrows
  <2>3. S \subseteq Nat
    BY <2>2
  <2>4. Doubled[n] \in S
    BY <2>2
  <2>5. Min(S) \in S /\ \A y \in S : Min(S) <= y
    <3> HIDE DEF S
    <3> QED BY <2>3, <2>4, MinOfNaturals
  <2>6. PICK k \in 0 .. n : Min(S) = Doubled[k]
    BY <2>5
  <2>7. CASE k = 0
    BY <1>3, <2>1, <2>6, <2>7, DoubledStep, SizesAssumption
  <2>8. CASE k # 0
    <3>1. k - 1 \in 0 .. n /\ k \in Nat
      BY <2>8
    <3>2. Doubled[k] = 2 * Doubled[k - 1]
      BY <2>8, <3>1, DoubledStep
    <3>3. Doubled[k - 1] \in Nat \ {0} /\ Doubled[k] \in Nat
      BY <2>2, <3>1
    <3>4. ~(Doubled[k - 1] >= n)
      <4>1. Doubled[k - 1] >= n => Doubled[k - 1] \in S
        BY <3>1
      <4>2. Doubled[k - 1] < Min(S)
        <5> HIDE DEF S
        <5> QED BY <2>6, <3>2, <3>3
      <4>3. Min(S) \in Nat
        BY <2>3, <2>5
      <4> HIDE DEF S
      <4>4. QED BY <2>5, <3>3, <4>1, <4>2, <4>3
    <3>5. 4 * n <= cap
      BY <1>3
    <3> DEFINE d == Doubled[k - 1]
    <3>6. d \in Nat /\ d < n /\ Min(S) = 2 * d
      BY <2>6, <3>2, <3>3, <3>4
    <3> HIDE DEF d, S
    <3>7. QED BY <2>1, <3>5, <3>6
  <2>9. QED BY <2>7, <2>8
<1>4. QED BY <1>1, <1>2, <1>3

-----------------------------------------------------------------------------
(* The books of the retained frames *)

Typed ==
    /\ queue \in [Streams -> Seq(Frame)]
    /\ capacity \in [Streams -> Nat] /\ retained \in [Streams -> Nat]
    /\ bytes \in Nat /\ vectors \in Nat /\ frames \in Nat

Books == Typed /\ ChargesExact /\ BudgetsHold

LEMMA StreamsFinite == IsFiniteSet(Streams)
<1>1. IsFiniteSet({"track"})
  BY FS_Singleton
<1>2. IsFiniteSet({"track"} \cup {"control"})
  BY <1>1, FS_AddElement
<1>3. {"track"} \cup {"control"} = {"control", "track"}
  OBVIOUS
<1>4. QED BY <1>2, <1>3, SizesAssumption, FS_Product DEF Streams

LEMMA FrameSizes == \A x \in Frame : x.size \in Nat
BY DEF Frame

LEMMA TotalSizeNat ==
    ASSUME NEW p \in Seq(Frame)
    PROVE  TotalSize(p) \in Nat /\ TotalSize(p) = SizeSum(p)
<1>1. TotalSize(p) = SizeSum(p)
  BY DEF TotalSize, SumFunction, SizeSum
<1>2. QED BY <1>1, FrameSizes, SizeSumNat

\* The bytes of n entries of a send vector.  The proofs use the product only
\* through the next lemma.
Space(n) == n * VectorSize

LEMMA SpaceAdds ==
    ASSUME NEW a \in Nat, NEW b \in Nat
    PROVE  /\ Space(a) \in Nat /\ Space(b) \in Nat
           /\ Space(a + b) = Space(a) + Space(b)
           /\ b <= a => Space(a - b) = Space(a) - Space(b) /\ Space(b) <= Space(a)
<1>1. VectorSize \in Nat
  BY SizesAssumption
<1>2. a * VectorSize \in Nat /\ b * VectorSize \in Nat
  BY <1>1
<1>3. (a + b) * VectorSize = a * VectorSize + b * VectorSize
  BY <1>1
<1>4. ASSUME b <= a
      PROVE  (a - b) * VectorSize = a * VectorSize - b * VectorSize /\ b * VectorSize <= a * VectorSize
  <2> DEFINE c == a - b
  <2>1. c \in Nat /\ a = c + b
    BY <1>4
  <2> HIDE DEF c
  <2>2. c * VectorSize \in Nat /\ (c + b) * VectorSize = c * VectorSize + b * VectorSize
    BY <1>1, <2>1
  <2>3. a * VectorSize = c * VectorSize + b * VectorSize
    BY <2>1, <2>2
  <2> DEFINE cv == c * VectorSize
             av == a * VectorSize
             bv == b * VectorSize
  <2>4. cv \in Nat /\ av \in Nat /\ bv \in Nat /\ av = cv + bv
    BY <1>2, <2>2, <2>3
  <2> HIDE DEF cv, av, bv
  <2>5. cv = av - bv /\ bv <= av
    BY <2>4
  <2>6. QED BY <2>5 DEF c, cv, av, bv
<1>5. QED BY <1>2, <1>3, <1>4 DEF Space

LEMMA SpaceOfNone == Space(0) = 0
BY SizesAssumption DEF Space

LEMMA StreamBytesIs ==
    \A s : /\ StreamBytes(s) = retained[s] + Space(capacity[s])
           /\ (StreamBytes(s))' = retained'[s] + Space(capacity'[s])
BY DEF StreamBytes, Space

LEMMA CostIs ==
    \A s, size : Cost(s, size) = size + Space(Growth(s))
BY DEF Cost, Space

LEMMA GrowthNat ==
    ASSUME Typed, NEW s \in Streams, NEW size \in Nat
    PROVE  /\ Growth(s) \in Nat /\ Space(Growth(s)) \in Nat /\ Cost(s, size) \in Nat
           /\ capacity[s] \in Nat /\ Space(capacity[s]) \in Nat
           /\ StreamBytes(s) \in Nat /\ Len(queue[s]) \in Nat /\ retained[s] \in Nat
           /\ queue[s] \in Seq(Frame)
<1>1. /\ capacity[s] \in Nat /\ retained[s] \in Nat /\ queue[s] \in Seq(Frame)
      /\ FirstVectors \in Nat
  BY SizesAssumption DEF Typed
<1>2. Len(queue[s]) \in Nat
  BY <1>1, LenProperties
<1>3. Growth(s) \in Nat
  BY <1>1 DEF Growth
<1>4. Space(Growth(s)) \in Nat /\ Space(capacity[s]) \in Nat
  BY <1>1, <1>3, SpaceAdds
<1>5. Cost(s, size) \in Nat
  BY <1>4, CostIs
<1>6. StreamBytes(s) \in Nat
  BY <1>1, <1>4, StreamBytesIs
<1>7. QED BY <1>1, <1>2, <1>3, <1>4, <1>5, <1>6

LEMMA LimitNat == FrameLimit \in Nat
<1>1. StreamLimit \div MinFrameBytes \in Nat /\ VectorLimit \in Nat
  BY LimitsAssumption
<1>2. QED BY <1>1 DEF FrameLimit

\* The three accounts, as sums over the streams
BytesOf   == [t \in Streams |-> StreamBytes(t)]
VectorsOf == [t \in Streams |-> capacity[t]]
FramesOf  == [t \in Streams |-> Len(queue[t])]

LEMMA AccountsAre ==
    /\ ChargesExact <=> /\ \A t \in Streams : retained[t] = TotalSize(queue[t])
                        /\ bytes = SumFunctionOnSet(BytesOf, Streams)
                        /\ vectors = SumFunctionOnSet(VectorsOf, Streams)
                        /\ frames = SumFunctionOnSet(FramesOf, Streams)
    /\ ChargesExact' <=> /\ \A t \in Streams : retained'[t] = TotalSize(queue'[t])
                         /\ bytes' = SumFunctionOnSet(BytesOf', Streams)
                         /\ vectors' = SumFunctionOnSet(VectorsOf', Streams)
                         /\ frames' = SumFunctionOnSet(FramesOf', Streams)
BY DEF ChargesExact, SumFunction, BytesOf, VectorsOf, FramesOf, TotalSize

\* What the terms are, before and after a step that leaves the streams outside
\* P alone
LEMMA TermsAre ==
    ASSUME Typed, NEW P \in SUBSET Streams,
           queue' \in [Streams -> Seq(Frame)],
           capacity' \in [Streams -> Nat], retained' \in [Streams -> Nat],
           \A t \in Streams \ P : /\ queue'[t] = queue[t] /\ capacity'[t] = capacity[t]
                                  /\ retained'[t] = retained[t]
    PROVE  /\ \A t \in Streams : BytesOf[t] \in Nat /\ BytesOf'[t] \in Nat
           /\ \A t \in Streams : VectorsOf[t] \in Nat /\ VectorsOf'[t] \in Nat
           /\ \A t \in Streams : FramesOf[t] \in Nat /\ FramesOf'[t] \in Nat
           /\ \A t \in Streams \ P : BytesOf[t] = BytesOf'[t]
           /\ \A t \in Streams \ P : VectorsOf[t] = VectorsOf'[t]
           /\ \A t \in Streams \ P : FramesOf[t] = FramesOf'[t]
           /\ \A t \in Streams : /\ BytesOf[t] = StreamBytes(t) /\ BytesOf'[t] = (StreamBytes(t))'
                                 /\ VectorsOf[t] = capacity[t] /\ VectorsOf'[t] = capacity'[t]
                                 /\ FramesOf[t] = Len(queue[t]) /\ FramesOf'[t] = Len(queue'[t])
<1>1. \A t \in Streams : /\ BytesOf[t] = StreamBytes(t) /\ BytesOf'[t] = (StreamBytes(t))'
                         /\ VectorsOf[t] = capacity[t] /\ VectorsOf'[t] = capacity'[t]
                         /\ FramesOf[t] = Len(queue[t]) /\ FramesOf'[t] = Len(queue'[t])
  BY DEF BytesOf, VectorsOf, FramesOf
<1>2. ASSUME NEW t \in Streams
      PROVE  /\ StreamBytes(t) \in Nat /\ (StreamBytes(t))' \in Nat
             /\ capacity[t] \in Nat /\ capacity'[t] \in Nat
             /\ Len(queue[t]) \in Nat /\ Len(queue'[t]) \in Nat
  <2>1. /\ queue[t] \in Seq(Frame) /\ capacity[t] \in Nat /\ retained[t] \in Nat
        /\ queue'[t] \in Seq(Frame) /\ capacity'[t] \in Nat /\ retained'[t] \in Nat
    BY DEF Typed
  <2>2. Space(capacity[t]) \in Nat /\ Space(capacity'[t]) \in Nat
    BY <2>1, SpaceAdds
  <2>3. StreamBytes(t) \in Nat /\ (StreamBytes(t))' \in Nat
    BY <2>1, <2>2, StreamBytesIs
  <2>4. QED BY <2>1, <2>3, LenProperties
<1>3. \A t \in Streams \ P : StreamBytes(t) = (StreamBytes(t))'
  BY StreamBytesIs
<1>4. \A t \in Streams : BytesOf[t] \in Nat /\ BytesOf'[t] \in Nat
  BY <1>1, <1>2
<1>5. \A t \in Streams : VectorsOf[t] \in Nat /\ VectorsOf'[t] \in Nat
  BY <1>1, <1>2
<1>6. \A t \in Streams : FramesOf[t] \in Nat /\ FramesOf'[t] \in Nat
  BY <1>1, <1>2
<1>7. \A t \in Streams \ P : BytesOf[t] = BytesOf'[t]
  BY <1>1, <1>3
<1>8. \A t \in Streams \ P : VectorsOf[t] = VectorsOf'[t] /\ FramesOf[t] = FramesOf'[t]
  BY <1>1
<1>9. QED BY <1>1, <1>4, <1>5, <1>6, <1>7, <1>8

\* The accounts move by the terms of the stream that changes.
LEMMA AccountsMove ==
    ASSUME NEW s \in Streams,
           \A t \in Streams : BytesOf[t] \in Nat /\ BytesOf'[t] \in Nat,
           \A t \in Streams : VectorsOf[t] \in Nat /\ VectorsOf'[t] \in Nat,
           \A t \in Streams : FramesOf[t] \in Nat /\ FramesOf'[t] \in Nat,
           \A t \in Streams \ {s} : BytesOf[t] = BytesOf'[t],
           \A t \in Streams \ {s} : VectorsOf[t] = VectorsOf'[t],
           \A t \in Streams \ {s} : FramesOf[t] = FramesOf'[t]
    PROVE  /\ SumFunctionOnSet(BytesOf', Streams) \in Nat
           /\ SumFunctionOnSet(BytesOf', Streams) =
                SumFunctionOnSet(BytesOf, Streams) - BytesOf[s] + BytesOf'[s]
           /\ SumFunctionOnSet(VectorsOf', Streams) \in Nat
           /\ SumFunctionOnSet(VectorsOf', Streams) =
                SumFunctionOnSet(VectorsOf, Streams) - VectorsOf[s] + VectorsOf'[s]
           /\ SumFunctionOnSet(FramesOf', Streams) \in Nat
           /\ SumFunctionOnSet(FramesOf', Streams) =
                SumFunctionOnSet(FramesOf, Streams) - FramesOf[s] + FramesOf'[s]
<1>1. \A t \in Streams : BytesOf[t] \in Int /\ BytesOf'[t] \in Int
  OBVIOUS
<1>2. SumFunctionOnSet(BytesOf', Streams) =
         SumFunctionOnSet(BytesOf, Streams) - BytesOf[s] + BytesOf'[s]
  BY <1>1, StreamsFinite, SumUpdate
<1>3. SumFunctionOnSet(BytesOf', Streams) \in Nat
  BY <1>1, StreamsFinite, SumType
<1>4. \A t \in Streams : VectorsOf[t] \in Int /\ VectorsOf'[t] \in Int
  OBVIOUS
<1>5. SumFunctionOnSet(VectorsOf', Streams) =
         SumFunctionOnSet(VectorsOf, Streams) - VectorsOf[s] + VectorsOf'[s]
  BY <1>4, StreamsFinite, SumUpdate
<1>6. SumFunctionOnSet(VectorsOf', Streams) \in Nat
  BY <1>4, StreamsFinite, SumType
<1>7. \A t \in Streams : FramesOf[t] \in Int /\ FramesOf'[t] \in Int
  OBVIOUS
<1>8. SumFunctionOnSet(FramesOf', Streams) =
         SumFunctionOnSet(FramesOf, Streams) - FramesOf[s] + FramesOf'[s]
  BY <1>7, StreamsFinite, SumUpdate
<1>9. SumFunctionOnSet(FramesOf', Streams) \in Nat
  BY <1>7, StreamsFinite, SumType
<1>10. QED BY <1>2, <1>3, <1>5, <1>6, <1>8, <1>9

\* One stream changes, and the accounts by the difference.
Charges(s, q, cap, r) ==
    /\ queue' = [queue EXCEPT ![s] = q] /\ capacity' = [capacity EXCEPT ![s] = cap]
    /\ retained' = [retained EXCEPT ![s] = r]
    /\ bytes' = bytes - StreamBytes(s) + (r + Space(cap))
    /\ vectors' = vectors - capacity[s] + cap
    /\ frames' = frames - Len(queue[s]) + Len(q)

Charged(s, q, cap, r) ==
    /\ Typed' /\ ChargesExact'
    /\ \A t \in Streams \ {s} : /\ queue'[t] = queue[t] /\ capacity'[t] = capacity[t]
                                /\ retained'[t] = retained[t]
    /\ queue'[s] = q /\ capacity'[s] = cap /\ retained'[s] = r
    /\ StreamBytes(s)' = r + Space(cap)

LEMMA OneStream ==
    ASSUME Typed, ChargesExact, NEW s \in Streams,
           NEW q \in Seq(Frame), NEW cap \in Nat, NEW r \in Nat, r = TotalSize(q),
           Charges(s, q, cap, r)
    PROVE  Charged(s, q, cap, r)
<1> SUFFICES /\ Typed' /\ ChargesExact'
             /\ \A t \in Streams \ {s} : /\ queue'[t] = queue[t] /\ capacity'[t] = capacity[t]
                                         /\ retained'[t] = retained[t]
             /\ queue'[s] = q /\ capacity'[s] = cap /\ retained'[s] = r
             /\ (StreamBytes(s))' = r + Space(cap)
  BY DEF Charged
<1>0. /\ queue' = [queue EXCEPT ![s] = q] /\ capacity' = [capacity EXCEPT ![s] = cap]
      /\ retained' = [retained EXCEPT ![s] = r]
      /\ bytes' = bytes - StreamBytes(s) + (r + Space(cap))
      /\ vectors' = vectors - capacity[s] + cap
      /\ frames' = frames - Len(queue[s]) + Len(q)
  BY DEF Charges
<1> USE <1>0
<1>1. /\ queue \in [Streams -> Seq(Frame)]
      /\ capacity \in [Streams -> Nat] /\ retained \in [Streams -> Nat]
  BY DEF Typed
<1>2. /\ \A t \in Streams \ {s} : /\ queue'[t] = queue[t] /\ capacity'[t] = capacity[t]
                                  /\ retained'[t] = retained[t]
      /\ queue'[s] = q /\ capacity'[s] = cap /\ retained'[s] = r
  BY <1>1
<1>3. /\ queue' \in [Streams -> Seq(Frame)]
      /\ capacity' \in [Streams -> Nat] /\ retained' \in [Streams -> Nat]
  BY <1>1
<1>4. (StreamBytes(s))' = r + Space(cap)
  BY <1>2, StreamBytesIs
<1>5. /\ \A t \in Streams : BytesOf[t] \in Nat /\ BytesOf'[t] \in Nat
      /\ \A t \in Streams : VectorsOf[t] \in Nat /\ VectorsOf'[t] \in Nat
      /\ \A t \in Streams : FramesOf[t] \in Nat /\ FramesOf'[t] \in Nat
      /\ \A t \in Streams \ {s} : BytesOf[t] = BytesOf'[t]
      /\ \A t \in Streams \ {s} : VectorsOf[t] = VectorsOf'[t]
      /\ \A t \in Streams \ {s} : FramesOf[t] = FramesOf'[t]
      /\ BytesOf[s] = StreamBytes(s) /\ BytesOf'[s] = r + Space(cap)
      /\ VectorsOf[s] = capacity[s] /\ VectorsOf'[s] = cap
      /\ FramesOf[s] = Len(queue[s]) /\ FramesOf'[s] = Len(q)
  <2>1. {s} \in SUBSET Streams
    OBVIOUS
  <2> DEFINE P == {s}
  <2>2. \A t \in Streams \ P : /\ queue'[t] = queue[t] /\ capacity'[t] = capacity[t]
                               /\ retained'[t] = retained[t]
    BY <1>2
  <2>3. P \in SUBSET Streams
    BY <2>1
  <2> HIDE DEF P
  <2>4. /\ \A t \in Streams : BytesOf[t] \in Nat /\ BytesOf'[t] \in Nat
        /\ \A t \in Streams : VectorsOf[t] \in Nat /\ VectorsOf'[t] \in Nat
        /\ \A t \in Streams : FramesOf[t] \in Nat /\ FramesOf'[t] \in Nat
        /\ \A t \in Streams \ P : BytesOf[t] = BytesOf'[t]
        /\ \A t \in Streams \ P : VectorsOf[t] = VectorsOf'[t]
        /\ \A t \in Streams \ P : FramesOf[t] = FramesOf'[t]
        /\ \A t \in Streams : /\ BytesOf[t] = StreamBytes(t) /\ BytesOf'[t] = (StreamBytes(t))'
                              /\ VectorsOf[t] = capacity[t] /\ VectorsOf'[t] = capacity'[t]
                              /\ FramesOf[t] = Len(queue[t]) /\ FramesOf'[t] = Len(queue'[t])
    BY <1>3, <2>2, <2>3, TermsAre
  <2>5. QED BY <1>2, <1>4, <2>4 DEF P
<1>6. /\ bytes = SumFunctionOnSet(BytesOf, Streams)
      /\ vectors = SumFunctionOnSet(VectorsOf, Streams)
      /\ frames = SumFunctionOnSet(FramesOf, Streams)
      /\ \A t \in Streams : retained[t] = TotalSize(queue[t])
  BY AccountsAre
<1>sums. /\ SumFunctionOnSet(BytesOf', Streams) \in Nat
      /\ SumFunctionOnSet(BytesOf', Streams) =
           SumFunctionOnSet(BytesOf, Streams) - BytesOf[s] + BytesOf'[s]
      /\ SumFunctionOnSet(VectorsOf', Streams) \in Nat
      /\ SumFunctionOnSet(VectorsOf', Streams) =
           SumFunctionOnSet(VectorsOf, Streams) - VectorsOf[s] + VectorsOf'[s]
      /\ SumFunctionOnSet(FramesOf', Streams) \in Nat
      /\ SumFunctionOnSet(FramesOf', Streams) =
           SumFunctionOnSet(FramesOf, Streams) - FramesOf[s] + FramesOf'[s]
  BY <1>5, AccountsMove
<1>7. bytes' \in Nat /\ bytes' = SumFunctionOnSet(BytesOf', Streams)
  <2>1. bytes' = bytes - BytesOf[s] + BytesOf'[s]
    BY <1>5
  <2>2. QED BY <1>6, <1>sums, <2>1
<1>8. vectors' \in Nat /\ vectors' = SumFunctionOnSet(VectorsOf', Streams)
  <2>1. vectors' = vectors - VectorsOf[s] + VectorsOf'[s]
    BY <1>5
  <2>2. QED BY <1>6, <1>sums, <2>1
<1>9. frames' \in Nat /\ frames' = SumFunctionOnSet(FramesOf', Streams)
  <2>1. frames' = frames - FramesOf[s] + FramesOf'[s]
    BY <1>5
  <2>2. QED BY <1>6, <1>sums, <2>1
<1>10. \A t \in Streams : retained'[t] = TotalSize(queue'[t])
  BY <1>2, <1>6
<1>11. Typed'
  BY <1>3, <1>7, <1>8, <1>9 DEF Typed
<1>12. ChargesExact'
  BY <1>7, <1>8, <1>9, <1>10, AccountsAre
<1>13. QED BY <1>2, <1>4, <1>11, <1>12

\* What an admission promises
LEMMA Admitted ==
    ASSUME Typed, NEW s \in Streams, NEW size \in Nat, NEW preserve \in BOOLEAN,
           CanAccept(s, size, preserve)
    PROVE  /\ Len(queue[s]) + 1 <= FrameLimit
           /\ StreamBytes(s) + Cost(s, size) <= StreamLimit
           /\ bytes + Cost(s, size) <= EndpointLimit
           /\ vectors + Growth(s) <= VectorLimit
<1>1. /\ Growth(s) \in Nat /\ Cost(s, size) \in Nat /\ StreamBytes(s) \in Nat
      /\ Len(queue[s]) \in Nat /\ bytes \in Nat /\ vectors \in Nat /\ FrameLimit \in Nat
  BY GrowthNat, LimitNat DEF Typed
<1> DEFINE rf == IF preserve /\ IsControl(s) THEN ControlFrameReserve ELSE 0
           rb == IF preserve /\ IsControl(s) THEN ControlByteReserve ELSE 0
           eb == IF preserve THEN EndpointByteReserve ELSE 0
           ev == IF preserve THEN VectorReserve ELSE 0
<1>2. /\ Len(queue[s]) < FrameLimit - rf
      /\ StreamBytes(s) + Cost(s, size) <= StreamLimit - rb
      /\ bytes + Cost(s, size) <= EndpointLimit - eb
      /\ vectors + Growth(s) <= VectorLimit - ev
  BY DEF CanAccept, StreamAccepts, EndpointAccepts
<1>3. /\ rf \in Nat /\ rb \in Nat /\ eb \in Nat /\ ev \in Nat
      /\ StreamLimit \in Nat /\ EndpointLimit \in Nat /\ VectorLimit \in Nat
  BY LimitsAssumption
<1> DEFINE sb == StreamBytes(s)
           cost == Cost(s, size)
           len == Len(queue[s])
           growth == Growth(s)
<1> HIDE DEF rf, rb, eb, ev, sb, cost, len, growth
<1>4. /\ cost \in Nat /\ sb \in Nat /\ len \in Nat /\ growth \in Nat
      /\ bytes \in Nat /\ vectors \in Nat /\ FrameLimit \in Nat
  BY <1>1 DEF sb, cost, len, growth
<1>5. /\ len < FrameLimit - rf /\ sb + cost <= StreamLimit - rb
      /\ bytes + cost <= EndpointLimit - eb /\ vectors + growth <= VectorLimit - ev
  BY <1>2 DEF sb, cost, len, growth
<1>6. /\ len + 1 <= FrameLimit /\ sb + cost <= StreamLimit
      /\ bytes + cost <= EndpointLimit /\ vectors + growth <= VectorLimit
  BY <1>3, <1>4, <1>5
<1>7. QED BY <1>6 DEF sb, cost, len, growth

\* An admitted frame keeps the books.
LEMMA RetainKeeps ==
    ASSUME Books, NEW s \in Streams, NEW frame \in Frame, NEW preserve \in BOOLEAN,
           CanAccept(s, frame.size, preserve), Retain(s, frame)
    PROVE  /\ Books'
           /\ \A t \in Streams \ {s} : /\ queue'[t] = queue[t] /\ capacity'[t] = capacity[t]
                                       /\ retained'[t] = retained[t]
<1> DEFINE q == Append(queue[s], frame)
           cap == capacity[s] + Growth(s)
           r == retained[s] + frame.size
           cost == Cost(s, frame.size)
           sb == StreamBytes(s)
           len == Len(queue[s])
           growth == Growth(s)
<1>1. Typed /\ ChargesExact /\ BudgetsHold /\ frame.size \in Nat
  BY FrameSizes DEF Books
<1>2. /\ growth \in Nat /\ Space(growth) \in Nat /\ cost \in Nat /\ capacity[s] \in Nat
      /\ Space(capacity[s]) \in Nat /\ retained[s] \in Nat /\ sb \in Nat /\ len \in Nat
      /\ queue[s] \in Seq(Frame)
  BY <1>1, GrowthNat
<1>3. bytes \in Nat /\ vectors \in Nat /\ frames \in Nat
  BY <1>1 DEF Typed
<1>4. q \in Seq(Frame) /\ Len(q) = len + 1 /\ cap \in Nat /\ r \in Nat
  <2>1. q \in Seq(Frame) /\ Len(q) = len + 1
    BY <1>2
  <2>2. cap \in Nat
    BY <1>2
  <2>3. r \in Nat
    BY <1>1, <1>2
  <2>4. QED BY <2>1, <2>2, <2>3
<1>5. r = TotalSize(q)
  <2>1. TotalSize(q) = SizeSum(q) /\ TotalSize(queue[s]) = SizeSum(queue[s])
    BY <1>2, <1>4, TotalSizeNat
  <2>2. SizeSum(q) = SizeSum(queue[s]) + frame.size
    BY <1>2, FrameSizes, SizeSumAppend
  <2>3. retained[s] = TotalSize(queue[s])
    BY <1>1 DEF ChargesExact
  <2>4. QED BY <2>1, <2>2, <2>3
<1>6. r + Space(cap) = sb + cost /\ Space(cap) \in Nat
  <2>1. Space(cap) = Space(capacity[s]) + Space(growth)
    BY <1>2, SpaceAdds
  <2>2. sb = retained[s] + Space(capacity[s]) /\ cost = frame.size + Space(growth)
    BY StreamBytesIs, CostIs
  <2> DEFINE a == retained[s]
             b == Space(capacity[s])
             d == Space(growth)
             e == Space(cap)
  <2>3. a \in Nat /\ b \in Nat /\ d \in Nat /\ frame.size \in Nat
    BY <1>1, <1>2
  <2>4. e = b + d /\ sb = a + b /\ cost = frame.size + d /\ r = a + frame.size
    BY <2>1, <2>2
  <2> HIDE DEF a, b, d, e, r, sb, cost
  <2>5. r + e = sb + cost /\ e \in Nat
    BY <2>3, <2>4
  <2>6. QED BY <2>5 DEF e
<1>7. /\ queue' = [queue EXCEPT ![s] = q] /\ capacity' = [capacity EXCEPT ![s] = cap]
      /\ retained' = [retained EXCEPT ![s] = r] /\ bytes' = bytes + cost
      /\ vectors' = vectors + growth /\ frames' = frames + 1
  BY DEF Retain
<1>8. cap = capacity[s] + growth
  OBVIOUS
<1>9. /\ len + 1 <= FrameLimit /\ sb + cost <= StreamLimit
      /\ bytes + cost <= EndpointLimit /\ vectors + growth <= VectorLimit
  BY <1>1, Admitted
<1> HIDE DEF q, cap, r, cost, sb, len, growth
<1>10. /\ bytes' = bytes - sb + (r + Space(cap)) /\ vectors' = vectors - capacity[s] + cap
       /\ frames' = frames - len + Len(q)
  <2>1. bytes' = bytes - sb + (r + Space(cap))
    <3>1. \A a, b, c \in Nat : a + c = (a - b) + (b + c)
      OBVIOUS
    <3>2. bytes + cost = (bytes - sb) + (sb + cost)
      BY <1>2, <1>3, <3>1
    <3>3. QED BY <1>6, <1>7, <3>2
  <2>2. vectors' = vectors - capacity[s] + cap
    BY <1>2, <1>3, <1>7, <1>8
  <2>3. frames' = frames - len + Len(q)
    BY <1>2, <1>3, <1>4, <1>7
  <2>4. QED BY <2>1, <2>2, <2>3
<1>11. /\ bytes' = bytes - StreamBytes(s) + (r + Space(cap))
       /\ frames' = frames - Len(queue[s]) + Len(q)
  BY <1>10 DEF sb, len
<1>12. /\ Typed' /\ ChargesExact'
       /\ \A t \in Streams \ {s} : /\ queue'[t] = queue[t] /\ capacity'[t] = capacity[t]
                                   /\ retained'[t] = retained[t]
       /\ queue'[s] = q /\ capacity'[s] = cap /\ retained'[s] = r
       /\ (StreamBytes(s))' = r + Space(cap)
  <2>1. Charges(s, q, cap, r)
    BY <1>7, <1>10, <1>11 DEF Charges
  <2>2. Charged(s, q, cap, r)
    BY <1>1, <1>4, <1>5, <2>1, OneStream
  <2>3. QED BY <2>2 DEF Charged
<1>13. \A t \in Streams : (StreamBytes(t))' <= StreamLimit /\ Len(queue'[t]) <= FrameLimit
  <2> SUFFICES ASSUME NEW t \in Streams
               PROVE  (StreamBytes(t))' <= StreamLimit /\ Len(queue'[t]) <= FrameLimit
    OBVIOUS
  <2>1. CASE t = s
    BY <1>4, <1>6, <1>9, <1>12, <2>1
  <2>2. CASE t # s
    <3>1. (StreamBytes(t))' = StreamBytes(t) /\ queue'[t] = queue[t]
      BY <1>12, <2>2, StreamBytesIs
    <3>2. StreamBytes(t) <= StreamLimit /\ Len(queue[t]) <= FrameLimit
      BY <1>1 DEF BudgetsHold
    <3>3. QED BY <3>1, <3>2
  <2>3. QED BY <2>1, <2>2
<1>14. BudgetsHold'
  <2>1. bytes' <= EndpointLimit /\ vectors' <= VectorLimit
    BY <1>7, <1>9
  <2>2. FrameLimit' = FrameLimit
    BY DEF FrameLimit
  <2>3. QED BY <1>13, <2>1, <2>2 DEF BudgetsHold
<1>15. QED BY <1>12, <1>14 DEF Books

\* Acknowledged frames leave with what they were charged.
LEMMA ShiftKeeps ==
    ASSUME Books, NEW s \in Streams, NEW n \in 1 .. Len(queue[s]), NEW compacts \in BOOLEAN,
           EgressShift(s, n, compacts)
    PROVE  Books'
<1> DEFINE p == queue[s]
           done == SubSeq(p, 1, n)
           q == SubSeq(p, n + 1, Len(p))
           cap == IF compacts \/ q = <<>> THEN Compacted(capacity[s], Len(q)) ELSE capacity[s]
           r == retained[s] - TotalSize(done)
           sb == StreamBytes(s)
           old == capacity[s]
           left == TotalSize(done)
<1>1. Typed /\ ChargesExact /\ BudgetsHold
  BY DEF Books
<1>2. /\ old \in Nat /\ Space(old) \in Nat /\ retained[s] \in Nat /\ sb \in Nat
      /\ p \in Seq(Frame) /\ Len(p) \in Nat
  BY <1>1, GrowthNat
<1>3. bytes \in Nat /\ vectors \in Nat /\ frames \in Nat
  BY <1>1 DEF Typed
<1>4. n \in 0 .. Len(p)
  BY <1>2
<1>5. /\ done \in Seq(Frame) /\ q \in Seq(Frame) /\ Len(q) = Len(p) - n
      /\ SizeSum(p) = SizeSum(done) + SizeSum(q)
  BY <1>2, <1>4, FrameSizes, SizeSumCut
<1>6. r = TotalSize(q) /\ r \in Nat /\ r <= retained[s] /\ retained[s] = r + left /\ left \in Nat
  <2>1. /\ TotalSize(p) = SizeSum(p) /\ TotalSize(done) = SizeSum(done)
        /\ TotalSize(q) = SizeSum(q) /\ TotalSize(done) \in Nat /\ TotalSize(q) \in Nat
    BY <1>2, <1>5, TotalSizeNat
  <2>2. retained[s] = TotalSize(p)
    BY <1>1 DEF ChargesExact
  <2> DEFINE x == TotalSize(q)
             y == retained[s]
  <2>3. y = left + x /\ left \in Nat /\ x \in Nat /\ r = y - left
    BY <1>5, <2>1, <2>2
  <2> HIDE DEF x, y, left, r
  <2>4. r = x /\ x <= y /\ y = r + left
    BY <2>3
  <2>5. QED BY <2>3, <2>4 DEF x, y
<1>7. cap \in Nat /\ cap <= old
  <2>1. Len(q) \in Nat
    BY <1>5, LenProperties
  <2>2. Compacted(old, Len(q)) \in Nat /\ Compacted(old, Len(q)) <= old
    BY <1>2, <2>1, CompactedShrinks
  <2>3. QED BY <1>2, <2>2
<1>8. /\ queue' = [queue EXCEPT ![s] = q] /\ capacity' = [capacity EXCEPT ![s] = cap]
      /\ retained' = [retained EXCEPT ![s] = r] /\ frames' = frames - n
      /\ bytes' = bytes - left - Space(old - cap) /\ vectors' = vectors - (old - cap)
  BY DEF EgressShift, Credit, Space
<1>9. sb = retained[s] + Space(old)
  BY StreamBytesIs
<1>10. Space(cap) \in Nat /\ Space(old - cap) = Space(old) - Space(cap) /\ Space(cap) <= Space(old)
  <2> HIDE DEF cap, old
  <2>1. QED BY <1>2, <1>7, SpaceAdds
<1> HIDE DEF q, cap, r, sb, old, left, done
<1>11. /\ bytes' = bytes - sb + (r + Space(cap)) /\ vectors' = vectors - old + cap
       /\ frames' = frames - Len(p) + Len(q)
  <2>1. n \in Nat
    OBVIOUS
  <2>2. bytes' = bytes - sb + (r + Space(cap))
    <3> DEFINE a == retained[s]
               b == Space(old)
               c == Space(cap)
               d == Space(old - cap)
    <3>1. /\ a \in Nat /\ b \in Nat /\ c \in Nat /\ sb = a + b /\ d = b - c
          /\ a = r + left /\ r \in Nat /\ left \in Nat /\ bytes' = bytes - left - d
      BY <1>2, <1>6, <1>8, <1>9, <1>10
    <3> HIDE DEF a, b, c, d
    <3>2. bytes' = bytes - sb + (r + c)
      BY <1>3, <3>1
    <3>3. QED BY <3>2 DEF c
  <2>3. vectors' = vectors - old + cap
    BY <1>2, <1>3, <1>7, <1>8
  <2>4. frames' = frames - Len(p) + Len(q)
    BY <1>2, <1>3, <1>5, <1>8, <2>1
  <2>5. QED BY <2>2, <2>3, <2>4
<1>12. /\ bytes' = bytes - StreamBytes(s) + (r + Space(cap))
       /\ vectors' = vectors - capacity[s] + cap
       /\ frames' = frames - Len(queue[s]) + Len(q)
  BY <1>11 DEF sb, old
<1>13. /\ Typed' /\ ChargesExact'
       /\ \A t \in Streams \ {s} : /\ queue'[t] = queue[t] /\ capacity'[t] = capacity[t]
                                   /\ retained'[t] = retained[t]
       /\ queue'[s] = q /\ (StreamBytes(s))' = r + Space(cap)
  <2>1. Charges(s, q, cap, r)
    BY <1>8, <1>12 DEF Charges
  <2>2. Charged(s, q, cap, r)
    BY <1>1, <1>5, <1>6, <1>7, <2>1, OneStream
  <2>3. QED BY <2>2 DEF Charged
<1>14. /\ bytes' <= bytes /\ vectors' <= vectors /\ r + Space(cap) <= sb /\ Len(q) <= Len(p)
       /\ r + Space(cap) \in Nat /\ Len(q) \in Nat
  <2>1. r + Space(cap) <= sb /\ r + Space(cap) \in Nat
    <3>1. \A a, b, c, d \in Nat : a <= c /\ b <= d => a + b <= c + d /\ a + b \in Nat
      OBVIOUS
    <3>2. QED BY <1>2, <1>6, <1>9, <1>10, <3>1
  <2>2. vectors' <= vectors
    BY <1>2, <1>3, <1>7, <1>11
  <2>3. Len(q) <= Len(p) /\ Len(q) \in Nat
    BY <1>2, <1>5, LenProperties
  <2> DEFINE x == r + Space(cap)
  <2>4. x \in Nat /\ x <= sb /\ bytes' = bytes - sb + x
    BY <1>11, <2>1
  <2> HIDE DEF x
  <2>5. bytes' <= bytes
    BY <1>2, <1>3, <2>4
  <2>6. QED BY <2>1, <2>2, <2>3, <2>5
<1>15. BudgetsHold'
  <2>1. /\ bytes <= EndpointLimit /\ vectors <= VectorLimit
        /\ \A t \in Streams : StreamBytes(t) <= StreamLimit /\ Len(queue[t]) <= FrameLimit
    BY <1>1 DEF BudgetsHold
  <2>2. bytes' <= EndpointLimit /\ vectors' <= VectorLimit
    <3>1. bytes' \in Nat /\ vectors' \in Nat
      BY <1>13 DEF Typed
    <3>2. QED BY <1>3, <1>14, <2>1, <3>1, LimitsAssumption
  <2>3. \A t \in Streams : (StreamBytes(t))' <= StreamLimit /\ Len(queue'[t]) <= FrameLimit
    <3> SUFFICES ASSUME NEW t \in Streams
                 PROVE  (StreamBytes(t))' <= StreamLimit /\ Len(queue'[t]) <= FrameLimit
      OBVIOUS
    <3>1. CASE t = s
      <4>1. (StreamBytes(t))' <= sb /\ (StreamBytes(t))' \in Nat
        BY <1>13, <1>14, <3>1
      <4>2. sb <= StreamLimit /\ Len(p) <= FrameLimit
        BY <2>1 DEF sb
      <4>3. Len(queue'[t]) <= Len(p) /\ Len(queue'[t]) \in Nat
        BY <1>13, <1>14, <3>1
      <4>4. (StreamBytes(t))' <= StreamLimit
        BY <1>2, <4>1, <4>2, LimitsAssumption
      <4>5. Len(queue'[t]) <= FrameLimit
        BY <1>2, <4>2, <4>3, LimitNat
      <4>6. QED BY <4>4, <4>5
    <3>2. CASE t # s
      <4>1. (StreamBytes(t))' = StreamBytes(t) /\ queue'[t] = queue[t]
        BY <1>13, <3>2, StreamBytesIs
      <4>2. QED BY <2>1, <4>1
    <3>3. QED BY <3>1, <3>2
  <2>4. FrameLimit' = FrameLimit
    BY DEF FrameLimit
  <2>5. QED BY <2>2, <2>3, <2>4 DEF BudgetsHold
<1>16. QED BY <1>13, <1>15 DEF Books

\* The accounts move by the terms of the streams that are destroyed.
LEMMA AccountsCleared ==
    ASSUME NEW P \in SUBSET Streams,
           \A t \in Streams : BytesOf[t] \in Nat /\ BytesOf'[t] \in Nat,
           \A t \in Streams : VectorsOf[t] \in Nat /\ VectorsOf'[t] \in Nat,
           \A t \in Streams : FramesOf[t] \in Nat /\ FramesOf'[t] \in Nat,
           \A t \in Streams \ P : BytesOf[t] = BytesOf'[t],
           \A t \in Streams \ P : VectorsOf[t] = VectorsOf'[t],
           \A t \in Streams \ P : FramesOf[t] = FramesOf'[t],
           \A t \in P : BytesOf'[t] = 0,
           \A t \in P : VectorsOf'[t] = 0,
           \A t \in P : FramesOf'[t] = 0
    PROVE  /\ SumFunctionOnSet(BytesOf', Streams) \in Nat
           /\ SumFunctionOnSet(BytesOf', Streams) =
                SumFunctionOnSet(BytesOf, Streams) - SumFunctionOnSet(BytesOf, P)
           /\ SumFunctionOnSet(BytesOf', Streams) <= SumFunctionOnSet(BytesOf, Streams)
           /\ SumFunctionOnSet(VectorsOf', Streams) \in Nat
           /\ SumFunctionOnSet(VectorsOf', Streams) =
                SumFunctionOnSet(VectorsOf, Streams) - SumFunctionOnSet(VectorsOf, P)
           /\ SumFunctionOnSet(VectorsOf', Streams) <= SumFunctionOnSet(VectorsOf, Streams)
           /\ SumFunctionOnSet(FramesOf', Streams) \in Nat
           /\ SumFunctionOnSet(FramesOf', Streams) =
                SumFunctionOnSet(FramesOf, Streams) - SumFunctionOnSet(FramesOf, P)
<1>finite. IsFiniteSet(P)
  BY StreamsFinite, FS_Subset
<1>1. /\ SumFunctionOnSet(BytesOf, Streams) \in Nat /\ SumFunctionOnSet(BytesOf, P) \in Nat
      /\ SumFunctionOnSet(BytesOf', Streams) \in Nat
  <2>1. SumFunctionOnSet(BytesOf, Streams) \in Nat /\ SumFunctionOnSet(BytesOf, P) \in Nat
    BY StreamsFinite, SumPart
  <2>2. SumFunctionOnSet(BytesOf', Streams) \in Nat
    BY StreamsFinite, SumPart
  <2>3. QED BY <2>1, <2>2
<1>2. /\ SumFunctionOnSet(BytesOf', Streams) =
           SumFunctionOnSet(BytesOf, Streams) - SumFunctionOnSet(BytesOf, P)
      /\ SumFunctionOnSet(BytesOf', Streams) <= SumFunctionOnSet(BytesOf, Streams)
  <2>1. \A t \in Streams : BytesOf[t] \in Int /\ BytesOf'[t] \in Int
    OBVIOUS
  <2>2. SumFunctionOnSet(BytesOf', P) = 0
    BY <1>finite, SumZero
  <2>3. SumFunctionOnSet(BytesOf', Streams) =
          SumFunctionOnSet(BytesOf, Streams) - SumFunctionOnSet(BytesOf, P)
            + SumFunctionOnSet(BytesOf', P)
    BY <2>1, StreamsFinite, SumReplaced
  <2>4. QED BY <1>1, <2>2, <2>3
<1>3. /\ SumFunctionOnSet(VectorsOf, Streams) \in Nat /\ SumFunctionOnSet(VectorsOf, P) \in Nat
      /\ SumFunctionOnSet(VectorsOf', Streams) \in Nat
  <2>1. SumFunctionOnSet(VectorsOf, Streams) \in Nat /\ SumFunctionOnSet(VectorsOf, P) \in Nat
    BY StreamsFinite, SumPart
  <2>2. SumFunctionOnSet(VectorsOf', Streams) \in Nat
    BY StreamsFinite, SumPart
  <2>3. QED BY <2>1, <2>2
<1>4. /\ SumFunctionOnSet(VectorsOf', Streams) =
           SumFunctionOnSet(VectorsOf, Streams) - SumFunctionOnSet(VectorsOf, P)
      /\ SumFunctionOnSet(VectorsOf', Streams) <= SumFunctionOnSet(VectorsOf, Streams)
  <2>1. \A t \in Streams : VectorsOf[t] \in Int /\ VectorsOf'[t] \in Int
    OBVIOUS
  <2>2. SumFunctionOnSet(VectorsOf', P) = 0
    BY <1>finite, SumZero
  <2>3. SumFunctionOnSet(VectorsOf', Streams) =
          SumFunctionOnSet(VectorsOf, Streams) - SumFunctionOnSet(VectorsOf, P)
            + SumFunctionOnSet(VectorsOf', P)
    BY <2>1, StreamsFinite, SumReplaced
  <2>4. QED BY <1>3, <2>2, <2>3
<1>5. /\ SumFunctionOnSet(FramesOf, Streams) \in Nat /\ SumFunctionOnSet(FramesOf, P) \in Nat
      /\ SumFunctionOnSet(FramesOf', Streams) \in Nat
  <2>1. SumFunctionOnSet(FramesOf, Streams) \in Nat /\ SumFunctionOnSet(FramesOf, P) \in Nat
    BY StreamsFinite, SumPart
  <2>2. SumFunctionOnSet(FramesOf', Streams) \in Nat
    BY StreamsFinite, SumPart
  <2>3. QED BY <2>1, <2>2
<1>6. /\ SumFunctionOnSet(FramesOf', Streams) =
           SumFunctionOnSet(FramesOf, Streams) - SumFunctionOnSet(FramesOf, P)
      /\ SumFunctionOnSet(FramesOf', Streams) <= SumFunctionOnSet(FramesOf, Streams)
  <2>1. \A t \in Streams : FramesOf[t] \in Int /\ FramesOf'[t] \in Int
    OBVIOUS
  <2>2. SumFunctionOnSet(FramesOf', P) = 0
    BY <1>finite, SumZero
  <2>3. SumFunctionOnSet(FramesOf', Streams) =
          SumFunctionOnSet(FramesOf, Streams) - SumFunctionOnSet(FramesOf, P)
            + SumFunctionOnSet(FramesOf', P)
    BY <2>1, StreamsFinite, SumReplaced
  <2>4. QED BY <1>5, <2>2, <2>3
<1>7. QED BY <1>1, <1>2, <1>3, <1>4, <1>5, <1>6

\* Destroyed streams give back all they were charged.
LEMMA DestroyKeeps ==
    ASSUME Books, NEW P \in SUBSET Streams, DestroyStreams(P)
    PROVE  Books'
<1> DEFINE sizes == [s \in P |-> TotalSize(queue[s])]
           spaces == [s \in P |-> capacity[s] * VectorSize]
           caps == [s \in P |-> capacity[s]]
           lens == [s \in P |-> Len(queue[s])]
<1>1. Typed /\ ChargesExact /\ BudgetsHold
  BY DEF Books
<1>2. /\ queue' = [s \in Streams |-> IF s \in P THEN <<>> ELSE queue[s]]
      /\ capacity' = [s \in Streams |-> IF s \in P THEN 0 ELSE capacity[s]]
      /\ retained' = [s \in Streams |-> IF s \in P THEN 0 ELSE retained[s]]
      /\ bytes' = bytes - SumFunctionOnSet(sizes, P) - SumFunctionOnSet(spaces, P)
      /\ vectors' = vectors - SumFunctionOnSet(caps, P)
      /\ frames' = frames - SumFunctionOnSet(lens, P)
  BY DEF DestroyStreams, SumFunction
<1>3. <<>> \in Seq(Frame) /\ Len(<<>>) = 0
  OBVIOUS
<1>4. /\ queue' \in [Streams -> Seq(Frame)]
      /\ capacity' \in [Streams -> Nat] /\ retained' \in [Streams -> Nat]
  BY <1>1, <1>2, <1>3 DEF Typed
<1>5. \A t \in Streams \ P : /\ queue'[t] = queue[t] /\ capacity'[t] = capacity[t]
                             /\ retained'[t] = retained[t]
  BY <1>2
<1>6. \A t \in P : queue'[t] = <<>> /\ capacity'[t] = 0 /\ retained'[t] = 0
  BY <1>2
<1>7. /\ \A t \in Streams : BytesOf[t] \in Nat /\ BytesOf'[t] \in Nat
      /\ \A t \in Streams : VectorsOf[t] \in Nat /\ VectorsOf'[t] \in Nat
      /\ \A t \in Streams : FramesOf[t] \in Nat /\ FramesOf'[t] \in Nat
      /\ \A t \in Streams \ P : BytesOf[t] = BytesOf'[t]
      /\ \A t \in Streams \ P : VectorsOf[t] = VectorsOf'[t]
      /\ \A t \in Streams \ P : FramesOf[t] = FramesOf'[t]
      /\ \A t \in Streams : /\ BytesOf[t] = StreamBytes(t) /\ BytesOf'[t] = (StreamBytes(t))'
                            /\ VectorsOf[t] = capacity[t] /\ VectorsOf'[t] = capacity'[t]
                            /\ FramesOf[t] = Len(queue[t]) /\ FramesOf'[t] = Len(queue'[t])
  BY <1>1, <1>4, <1>5, TermsAre
<1>8. \A t \in P : (StreamBytes(t))' = 0
  <2> SUFFICES ASSUME NEW t \in P PROVE (StreamBytes(t))' = 0
    OBVIOUS
  <2>1. (StreamBytes(t))' = 0 + Space(0)
    BY <1>6, StreamBytesIs
  <2>2. QED BY <2>1, SpaceOfNone
<1>9. /\ \A t \in P : BytesOf'[t] = 0
      /\ \A t \in P : VectorsOf'[t] = 0
      /\ \A t \in P : FramesOf'[t] = 0
  BY <1>3, <1>6, <1>7, <1>8
<1>10. /\ bytes = SumFunctionOnSet(BytesOf, Streams)
       /\ vectors = SumFunctionOnSet(VectorsOf, Streams)
       /\ frames = SumFunctionOnSet(FramesOf, Streams)
       /\ \A t \in Streams : retained[t] = TotalSize(queue[t])
  BY <1>1, AccountsAre
<1>11. IsFiniteSet(P)
  BY StreamsFinite, FS_Subset
<1>12. SumFunctionOnSet(BytesOf, P) = SumFunctionOnSet(sizes, P) + SumFunctionOnSet(spaces, P)
       /\ SumFunctionOnSet(sizes, P) \in Nat /\ SumFunctionOnSet(spaces, P) \in Nat
  <2>1. ASSUME NEW t \in P
        PROVE  /\ sizes[t] \in Int /\ spaces[t] \in Int /\ sizes[t] \in Nat /\ spaces[t] \in Nat
               /\ BytesOf[t] = sizes[t] + spaces[t]
    <3>1. sizes[t] = retained[t] /\ spaces[t] = Space(capacity[t])
      BY <1>10 DEF Space
    <3>2. retained[t] \in Nat /\ capacity[t] \in Nat
      BY <1>1 DEF Typed
    <3>3. Space(capacity[t]) \in Nat
      BY <3>2, SpaceAdds
    <3>4. BytesOf[t] = retained[t] + Space(capacity[t])
      BY <1>7, StreamBytesIs
    <3> HIDE DEF sizes, spaces
    <3>5. QED BY <3>1, <3>2, <3>3, <3>4
  <2> HIDE DEF sizes, spaces
  <2>2. \A t \in P : sizes[t] \in Int /\ spaces[t] \in Int /\ BytesOf[t] = sizes[t] + spaces[t]
    BY <2>1
  <2>3. SumFunctionOnSet(sizes, P) \in Nat
    BY <1>11, <2>1, SumType
  <2>4. SumFunctionOnSet(spaces, P) \in Nat
    BY <1>11, <2>1, SumType
  <2>5. QED BY <1>11, <2>2, <2>3, <2>4, SumPlus
<1>13. SumFunctionOnSet(VectorsOf, P) = SumFunctionOnSet(caps, P)
  <2>1. \A t \in P : VectorsOf[t] \in Int /\ VectorsOf[t] = caps[t]
    BY <1>7
  <2> HIDE DEF caps
  <2>2. QED BY <1>11, <2>1, SumAgree
<1>14. SumFunctionOnSet(FramesOf, P) = SumFunctionOnSet(lens, P)
  <2>1. \A t \in P : FramesOf[t] \in Int /\ FramesOf[t] = lens[t]
    BY <1>7
  <2> HIDE DEF lens
  <2>2. QED BY <1>11, <2>1, SumAgree
<1> HIDE DEF sizes, spaces, caps, lens
<1>sums. /\ SumFunctionOnSet(BytesOf', Streams) \in Nat
      /\ SumFunctionOnSet(BytesOf', Streams) =
           SumFunctionOnSet(BytesOf, Streams) - SumFunctionOnSet(BytesOf, P)
      /\ SumFunctionOnSet(BytesOf', Streams) <= SumFunctionOnSet(BytesOf, Streams)
      /\ SumFunctionOnSet(VectorsOf', Streams) \in Nat
      /\ SumFunctionOnSet(VectorsOf', Streams) =
           SumFunctionOnSet(VectorsOf, Streams) - SumFunctionOnSet(VectorsOf, P)
      /\ SumFunctionOnSet(VectorsOf', Streams) <= SumFunctionOnSet(VectorsOf, Streams)
      /\ SumFunctionOnSet(FramesOf', Streams) \in Nat
      /\ SumFunctionOnSet(FramesOf', Streams) =
           SumFunctionOnSet(FramesOf, Streams) - SumFunctionOnSet(FramesOf, P)
  BY <1>7, <1>9, AccountsCleared
<1>15. bytes' = SumFunctionOnSet(BytesOf', Streams) /\ bytes' \in Nat /\ bytes' <= bytes
  <2>1. bytes \in Nat
    BY <1>1 DEF Typed
  <2>2. bytes' = bytes - SumFunctionOnSet(BytesOf, P)
    BY <1>2, <1>12, <2>1
  <2>3. QED BY <1>10, <1>sums, <2>2
<1>16. vectors' = SumFunctionOnSet(VectorsOf', Streams) /\ vectors' \in Nat /\ vectors' <= vectors
  BY <1>2, <1>10, <1>13, <1>sums
<1>17. frames' = SumFunctionOnSet(FramesOf', Streams) /\ frames' \in Nat
  BY <1>2, <1>10, <1>14, <1>sums
<1>18. \A t \in Streams : retained'[t] = TotalSize(queue'[t])
  <2>1. TotalSize(<<>>) = 0
    BY <1>3, TotalSizeNat, SizeSumEmpty
  <2>2. QED BY <1>5, <1>6, <1>10, <2>1
<1>19. Typed' /\ ChargesExact'
  <2>1. Typed'
    BY <1>4, <1>15, <1>16, <1>17 DEF Typed
  <2>2. ChargesExact'
    BY <1>15, <1>16, <1>17, <1>18, AccountsAre
  <2>3. QED BY <2>1, <2>2
<1>20. BudgetsHold'
  <2>1. /\ bytes <= EndpointLimit /\ vectors <= VectorLimit
        /\ \A t \in Streams : StreamBytes(t) <= StreamLimit /\ Len(queue[t]) <= FrameLimit
        /\ bytes \in Nat /\ vectors \in Nat
    BY <1>1 DEF BudgetsHold, Typed
  <2>2. bytes' <= EndpointLimit /\ vectors' <= VectorLimit
    BY <1>15, <1>16, <2>1, LimitsAssumption
  <2>3. \A t \in Streams : (StreamBytes(t))' <= StreamLimit /\ Len(queue'[t]) <= FrameLimit
    <3> SUFFICES ASSUME NEW t \in Streams
                 PROVE  (StreamBytes(t))' <= StreamLimit /\ Len(queue'[t]) <= FrameLimit
      OBVIOUS
    <3>1. CASE t \in P
      BY <1>3, <1>6, <1>8, <3>1, LimitNat, LimitsAssumption
    <3>2. CASE t \notin P
      <4>1. (StreamBytes(t))' = StreamBytes(t) /\ queue'[t] = queue[t]
        BY <1>5, <3>2, StreamBytesIs
      <4>2. QED BY <2>1, <4>1
    <3>3. QED BY <3>1, <3>2
  <2>4. FrameLimit' = FrameLimit
    BY DEF FrameLimit
  <2>5. QED BY <2>2, <2>3, <2>4 DEF BudgetsHold
<1>21. QED BY <1>19, <1>20 DEF Books

LEMMA NothingKeeps ==
    ASSUME Books, NothingRetained
    PROVE  Books'
<1>1. /\ queue' = queue /\ capacity' = capacity /\ retained' = retained
      /\ bytes' = bytes /\ vectors' = vectors /\ frames' = frames
  BY DEF NothingRetained
<1>2. Typed'
  BY <1>1 DEF Books, Typed
<1>3. ChargesExact'
  <2>1. \A t \in Streams : (StreamBytes(t))' = StreamBytes(t)
    BY <1>1, StreamBytesIs
  <2>2. BytesOf' = BytesOf /\ VectorsOf' = VectorsOf /\ FramesOf' = FramesOf
    BY <1>1, <2>1 DEF BytesOf, VectorsOf, FramesOf
  <2>3. QED BY <1>1, <2>2, AccountsAre DEF Books
<1>4. BudgetsHold'
  <2>1. FrameLimit' = FrameLimit
    BY DEF FrameLimit
  <2>2. \A t \in Streams : (StreamBytes(t))' = StreamBytes(t)
    BY <1>1, StreamBytesIs
  <2>3. QED BY <1>1, <2>1, <2>2 DEF Books, BudgetsHold
<1>5. QED BY <1>2, <1>3, <1>4 DEF Books

LEMMA StreamOf == \A c \in Conns : Control(c) \in Streams /\ Track(c) \in Streams
BY DEF Control, Track, Streams

LEMMA FramesTyped ==
    /\ \A size \in Nat : Data(size) \in Frame /\ Data(size).size = size
    /\ \A id \in NackIds : NackFrame(id) \in Frame
    /\ Essential \in Frame
BY SizesAssumption DEF Data, NackFrame, Essential, Frame

LEMMA WriteDataKeeps ==
    ASSUME Books, NEW s \in Streams, NEW frame \in Frame, NEW outcome,
           WriteData(s, frame, outcome)
    PROVE  Books'
<1>1. CASE outcome = "no_memory"
  BY <1>1, NothingKeeps DEF WriteData
<1>2. CASE outcome # "no_memory"
  <2>1. CanAccept(s, frame.size, TRUE) /\ Retain(s, frame) /\ TRUE \in BOOLEAN
    BY <1>2 DEF WriteData
  <2>2. QED BY <2>1, RetainKeeps
<1>3. QED BY <1>1, <1>2

LEMMA WriteControlKeeps ==
    ASSUME Books, NEW c \in Conns, NEW frame \in Frame, NEW outcome,
           WriteControl(c, frame, outcome)
    PROVE  Books'
<1>1. CASE CanAccept(Control(c), frame.size, FALSE) /\ outcome # "no_memory"
  <2>1. /\ CanAccept(Control(c), frame.size, FALSE) /\ Retain(Control(c), frame)
        /\ FALSE \in BOOLEAN /\ Control(c) \in Streams
    BY <1>1, StreamOf DEF WriteControl
  <2>2. QED BY <2>1, RetainKeeps
<1>2. CASE ~(CanAccept(Control(c), frame.size, FALSE) /\ outcome # "no_memory")
  BY <1>2, NothingKeeps DEF WriteControl
<1>3. QED BY <1>1, <1>2

-----------------------------------------------------------------------------
(* The publication being written *)

BatchTyped == batch \in [to: SUBSET Conns, size: Nat]

\* The budget still holds what the recipients left will be charged.
BatchFits == batch.to = {} \/ CanAcceptBatch(batch.to, batch.size)

Accounts == Books /\ BatchTyped /\ BatchFits

CostsOf(to, size) == [c \in to |-> Cost(Track(c), size)]
GrowthsOf(to)     == [c \in to |-> Growth(Track(c))]

LEMMA BatchIs ==
    \A to, size :
      /\ CanAcceptBatch(to, size) <=>
           /\ \A c \in to : StreamAccepts(Track(c), size, TRUE)
           /\ bytes + SumFunctionOnSet(CostsOf(to, size), to) <= EndpointLimit - EndpointByteReserve
           /\ vectors + SumFunctionOnSet(GrowthsOf(to), to) <= VectorLimit - VectorReserve
      /\ CanAcceptBatch(to, size)' <=>
           /\ \A c \in to : StreamAccepts(Track(c), size, TRUE)'
           /\ bytes' + SumFunctionOnSet(CostsOf(to, size)', to) <= EndpointLimit - EndpointByteReserve
           /\ vectors' + SumFunctionOnSet(GrowthsOf(to)', to) <= VectorLimit - VectorReserve
BY DEF CanAcceptBatch, EndpointAccepts, SumFunction, CostsOf, GrowthsOf

\* A stream that does not change accepts what it accepted.
LEMMA SameStream ==
    ASSUME NEW s, NEW size, queue'[s] = queue[s], capacity'[s] = capacity[s],
           retained'[s] = retained[s], open' = open
    PROVE  /\ (Growth(s))' = Growth(s) /\ (Cost(s, size))' = Cost(s, size)
           /\ StreamAccepts(s, size, TRUE) => StreamAccepts(s, size, TRUE)'
<1>1. (Growth(s))' = Growth(s)
  BY DEF Growth
<1>2. (Cost(s, size))' = Cost(s, size)
  BY <1>1 DEF Cost
<1>3. (StreamBytes(s))' = StreamBytes(s)
  BY StreamBytesIs
<1>4. FrameLimit' = FrameLimit
  BY DEF FrameLimit
<1>5. StreamAccepts(s, size, TRUE) => StreamAccepts(s, size, TRUE)'
  <2> DEFINE reserved == TRUE /\ IsControl(s)
  <2>1. reserved' = reserved
    BY DEF IsControl
  <2>2. QED BY <1>2, <1>3, <1>4, <2>1 DEF StreamAccepts, IsControl
<1>6. QED BY <1>1, <1>2, <1>5

\* What the recipients of an admitted publication add up to
BatchSums(to, size) ==
    /\ IsFiniteSet(to)
    /\ \A c \in to : /\ CostsOf(to, size)[c] = Cost(Track(c), size)
                     /\ GrowthsOf(to)[c] = Growth(Track(c))
                     /\ Cost(Track(c), size) \in Nat /\ Growth(Track(c)) \in Nat
    /\ \A c \in to :
         /\ SumFunctionOnSet(CostsOf(to, size), to) =
              Cost(Track(c), size) + SumFunctionOnSet(CostsOf(to, size), to \ {c})
         /\ SumFunctionOnSet(GrowthsOf(to), to) =
              Growth(Track(c)) + SumFunctionOnSet(GrowthsOf(to), to \ {c})
         /\ SumFunctionOnSet(CostsOf(to, size), to \ {c}) \in Nat
         /\ SumFunctionOnSet(GrowthsOf(to), to \ {c}) \in Nat

LEMMA BatchTerms ==
    ASSUME Typed, NEW to \in SUBSET Conns, NEW size \in Nat
    PROVE  BatchSums(to, size)
<1> DEFINE F == CostsOf(to, size)
           G == GrowthsOf(to)
<1>1. IsFiniteSet(to)
  BY SizesAssumption, FS_Subset
<1>2. \A c \in to : /\ F[c] = Cost(Track(c), size) /\ G[c] = Growth(Track(c))
                    /\ Cost(Track(c), size) \in Nat /\ Growth(Track(c)) \in Nat
  <2> SUFFICES ASSUME NEW c \in to
               PROVE  /\ F[c] = Cost(Track(c), size) /\ G[c] = Growth(Track(c))
                      /\ Cost(Track(c), size) \in Nat /\ Growth(Track(c)) \in Nat
    OBVIOUS
  <2>1. Track(c) \in Streams
    BY StreamOf
  <2>2. Cost(Track(c), size) \in Nat /\ Growth(Track(c)) \in Nat
    BY <2>1, GrowthNat
  <2>3. F[c] = Cost(Track(c), size) /\ G[c] = Growth(Track(c))
    BY DEF CostsOf, GrowthsOf
  <2>4. QED BY <2>2, <2>3
<1>3. /\ \A c \in to : F[c] \in Int /\ F[c] \in Nat
      /\ \A c \in to : G[c] \in Int /\ G[c] \in Nat
  BY <1>2
<1>4. ASSUME NEW c \in to
      PROVE  /\ SumFunctionOnSet(F, to) = Cost(Track(c), size) + SumFunctionOnSet(F, to \ {c})
             /\ SumFunctionOnSet(G, to) = Growth(Track(c)) + SumFunctionOnSet(G, to \ {c})
             /\ SumFunctionOnSet(F, to \ {c}) \in Nat
             /\ SumFunctionOnSet(G, to \ {c}) \in Nat
  <2> HIDE DEF F, G
  <2>1. SumFunctionOnSet(F, to) = F[c] + SumFunctionOnSet(F, to \ {c})
    BY <1>1, <1>3, SumRemove
  <2>2. SumFunctionOnSet(G, to) = G[c] + SumFunctionOnSet(G, to \ {c})
    BY <1>1, <1>3, SumRemove
  <2>3. to \ {c} \in SUBSET to
    OBVIOUS
  <2>4. SumFunctionOnSet(F, to \ {c}) \in Nat
    BY <1>1, <1>3, <2>3, SumPart
  <2>5. SumFunctionOnSet(G, to \ {c}) \in Nat
    BY <1>1, <1>3, <2>3, SumPart
  <2>6. QED BY <1>2, <2>1, <2>2, <2>4, <2>5
<1>5. QED BY <1>1, <1>2, <1>4 DEF BatchSums

\* Each recipient of a publication that fits is accepted.
LEMMA FitIsAccepted ==
    ASSUME Accounts, NEW c \in batch.to
    PROVE  CanAccept(Track(c), batch.size, TRUE)
<1> DEFINE to == batch.to
           size == batch.size
<1>1. to \in SUBSET Conns /\ size \in Nat
  BY DEF Accounts, BatchTyped
<1>2. Typed /\ CanAcceptBatch(to, size)
  BY DEF Accounts, Books, BatchFits
<1> HIDE DEF to, size
<1>3. c \in to
  BY DEF to
<1>4. /\ StreamAccepts(Track(c), size, TRUE)
      /\ bytes + SumFunctionOnSet(CostsOf(to, size), to) <= EndpointLimit - EndpointByteReserve
      /\ vectors + SumFunctionOnSet(GrowthsOf(to), to) <= VectorLimit - VectorReserve
  BY <1>2, <1>3, BatchIs
<1> DEFINE a == Cost(Track(c), size)
           b == SumFunctionOnSet(CostsOf(to, size), to \ {c})
           d == Growth(Track(c))
           e == SumFunctionOnSet(GrowthsOf(to), to \ {c})
           le == EndpointLimit - EndpointByteReserve
           lv == VectorLimit - VectorReserve
<1>5. /\ a \in Nat /\ b \in Nat /\ d \in Nat /\ e \in Nat
      /\ SumFunctionOnSet(CostsOf(to, size), to) = a + b
      /\ SumFunctionOnSet(GrowthsOf(to), to) = d + e
  <2>1. BatchSums(to, size)
    BY <1>1, <1>2, BatchTerms
  <2>2. QED BY <1>3, <2>1 DEF BatchSums
<1>6. bytes + (a + b) <= le /\ vectors + (d + e) <= lv
  BY <1>4, <1>5
<1>7. bytes \in Nat /\ vectors \in Nat /\ le \in Int /\ lv \in Int
  BY <1>2, LimitsAssumption DEF Typed
<1> HIDE DEF a, b, d, e, le, lv
<1>8. bytes + a <= le /\ vectors + d <= lv
  BY <1>5, <1>6, <1>7
<1>9. EndpointAccepts(Cost(Track(c), size), Growth(Track(c)), TRUE)
  BY <1>8 DEF EndpointAccepts, a, d, le, lv
<1>10. QED BY <1>4, <1>9 DEF CanAccept, size

\* One recipient is written: what it was charged was counted for it.
LEMMA RecipientKeeps ==
    ASSUME Accounts, NEW c \in Conns, NEW outcome \in Outcomes, WriteRecipient(c, outcome)
    PROVE  Accounts'
<1> DEFINE more == /\ batch.to # {c} /\ CanAccept(Track(c), batch.size, TRUE)
                   /\ outcome = "written"
<1>pick. PICK to \in SUBSET Conns, size \in Nat, rest \in SUBSET Conns :
               batch = [to |-> to, size |-> size] /\ rest = to \ {c}
  <2>1. batch.to \in SUBSET Conns /\ batch.size \in Nat
        /\ batch = [to |-> batch.to, size |-> batch.size]
    BY DEF Accounts, BatchTyped
  <2>2. batch.to \ {c} \in SUBSET Conns
    BY <2>1
  <2>3. QED BY <2>1, <2>2
<1>1. /\ batch.to = to /\ batch.size = size /\ c \in to /\ rest = to \ {c} /\ Books /\ Typed
  BY <1>pick DEF Accounts, Books, WriteRecipient
<1>2. CanAccept(Track(c), size, TRUE)
  BY <1>1, FitIsAccepted
<1>3. Track(c) \in Streams /\ Data(size) \in Frame /\ Data(size).size = size
  BY <1>1, StreamOf, FramesTyped
<1>4. WriteData(Track(c), Data(size), outcome)
  BY <1>1, <1>2 DEF WriteRecipient
<1>5. Books'
  BY <1>1, <1>3, <1>4, WriteDataKeeps
<1>6. CASE ~more
  <2>1. batch' = NoBatch
    BY <1>6 DEF WriteRecipient
  <2>2. BatchTyped' /\ BatchFits'
    BY <2>1 DEF BatchTyped, BatchFits, NoBatch
  <2>3. QED BY <1>5, <2>2 DEF Accounts
<1>7. CASE more
  <2>1. batch' = [to |-> rest, size |-> size]
    <3>1. batch' = [batch EXCEPT !.to = @ \ {c}]
      BY <1>7 DEF WriteRecipient
    <3>2. QED BY <1>pick, <3>1
  <2>2. BatchTyped'
    BY <1>1, <2>1 DEF BatchTyped
  <2>3. /\ Retain(Track(c), Data(size)) /\ open' = open
    BY <1>4, <1>7 DEF WriteData
  <2>4. /\ bytes' = bytes + Cost(Track(c), size) /\ vectors' = vectors + Growth(Track(c))
        /\ \A s \in Streams \ {Track(c)} :
              /\ queue'[s] = queue[s] /\ capacity'[s] = capacity[s] /\ retained'[s] = retained[s]
    <3>1. TRUE \in BOOLEAN /\ CanAccept(Track(c), Data(size).size, TRUE)
      BY <1>2, <1>3
    <3>2. \A s \in Streams \ {Track(c)} :
              /\ queue'[s] = queue[s] /\ capacity'[s] = capacity[s] /\ retained'[s] = retained[s]
      BY <1>1, <1>3, <2>3, <3>1, RetainKeeps
    <3>3. QED BY <1>3, <2>3, <3>2 DEF Retain
  <2>5. CanAcceptBatch(to, size)
    BY <1>1 DEF Accounts, BatchFits
  <2> HIDE DEF more
  <2>6. \A d \in rest : /\ (Growth(Track(d)))' = Growth(Track(d))
                        /\ (Cost(Track(d), size))' = Cost(Track(d), size)
                        /\ StreamAccepts(Track(d), size, TRUE)'
    <3> SUFFICES ASSUME NEW d \in rest
                 PROVE  /\ (Growth(Track(d)))' = Growth(Track(d))
                        /\ (Cost(Track(d), size))' = Cost(Track(d), size)
                        /\ StreamAccepts(Track(d), size, TRUE)'
      OBVIOUS
    <3>1. Track(d) \in Streams /\ Track(d) # Track(c) /\ d \in to
      BY <1>1, StreamOf DEF Track
    <3>2. StreamAccepts(Track(d), size, TRUE)
      BY <2>5, <3>1, BatchIs
    <3>3. /\ queue'[Track(d)] = queue[Track(d)] /\ capacity'[Track(d)] = capacity[Track(d)]
          /\ retained'[Track(d)] = retained[Track(d)]
      BY <2>4, <3>1
    <3>4. PICK s : /\ s = Track(d) /\ queue'[s] = queue[s] /\ capacity'[s] = capacity[s]
                   /\ retained'[s] = retained[s] /\ StreamAccepts(s, size, TRUE)
      BY <3>2, <3>3
    <3>5. /\ (Growth(s))' = Growth(s) /\ (Cost(s, size))' = Cost(s, size)
          /\ StreamAccepts(s, size, TRUE)'
      BY <2>3, <3>4, SameStream
    <3>6. QED BY <3>4, <3>5
  <2>7. /\ IsFiniteSet(rest)
        /\ \A d \in rest : /\ CostsOf(to, size)[d] = Cost(Track(d), size)
                           /\ GrowthsOf(to)[d] = Growth(Track(d))
                           /\ Cost(Track(d), size) \in Nat /\ Growth(Track(d)) \in Nat
        /\ SumFunctionOnSet(CostsOf(to, size), to) =
             Cost(Track(c), size) + SumFunctionOnSet(CostsOf(to, size), rest)
        /\ SumFunctionOnSet(GrowthsOf(to), to) =
             Growth(Track(c)) + SumFunctionOnSet(GrowthsOf(to), rest)
        /\ SumFunctionOnSet(CostsOf(to, size), rest) \in Nat
        /\ SumFunctionOnSet(GrowthsOf(to), rest) \in Nat
        /\ Cost(Track(c), size) \in Nat /\ Growth(Track(c)) \in Nat
    <3>0. BatchSums(to, size)
      BY <1>1, BatchTerms
    <3>1. /\ IsFiniteSet(to)
          /\ \A d \in to : /\ CostsOf(to, size)[d] = Cost(Track(d), size)
                           /\ GrowthsOf(to)[d] = Growth(Track(d))
                           /\ Cost(Track(d), size) \in Nat /\ Growth(Track(d)) \in Nat
      BY <1>1, <3>0 DEF BatchSums
    <3>2. /\ SumFunctionOnSet(CostsOf(to, size), to) =
               Cost(Track(c), size) + SumFunctionOnSet(CostsOf(to, size), rest)
          /\ SumFunctionOnSet(GrowthsOf(to), to) =
               Growth(Track(c)) + SumFunctionOnSet(GrowthsOf(to), rest)
          /\ SumFunctionOnSet(CostsOf(to, size), rest) \in Nat
          /\ SumFunctionOnSet(GrowthsOf(to), rest) \in Nat
      BY <1>1, <3>0 DEF BatchSums
    <3>3. IsFiniteSet(rest)
      BY <1>1, <3>1, FS_Subset
    <3>4. \A d \in rest : d \in to
      BY <1>1
    <3>5. QED BY <1>1, <3>1, <3>2, <3>3, <3>4
  <2>8. SumFunctionOnSet(CostsOf(rest, size)', rest) = SumFunctionOnSet(CostsOf(to, size), rest)
    <3> DEFINE f == CostsOf(to, size)
               g == CostsOf(rest, size)'
    <3>1. \A d \in rest : g[d] = (Cost(Track(d), size))'
      BY DEF CostsOf
    <3>2. \A d \in rest : f[d] \in Nat /\ f[d] = Cost(Track(d), size)
                           /\ (Cost(Track(d), size))' = Cost(Track(d), size)
      BY <2>6, <2>7
    <3>3. IsFiniteSet(rest)
      BY <2>7
    <3> HIDE DEF f, g
    <3>4. \A d \in rest : f[d] \in Int /\ f[d] = g[d]
      BY <3>1, <3>2
    <3>5. SumFunctionOnSet(f, rest) = SumFunctionOnSet(g, rest)
      BY <3>4, <3>3, SumAgree
    <3>6. QED BY <3>5 DEF f, g
  <2>9. SumFunctionOnSet(GrowthsOf(rest)', rest) = SumFunctionOnSet(GrowthsOf(to), rest)
    <3> DEFINE f == GrowthsOf(to)
               g == GrowthsOf(rest)'
    <3>1. \A d \in rest : g[d] = (Growth(Track(d)))'
      BY DEF GrowthsOf
    <3>2. \A d \in rest : f[d] \in Nat /\ f[d] = Growth(Track(d))
                           /\ (Growth(Track(d)))' = Growth(Track(d))
      BY <2>6, <2>7
    <3>3. IsFiniteSet(rest)
      BY <2>7
    <3> HIDE DEF f, g
    <3>4. \A d \in rest : f[d] \in Int /\ f[d] = g[d]
      BY <3>1, <3>2
    <3>5. SumFunctionOnSet(f, rest) = SumFunctionOnSet(g, rest)
      BY <3>4, <3>3, SumAgree
    <3>6. QED BY <3>5 DEF f, g
  <2>10. /\ bytes + SumFunctionOnSet(CostsOf(to, size), to) <= EndpointLimit - EndpointByteReserve
         /\ vectors + SumFunctionOnSet(GrowthsOf(to), to) <= VectorLimit - VectorReserve
    BY <2>5, BatchIs
  <2> DEFINE a == Cost(Track(c), size)
             b == SumFunctionOnSet(CostsOf(to, size), rest)
             d == Growth(Track(c))
             e == SumFunctionOnSet(GrowthsOf(to), rest)
             le == EndpointLimit - EndpointByteReserve
             lv == VectorLimit - VectorReserve
  <2>11. /\ a \in Nat /\ b \in Nat /\ d \in Nat /\ e \in Nat
         /\ bytes + (a + b) <= le /\ vectors + (d + e) <= lv
         /\ bytes' = bytes + a /\ vectors' = vectors + d
    BY <2>4, <2>7, <2>10
  <2>12. bytes \in Nat /\ vectors \in Nat /\ le \in Int /\ lv \in Int
    BY <1>1, LimitsAssumption DEF Typed
  <2>13. bytes' + b <= le /\ vectors' + e <= lv
    <3> HIDE DEF a, b, d, e, le, lv
    <3> QED BY <2>11, <2>12
  <2>14. CanAcceptBatch(rest, size)'
    <3>1. /\ bytes' + SumFunctionOnSet(CostsOf(rest, size)', rest)
               <= EndpointLimit - EndpointByteReserve
          /\ vectors' + SumFunctionOnSet(GrowthsOf(rest)', rest) <= VectorLimit - VectorReserve
      BY <2>8, <2>9, <2>13
    <3>2. QED BY <2>6, <3>1, BatchIs
  <2>15. BatchFits'
    <3>1. batch'.to = rest /\ batch'.size = size
      BY <2>1
    <3>2. CanAcceptBatch(batch.to, batch.size)' <=> CanAcceptBatch(rest, size)'
      BY <3>1 DEF CanAcceptBatch, StreamAccepts, EndpointAccepts, Cost
    <3>3. QED BY <2>14, <3>2 DEF BatchFits
  <2>16. QED BY <1>5, <2>2, <2>15 DEF Accounts
<1>8. QED BY <1>6, <1>7

-----------------------------------------------------------------------------
(* The specification *)

LEMMA InitAccounts == Init => Accounts
<1> SUFFICES ASSUME Init PROVE Accounts
  OBVIOUS
<1>1. <<>> \in Seq(Frame) /\ Len(<<>>) = 0
  OBVIOUS
<1>2. \A s \in Streams : queue[s] = <<>> /\ capacity[s] = 0 /\ retained[s] = 0
  BY DEF Init
<1>3. bytes = 0 /\ vectors = 0 /\ frames = 0 /\ batch = NoBatch
  BY DEF Init
<1>4. Typed
  BY <1>1 DEF Init, Typed
<1>5. \A s \in Streams : StreamBytes(s) = 0
  <2> SUFFICES ASSUME NEW s \in Streams PROVE StreamBytes(s) = 0
    OBVIOUS
  <2>1. StreamBytes(s) = 0 + Space(0)
    BY <1>2, StreamBytesIs
  <2>2. QED BY <2>1, SpaceOfNone
<1>6. ChargesExact
  <2>1. TotalSize(<<>>) = 0
    BY <1>1, TotalSizeNat, SizeSumEmpty
  <2>2. \A s \in Streams : BytesOf[s] = 0 /\ VectorsOf[s] = 0 /\ FramesOf[s] = 0
    BY <1>1, <1>2, <1>5 DEF BytesOf, VectorsOf, FramesOf
  <2>3. SumFunctionOnSet(BytesOf, Streams) = 0
    BY <2>2, StreamsFinite, SumZero
  <2>4. SumFunctionOnSet(VectorsOf, Streams) = 0
    BY <2>2, StreamsFinite, SumZero
  <2>5. SumFunctionOnSet(FramesOf, Streams) = 0
    BY <2>2, StreamsFinite, SumZero
  <2>6. QED BY <1>2, <1>3, <2>1, <2>3, <2>4, <2>5, AccountsAre
<1>7. BudgetsHold
  BY <1>1, <1>2, <1>3, <1>5, LimitNat, LimitsAssumption DEF BudgetsHold
<1>8. BatchTyped /\ BatchFits
  BY <1>3 DEF BatchTyped, BatchFits, NoBatch
<1>9. QED BY <1>4, <1>6, <1>7, <1>8 DEF Accounts, Books

\* While no publication is being written, a step that keeps the books and does
\* not start one keeps the accounts.
LEMMA QuietStep ==
    ASSUME batch = NoBatch, batch' = batch, Books'
    PROVE  Accounts'
BY DEF Accounts, BatchTyped, BatchFits, NoBatch

LEMMA NextAccounts ==
    ASSUME Accounts, [Next]_vars
    PROVE  Accounts'
<1>1. Books
  BY DEF Accounts
<1>2. ASSUME NEW c \in Conns, NEW outcome \in Outcomes, SendEssential(c, outcome)
      PROVE  Accounts'
  <2>1. Books'
    BY <1>1, <1>2, FramesTyped, WriteControlKeeps DEF SendEssential
  <2>2. QED BY <1>2, <2>1, QuietStep DEF SendEssential
<1>3. ASSUME NEW c \in Conns, NEW outcome \in Outcomes, SendAck(c, outcome)
      PROVE  Accounts'
  <2>1. Books'
    BY <1>1, <1>3, FramesTyped, WriteControlKeeps DEF SendAck
  <2>2. QED BY <1>3, <2>1, QuietStep DEF SendAck
<1>4. ASSUME NEW c \in Conns, NEW outcome \in Outcomes, WriteRecipient(c, outcome)
      PROVE  Accounts'
  BY <1>4, RecipientKeeps
<1>5. ASSUME NEW c \in Conns, NEW outcome \in Outcomes, NEW id \in NackIds,
             SendNack(c, id, outcome)
      PROVE  Accounts'
  <2>1. Books'
    BY <1>1, <1>5, FramesTyped, WriteControlKeeps DEF SendNack
  <2>2. QED BY <1>5, <2>1, QuietStep DEF SendNack
<1>6. ASSUME NEW c \in Conns, NEW outcome \in Outcomes, NEW size \in DataSizes,
             SendUnicast(c, size, outcome)
      PROVE  Accounts'
  <2>1. size \in Nat /\ Data(size) \in Frame /\ Control(c) \in Streams
    BY SizesAssumption, FramesTyped, StreamOf
  <2>2. Books'
    BY <1>1, <1>6, <2>1, WriteDataKeeps DEF SendUnicast
  <2>3. QED BY <1>6, <2>2, QuietStep DEF SendUnicast
<1>7. ASSUME NEW to \in SUBSET Conns, NEW size \in DataSizes, PublishReliable(to, size)
      PROVE  Accounts'
  <2>1. NothingRetained /\ open' = open
    BY <1>7 DEF PublishReliable, NothingRetained
  <2>2. Books'
    BY <1>1, <2>1, NothingKeeps
  <2>3. batch' = [to |-> to, size |-> size] /\ CanAcceptBatch(to, size)
    BY <1>7 DEF PublishReliable
  <2>4. BatchTyped'
    BY <2>3, SizesAssumption DEF BatchTyped
  <2>5. CanAcceptBatch(batch.to, batch.size)'
    <3>1. /\ \A c \in to : /\ (Cost(Track(c), size))' = Cost(Track(c), size)
                           /\ (Growth(Track(c)))' = Growth(Track(c))
                           /\ StreamAccepts(Track(c), size, TRUE)'
      <4> SUFFICES ASSUME NEW c \in to
                   PROVE  /\ (Cost(Track(c), size))' = Cost(Track(c), size)
                          /\ (Growth(Track(c)))' = Growth(Track(c))
                          /\ StreamAccepts(Track(c), size, TRUE)'
        OBVIOUS
      <4>1. StreamAccepts(Track(c), size, TRUE)
        BY <2>3 DEF CanAcceptBatch
      <4>2. PICK s : /\ s = Track(c) /\ StreamAccepts(s, size, TRUE)
        BY <4>1
      <4>3. /\ queue'[s] = queue[s] /\ capacity'[s] = capacity[s] /\ retained'[s] = retained[s]
        BY <2>1 DEF NothingRetained
      <4>4. /\ (Growth(s))' = Growth(s) /\ (Cost(s, size))' = Cost(s, size)
            /\ StreamAccepts(s, size, TRUE)'
        BY <2>1, <4>2, <4>3, SameStream
      <4>5. QED BY <4>2, <4>4
    <3>2. CostsOf(to, size)' = CostsOf(to, size) /\ GrowthsOf(to)' = GrowthsOf(to)
      BY <3>1 DEF CostsOf, GrowthsOf
    <3>3. bytes' = bytes /\ vectors' = vectors
      BY <2>1 DEF NothingRetained
    <3>4. CanAcceptBatch(to, size)'
      BY <2>3, <3>1, <3>2, <3>3, BatchIs
    <3>5. batch'.to = to /\ batch'.size = size
      BY <2>3
    <3>6. CanAcceptBatch(batch.to, batch.size)' <=> CanAcceptBatch(to, size)'
      BY <3>5 DEF CanAcceptBatch, StreamAccepts, EndpointAccepts, Cost
    <3>7. QED BY <3>4, <3>6
  <2>6. QED BY <2>2, <2>4, <2>5 DEF Accounts, BatchFits
<1>8. ASSUME NEW s \in Streams, NEW n \in 1 .. Len(queue[s]), NEW compacts \in BOOLEAN,
             EgressShift(s, n, compacts)
      PROVE  Accounts'
  <2>1. Books'
    BY <1>1, <1>8, ShiftKeeps
  <2>2. QED BY <1>8, <2>1, QuietStep DEF EgressShift
<1>9. ASSUME NEW c \in Conns, ResetTrackStream(c)
      PROVE  Accounts'
  <2>1. {Track(c)} \in SUBSET Streams
    BY StreamOf
  <2>2. DestroyStreams({Track(c)}) /\ batch = NoBatch /\ batch' = batch
    BY <1>9 DEF ResetTrackStream, DestroyStreams
  <2>3. Books'
    BY <1>1, <2>1, <2>2, DestroyKeeps
  <2>4. QED BY <2>2, <2>3, QuietStep
<1>10. ASSUME NEW c \in Conns, FreeConnection(c)
       PROVE  Accounts'
  <2>1. {Control(c), Track(c)} \in SUBSET Streams
    BY StreamOf
  <2>2. DestroyStreams({Control(c), Track(c)}) /\ batch = NoBatch /\ batch' = batch
    BY <1>10 DEF FreeConnection, DestroyStreams
  <2>3. Books'
    BY <1>1, <2>1, <2>2, DestroyKeeps
  <2>4. QED BY <2>2, <2>3, QuietStep
<1>11. CASE UNCHANGED vars
  <2>1. NothingRetained /\ batch' = batch /\ open' = open
    BY <1>11 DEF vars, NothingRetained
  <2>2. Books'
    BY <1>1, <2>1, NothingKeeps
  <2>3. BatchTyped' /\ (BatchFits <=> BatchFits')
    <3>1. BatchTyped'
      BY <2>1 DEF Accounts, BatchTyped
    <3>2. BatchFits <=> BatchFits'
      BY <1>11 DEF vars, BatchFits, CanAcceptBatch, StreamAccepts, EndpointAccepts, Cost,
                   Growth, StreamBytes, FrameLimit
    <3>3. QED BY <3>1, <3>2
  <2>4. QED BY <2>2, <2>3 DEF Accounts
<1>12. QED BY <1>2, <1>3, <1>4, <1>5, <1>6, <1>7, <1>8, <1>9, <1>10, <1>11 DEF Next

\* The inductive invariant of the retained storage (every write, release,
\* reset and freed connection of transport_stream.c keeps it).
THEOREM AccountsHold == Spec => []Accounts
<1>1. Init => Accounts
  BY InitAccounts
<1>2. Accounts /\ [Next]_vars => Accounts'
  BY NextAccounts
<1>3. QED BY <1>1, <1>2, PTL DEF Spec

\* Every charge is given back exactly once, for any number of connections,
\* frames of any size and any limits: what stream_can_accept_reserved reads in
\* the statistics is what the retained frames and the send vectors take.
THEOREM ChargesStayExact == Spec => []ChargesExact
<1>1. Accounts => ChargesExact
  BY DEF Accounts, Books
<1>2. QED BY <1>1, AccountsHold, PTL

\* Retained storage never exceeds the configured limits of a stream and of the
\* endpoint (the checks of stream_can_accept_reserved are enough).
THEOREM RetainedStorageIsBounded == Spec => []BudgetsHold
<1>1. Accounts => BudgetsHold
  BY DEF Accounts, Books
<1>2. QED BY <1>1, AccountsHold, PTL

\* transport_stream_can_accept_batch is enough for all its recipients: as long
\* as the publication goes on, the next recipients are accepted.
THEOREM PreflightSuffices == Spec => []PreflightIsHonoured
<1>1. Accounts => PreflightIsHonoured
  BY FitIsAccepted DEF PreflightIsHonoured
<1>2. QED BY <1>1, AccountsHold, PTL

-----------------------------------------------------------------------------
(* The reserve of essential control *)

\* The last frame was admitted under the reserves.
EndsWithData(q) == q # <<>> /\ q[Len(q)].kind # "control"

\* What the frames in a stream say of its room: whoever wrote the last one left
\* the reserve alone, and nothing has grown since.
Shelters(s, q, cap, r) ==
    /\ q = <<>> => cap = 0
    /\ IsControl(s) /\ EndsWithData(q) =>
         /\ Len(q) <= FrameLimit - ControlFrameReserve
         /\ r + Space(cap) <= StreamLimit - ControlByteReserve

\* What a stream takes of the transport's limits, unless its last frame was
\* admitted without the reserves
Backed(q, n) == IF EndsWithData(q) THEN n ELSE 0
BackedBytes   == [t \in Streams |-> Backed(queue[t], StreamBytes(t))]
BackedVectors == [t \in Streams |-> Backed(queue[t], capacity[t])]

Sheltered ==
    /\ open \subseteq Conns
    /\ \A s \in Streams : Shelters(s, queue[s], capacity[s], retained[s])
    /\ SumFunctionOnSet(BackedBytes, Streams) <= EndpointLimit - EndpointByteReserve
    /\ SumFunctionOnSet(BackedVectors, Streams) <= VectorLimit - VectorReserve

LEMMA ShelteredNext ==
    Sheltered' <=>
      /\ open' \subseteq Conns
      /\ \A s \in Streams : Shelters(s, queue'[s], capacity'[s], retained'[s])
      /\ SumFunctionOnSet(BackedBytes', Streams) <= EndpointLimit - EndpointByteReserve
      /\ SumFunctionOnSet(BackedVectors', Streams) <= VectorLimit - VectorReserve
BY DEF Sheltered, Shelters, EndsWithData, FrameLimit, Space, IsControl

\* The terms, before and after a step
LEMMA BackedAre ==
    ASSUME Typed, Typed'
    PROVE  \A t \in Streams :
             /\ BackedBytes[t] = Backed(queue[t], StreamBytes(t))
             /\ BackedBytes'[t] = Backed(queue'[t], (StreamBytes(t))')
             /\ BackedVectors[t] = Backed(queue[t], capacity[t])
             /\ BackedVectors'[t] = Backed(queue'[t], capacity'[t])
             /\ BackedBytes[t] \in Nat /\ BackedBytes'[t] \in Nat
             /\ BackedVectors[t] \in Nat /\ BackedVectors'[t] \in Nat
             /\ StreamBytes(t) \in Nat /\ (StreamBytes(t))' \in Nat
             /\ capacity[t] \in Nat /\ capacity'[t] \in Nat
<1> SUFFICES ASSUME NEW t \in Streams
             PROVE  /\ BackedBytes[t] = Backed(queue[t], StreamBytes(t))
                    /\ BackedBytes'[t] = Backed(queue'[t], (StreamBytes(t))')
                    /\ BackedVectors[t] = Backed(queue[t], capacity[t])
                    /\ BackedVectors'[t] = Backed(queue'[t], capacity'[t])
                    /\ BackedBytes[t] \in Nat /\ BackedBytes'[t] \in Nat
                    /\ BackedVectors[t] \in Nat /\ BackedVectors'[t] \in Nat
                    /\ StreamBytes(t) \in Nat /\ (StreamBytes(t))' \in Nat
                    /\ capacity[t] \in Nat /\ capacity'[t] \in Nat
  OBVIOUS
<1>1. /\ BackedBytes[t] = Backed(queue[t], StreamBytes(t))
      /\ BackedBytes'[t] = Backed(queue'[t], (StreamBytes(t))')
      /\ BackedVectors[t] = Backed(queue[t], capacity[t])
      /\ BackedVectors'[t] = Backed(queue'[t], capacity'[t])
  BY DEF BackedBytes, BackedVectors, Backed, EndsWithData
<1>2. /\ capacity[t] \in Nat /\ retained[t] \in Nat
      /\ capacity'[t] \in Nat /\ retained'[t] \in Nat
  BY DEF Typed
<1>3. Space(capacity[t]) \in Nat /\ Space(capacity'[t]) \in Nat
  BY <1>2, SpaceAdds
<1>4. StreamBytes(t) \in Nat /\ (StreamBytes(t))' \in Nat
  BY <1>2, <1>3, StreamBytesIs
<1>5. \A q : \A n \in Nat : Backed(q, n) \in Nat
  BY DEF Backed
<1>6. QED BY <1>1, <1>2, <1>4, <1>5

\* A step after which no stream counts for more keeps the shelter of the rest.
LEMMA LessIsSheltered ==
    ASSUME Typed, Typed', Sheltered, open' \subseteq Conns,
           \A t \in Streams : Shelters(t, queue'[t], capacity'[t], retained'[t]),
           \A t \in Streams : EndsWithData(queue'[t]) =>
              /\ EndsWithData(queue[t])
              /\ (StreamBytes(t))' <= StreamBytes(t) /\ capacity'[t] <= capacity[t]
    PROVE  Sheltered'
<1>1. \A t \in Streams : /\ BackedBytes'[t] \in Int /\ BackedBytes[t] \in Int
                         /\ BackedBytes'[t] <= BackedBytes[t]
  BY BackedAre DEF Backed
<1>2. \A t \in Streams : /\ BackedVectors'[t] \in Int /\ BackedVectors[t] \in Int
                         /\ BackedVectors'[t] <= BackedVectors[t]
  BY BackedAre DEF Backed
<1>3. /\ SumFunctionOnSet(BackedBytes', Streams) \in Int
      /\ SumFunctionOnSet(BackedBytes, Streams) \in Int
      /\ SumFunctionOnSet(BackedBytes', Streams) <= SumFunctionOnSet(BackedBytes, Streams)
  BY <1>1, StreamsFinite, SumMonotone
<1>4. /\ SumFunctionOnSet(BackedVectors', Streams) \in Int
      /\ SumFunctionOnSet(BackedVectors, Streams) \in Int
      /\ SumFunctionOnSet(BackedVectors', Streams) <= SumFunctionOnSet(BackedVectors, Streams)
  BY <1>2, StreamsFinite, SumMonotone
<1>5. SumFunctionOnSet(BackedBytes', Streams) <= EndpointLimit - EndpointByteReserve
  BY <1>3, LimitsAssumption DEF Sheltered
<1>6. SumFunctionOnSet(BackedVectors', Streams) <= VectorLimit - VectorReserve
  BY <1>4, LimitsAssumption DEF Sheltered
<1>7. QED BY <1>5, <1>6, ShelteredNext

\* A frame is written: an essential one against the limits, any other against
\* what the reserves leave of them.
LEMMA RetainShelters ==
    ASSUME Books, Sheltered, NEW s \in Streams, NEW frame \in Frame,
           NEW preserve \in BOOLEAN, frame.kind # "control" => preserve,
           CanAccept(s, frame.size, preserve), Retain(s, frame), open' \subseteq Conns
    PROVE  Sheltered'
<1> DEFINE q == Append(queue[s], frame)
           cap == capacity[s] + Growth(s)
           r == retained[s] + frame.size
<1>1. Typed /\ Typed' /\ ChargesExact'
  BY RetainKeeps DEF Books
<1>2. \A t \in Streams \ {s} : /\ queue'[t] = queue[t] /\ capacity'[t] = capacity[t]
                               /\ retained'[t] = retained[t]
  BY RetainKeeps
<1>3. /\ queue'[s] = q /\ capacity'[s] = cap /\ retained'[s] = r
      /\ bytes' = bytes + Cost(s, frame.size) /\ vectors' = vectors + Growth(s)
  BY <1>1 DEF Retain, Typed
<1>4. /\ queue[s] \in Seq(Frame) /\ Len(queue[s]) \in Nat /\ capacity[s] \in Nat
      /\ retained[s] \in Nat /\ Growth(s) \in Nat /\ frame.size \in Nat
      /\ Space(capacity[s]) \in Nat /\ Space(Growth(s)) \in Nat
      /\ StreamBytes(s) \in Nat /\ Cost(s, frame.size) \in Nat
  BY <1>1, FrameSizes, GrowthNat
<1>5. /\ Len(q) = Len(queue[s]) + 1 /\ q[Len(q)] = frame /\ q # <<>>
      /\ \A i \in 1 .. Len(queue[s]) : q[i] = queue[s][i]
  BY <1>4
<1>6. r + Space(cap) = StreamBytes(s) + Cost(s, frame.size)
  <2>1. Space(cap) = Space(capacity[s]) + Space(Growth(s))
    BY <1>4, SpaceAdds
  <2>2. /\ StreamBytes(s) = retained[s] + Space(capacity[s])
        /\ Cost(s, frame.size) = frame.size + Space(Growth(s))
    BY StreamBytesIs, CostIs
  <2>3. QED BY <1>4, <2>1, <2>2
<1>7. ASSUME frame.kind # "control"
      PROVE  /\ IsControl(s) => /\ Len(queue[s]) < FrameLimit - ControlFrameReserve
                                /\ StreamBytes(s) + Cost(s, frame.size)
                                     <= StreamLimit - ControlByteReserve
             /\ bytes + Cost(s, frame.size) <= EndpointLimit - EndpointByteReserve
             /\ vectors + Growth(s) <= VectorLimit - VectorReserve
  <2>1. preserve
    BY <1>7
  <2>2. QED BY <2>1 DEF CanAccept, StreamAccepts, EndpointAccepts
<1>8. Shelters(s, q, cap, r)
  <2>3. ASSUME IsControl(s), EndsWithData(q)
        PROVE  /\ Len(q) <= FrameLimit - ControlFrameReserve
               /\ r + Space(cap) <= StreamLimit - ControlByteReserve
    <3>1. frame.kind # "control"
      BY <1>5, <2>3 DEF EndsWithData
    <3>2. /\ Len(queue[s]) < FrameLimit - ControlFrameReserve
          /\ StreamBytes(s) + Cost(s, frame.size) <= StreamLimit - ControlByteReserve
      BY <1>7, <2>3, <3>1
    <3>3. FrameLimit - ControlFrameReserve \in Int
      BY LimitNat, LimitsAssumption
    <3>4. Len(q) <= FrameLimit - ControlFrameReserve
      BY <1>4, <1>5, <3>2, <3>3
    <3>5. QED BY <1>6, <3>2, <3>4
  <2>4. QED BY <1>5, <2>3 DEF Shelters
<1>9. \A t \in Streams : Shelters(t, queue'[t], capacity'[t], retained'[t])
  <2> SUFFICES ASSUME NEW t \in Streams
               PROVE  Shelters(t, queue'[t], capacity'[t], retained'[t])
    OBVIOUS
  <2>1. CASE t = s
    BY <1>3, <1>8, <2>1
  <2>2. CASE t # s
    BY <1>2, <2>2 DEF Sheltered
  <2>3. QED BY <2>1, <2>2
<1> HIDE DEF q, cap, r
<1>10. CASE frame.kind = "control"
  <2>1. ASSUME NEW t \in Streams, EndsWithData(queue'[t])
        PROVE  /\ EndsWithData(queue[t])
               /\ (StreamBytes(t))' <= StreamBytes(t) /\ capacity'[t] <= capacity[t]
    <3>1. t # s
      BY <1>3, <1>5, <1>10, <2>1 DEF EndsWithData
    <3>2. queue'[t] = queue[t] /\ capacity'[t] = capacity[t] /\ retained'[t] = retained[t]
      BY <1>2, <3>1
    <3>3. (StreamBytes(t))' = StreamBytes(t)
      BY <3>2, StreamBytesIs
    <3>4. StreamBytes(t) \in Nat /\ capacity[t] \in Nat
      BY <1>1, BackedAre
    <3>5. QED BY <2>1, <3>2, <3>3, <3>4
  <2>2. QED BY <1>1, <1>9, <2>1, LessIsSheltered
<1>11. CASE frame.kind # "control"
  <2>1. \A t \in Streams : /\ BackedBytes'[t] \in Int /\ BytesOf'[t] \in Int
                           /\ BackedBytes'[t] <= BytesOf'[t]
    BY <1>1, BackedAre DEF Backed, BytesOf
  <2>2. \A t \in Streams : /\ BackedVectors'[t] \in Int /\ VectorsOf'[t] \in Int
                           /\ BackedVectors'[t] <= VectorsOf'[t]
    BY <1>1, BackedAre DEF Backed, VectorsOf
  <2>3. /\ SumFunctionOnSet(BackedBytes', Streams) \in Int
        /\ SumFunctionOnSet(BytesOf', Streams) \in Int
        /\ SumFunctionOnSet(BackedBytes', Streams) <= SumFunctionOnSet(BytesOf', Streams)
    BY <2>1, StreamsFinite, SumMonotone
  <2>4. /\ SumFunctionOnSet(BackedVectors', Streams) \in Int
        /\ SumFunctionOnSet(VectorsOf', Streams) \in Int
        /\ SumFunctionOnSet(BackedVectors', Streams) <= SumFunctionOnSet(VectorsOf', Streams)
    BY <2>2, StreamsFinite, SumMonotone
  <2>5. /\ bytes' = SumFunctionOnSet(BytesOf', Streams)
        /\ vectors' = SumFunctionOnSet(VectorsOf', Streams)
    BY <1>1, AccountsAre
  <2>6. SumFunctionOnSet(BackedBytes', Streams) <= EndpointLimit - EndpointByteReserve
    <3>1. bytes' <= EndpointLimit - EndpointByteReserve
      BY <1>3, <1>7, <1>11
    <3>2. EndpointLimit - EndpointByteReserve \in Int
      BY LimitsAssumption
    <3>3. QED BY <2>3, <2>5, <3>1, <3>2
  <2>7. SumFunctionOnSet(BackedVectors', Streams) <= VectorLimit - VectorReserve
    <3>1. vectors' <= VectorLimit - VectorReserve
      BY <1>3, <1>7, <1>11
    <3>2. VectorLimit - VectorReserve \in Int
      BY LimitsAssumption
    <3>3. QED BY <2>4, <2>5, <3>1, <3>2
  <2>8. QED BY <1>9, <2>6, <2>7, ShelteredNext
<1>12. QED BY <1>10, <1>11

\* Acknowledgements take frames from the front; the last one stays the last.
LEMMA ShiftShelters ==
    ASSUME Books, Sheltered, NEW s \in Streams, NEW n \in 1 .. Len(queue[s]),
           NEW compacts \in BOOLEAN, EgressShift(s, n, compacts)
    PROVE  Sheltered'
<1> DEFINE p == queue[s]
           done == SubSeq(p, 1, n)
           q == SubSeq(p, n + 1, Len(p))
           cap == IF compacts \/ q = <<>> THEN Compacted(capacity[s], Len(q)) ELSE capacity[s]
           left == TotalSize(done)
           r == retained[s] - left
<1>1. Typed /\ Typed'
  BY ShiftKeeps DEF Books
<1>2. /\ p \in Seq(Frame) /\ Len(p) \in Nat /\ capacity[s] \in Nat /\ retained[s] \in Nat
      /\ StreamBytes(s) \in Nat
  BY <1>1, GrowthNat
<1>3. /\ queue' = [queue EXCEPT ![s] = q] /\ capacity' = [capacity EXCEPT ![s] = cap]
      /\ retained' = [retained EXCEPT ![s] = @ - left] /\ open' = open
  BY DEF EgressShift
<1>4. /\ queue'[s] = q /\ capacity'[s] = cap /\ retained'[s] = r
      /\ \A t \in Streams \ {s} : /\ queue'[t] = queue[t] /\ capacity'[t] = capacity[t]
                                  /\ retained'[t] = retained[t]
  BY <1>1, <1>3 DEF Typed
<1>5. done \in Seq(Frame) /\ q \in Seq(Frame) /\ Len(q) = Len(p) - n
  <2>1. n \in 0 .. Len(p)
    BY <1>2
  <2>2. QED BY <1>2, <2>1, FrameSizes, SizeSumCut
<1>6. \A i \in 1 .. Len(q) : q[i] = p[n + i] /\ n + i \in 1 .. Len(p)
  BY <1>2, <1>5
<1>7. left \in Nat
  BY <1>5, TotalSizeNat
<1>8. r \in Nat /\ cap \in Nat
  BY <1>1, <1>4 DEF Typed
<1>9. cap <= capacity[s] /\ (q = <<>> => cap = 0)
  <2>1. Len(q) \in Nat
    BY <1>5
  <2>2. Compacted(capacity[s], Len(q)) <= capacity[s]
    BY <1>2, <2>1, CompactedShrinks
  <2>3. q = <<>> => Compacted(capacity[s], Len(q)) = 0
    BY DEF Compacted
  <2> HIDE DEF q
  <2>4. QED BY <1>2, <2>2, <2>3
<1>10. Shelters(s, p, capacity[s], retained[s])
  BY DEF Sheltered
<1>12. EndsWithData(q) => EndsWithData(p)
  <2> SUFFICES ASSUME EndsWithData(q) PROVE EndsWithData(p)
    OBVIOUS
  <2>1. Len(q) \in Nat /\ Len(q) # 0
    BY <1>5 DEF EndsWithData
  <2>2. Len(q) \in 1 .. Len(q) /\ n + Len(q) = Len(p)
    BY <1>2, <1>5, <2>1
  <2>3. q[Len(q)] = p[Len(p)]
    BY <1>6, <2>2
  <2>4. p # <<>>
    BY <1>2, <1>5
  <2>5. QED BY <2>3, <2>4 DEF EndsWithData
<1> HIDE DEF q, cap, r, left, done
<1>13. r + Space(cap) <= retained[s] + Space(capacity[s])
  <2>1. Space(cap) <= Space(capacity[s]) /\ Space(cap) \in Nat /\ Space(capacity[s]) \in Nat
    BY <1>2, <1>8, <1>9, SpaceAdds
  <2>2. r <= retained[s]
    BY <1>2, <1>7 DEF r
  <2>3. QED BY <1>2, <1>8, <2>1, <2>2
<1>14. Shelters(s, q, cap, r)
  <2>2. ASSUME IsControl(s), EndsWithData(q)
        PROVE  /\ Len(q) <= FrameLimit - ControlFrameReserve
               /\ r + Space(cap) <= StreamLimit - ControlByteReserve
    <3>1. /\ Len(p) <= FrameLimit - ControlFrameReserve
          /\ retained[s] + Space(capacity[s]) <= StreamLimit - ControlByteReserve
      BY <1>10, <1>12, <2>2 DEF Shelters
    <3>2. FrameLimit - ControlFrameReserve \in Int /\ StreamLimit - ControlByteReserve \in Int
      BY LimitNat, LimitsAssumption
    <3>3. Len(q) <= Len(p) /\ Len(q) \in Nat
      <4> HIDE DEF p
      <4> QED BY <1>2, <1>5
    <3>4. /\ r + Space(cap) \in Int /\ retained[s] + Space(capacity[s]) \in Int
      <4>1. Space(cap) \in Nat /\ Space(capacity[s]) \in Nat
        BY <1>2, <1>8, SpaceAdds
      <4>2. QED BY <1>2, <1>8, <4>1
    <3>5. Len(q) <= FrameLimit - ControlFrameReserve
      BY <1>2, <3>1, <3>2, <3>3
    <3>6. r + Space(cap) <= StreamLimit - ControlByteReserve
      BY <1>13, <3>1, <3>2, <3>4
    <3>7. QED BY <3>5, <3>6
  <2>3. QED BY <1>9, <2>2 DEF Shelters
<1>15. \A t \in Streams : Shelters(t, queue'[t], capacity'[t], retained'[t])
  <2> SUFFICES ASSUME NEW t \in Streams
               PROVE  Shelters(t, queue'[t], capacity'[t], retained'[t])
    OBVIOUS
  <2>1. CASE t = s
    BY <1>4, <1>14, <2>1
  <2>2. CASE t # s
    BY <1>4, <2>2 DEF Sheltered
  <2>3. QED BY <2>1, <2>2
<1>16. ASSUME NEW t \in Streams, EndsWithData(queue'[t])
       PROVE  /\ EndsWithData(queue[t])
              /\ (StreamBytes(t))' <= StreamBytes(t) /\ capacity'[t] <= capacity[t]
  <2>1. CASE t = s
    BY <1>4, <1>9, <1>12, <1>13, <1>16, <2>1, StreamBytesIs
  <2>2. CASE t # s
    <3>1. queue'[t] = queue[t] /\ capacity'[t] = capacity[t] /\ retained'[t] = retained[t]
      BY <1>4, <2>2
    <3>2. (StreamBytes(t))' = StreamBytes(t)
      BY <3>1, StreamBytesIs
    <3>3. StreamBytes(t) \in Nat /\ capacity[t] \in Nat
      BY <1>1, BackedAre
    <3>4. QED BY <1>16, <3>1, <3>2, <3>3
  <2>3. QED BY <2>1, <2>2
<1>17. open' \subseteq Conns
  BY <1>3 DEF Sheltered
<1>18. QED BY <1>1, <1>15, <1>16, <1>17, LessIsSheltered

\* Streams that are destroyed take nothing any more.
LEMMA DestroyShelters ==
    ASSUME Books, Sheltered, NEW P \in SUBSET Streams, DestroyStreams(P), open' \subseteq Conns
    PROVE  Sheltered'
<1>1. Typed /\ Typed'
  BY DestroyKeeps DEF Books
<1>2. /\ \A t \in P : queue'[t] = <<>> /\ capacity'[t] = 0 /\ retained'[t] = 0
      /\ \A t \in Streams \ P : /\ queue'[t] = queue[t] /\ capacity'[t] = capacity[t]
                                /\ retained'[t] = retained[t]
  BY DEF DestroyStreams
<1>3. \A t \in Streams : Shelters(t, queue'[t], capacity'[t], retained'[t])
  <2> SUFFICES ASSUME NEW t \in Streams
               PROVE  Shelters(t, queue'[t], capacity'[t], retained'[t])
    OBVIOUS
  <2>1. CASE t \in P
    <3>1. Shelters(t, <<>>, 0, 0)
      BY DEF Shelters, EndsWithData
    <3>2. QED BY <1>2, <2>1, <3>1
  <2>2. CASE t \notin P
    BY <1>2, <2>2 DEF Sheltered
  <2>3. QED BY <2>1, <2>2
<1>4. ASSUME NEW t \in Streams, EndsWithData(queue'[t])
      PROVE  /\ EndsWithData(queue[t])
             /\ (StreamBytes(t))' <= StreamBytes(t) /\ capacity'[t] <= capacity[t]
  <2>1. t \notin P
    BY <1>2, <1>4 DEF EndsWithData
  <2>2. queue'[t] = queue[t] /\ capacity'[t] = capacity[t] /\ retained'[t] = retained[t]
    BY <1>2, <2>1
  <2>3. (StreamBytes(t))' = StreamBytes(t)
    BY <2>2, StreamBytesIs
  <2>4. StreamBytes(t) \in Nat /\ capacity[t] \in Nat
    BY <1>1, BackedAre
  <2>5. QED BY <1>4, <2>2, <2>3, <2>4
<1>5. QED BY <1>1, <1>3, <1>4, LessIsSheltered

LEMMA NothingShelters ==
    ASSUME Books, Sheltered, NothingRetained, open' \subseteq Conns
    PROVE  Sheltered'
<1>1. Typed /\ Typed'
  BY NothingKeeps DEF Books
<1>2. \A t \in Streams : /\ queue'[t] = queue[t] /\ capacity'[t] = capacity[t]
                         /\ retained'[t] = retained[t]
  BY DEF NothingRetained
<1>3. \A t \in Streams : Shelters(t, queue'[t], capacity'[t], retained'[t])
  BY <1>2 DEF Sheltered
<1>4. ASSUME NEW t \in Streams, EndsWithData(queue'[t])
      PROVE  /\ EndsWithData(queue[t])
             /\ (StreamBytes(t))' <= StreamBytes(t) /\ capacity'[t] <= capacity[t]
  <2>1. (StreamBytes(t))' = StreamBytes(t)
    BY <1>2, StreamBytesIs
  <2>2. StreamBytes(t) \in Nat /\ capacity[t] \in Nat
    BY <1>1, BackedAre
  <2>3. QED BY <1>2, <1>4, <2>1, <2>2
<1>5. QED BY <1>1, <1>3, <1>4, LessIsSheltered

LEMMA WriteDataShelters ==
    ASSUME Books, Sheltered, NEW s \in Streams, NEW size \in DataSizes, NEW outcome,
           WriteData(s, Data(size), outcome)
    PROVE  Sheltered'
<1>1. open' \subseteq Conns
  BY DEF WriteData, Close, Sheltered
<1>2. /\ Data(size) \in Frame /\ TRUE \in BOOLEAN
      /\ Data(size).kind # "control"
  BY FramesTyped, SizesAssumption DEF Data
<1>3. CASE outcome = "no_memory"
  BY <1>1, <1>3, NothingShelters DEF WriteData
<1>4. CASE outcome # "no_memory"
  <2> DEFINE f == Data(size)
  <2>1. CanAccept(s, f.size, TRUE) /\ Retain(s, f)
    BY <1>4 DEF WriteData
  <2>2. f \in Frame
    BY <1>2
  <2> HIDE DEF f
  <2>3. QED BY <1>1, <2>1, <2>2, RetainShelters
<1>5. QED BY <1>3, <1>4

\* preserve: whether the reserves were left alone before the frame was written
LEMMA WriteControlShelters ==
    ASSUME Books, Sheltered, NEW c \in Conns, NEW frame \in Frame,
           NEW outcome, WriteControl(c, frame, outcome),
           frame.kind # "control" => CanAccept(Control(c), frame.size, TRUE)
    PROVE  Sheltered'
<1>1. open' \subseteq Conns
  BY DEF WriteControl, Close, Sheltered
<1>2. CASE CanAccept(Control(c), frame.size, FALSE) /\ outcome # "no_memory"
  <2> DEFINE preserve == frame.kind # "control"
  <2>1. /\ CanAccept(Control(c), frame.size, preserve) /\ Retain(Control(c), frame)
        /\ preserve \in BOOLEAN /\ Control(c) \in Streams
    BY <1>2, StreamOf DEF WriteControl
  <2>2. frame.kind # "control" => preserve
    OBVIOUS
  <2> HIDE DEF preserve
  <2>3. QED BY <1>1, <2>1, <2>2, RetainShelters
<1>3. CASE ~(CanAccept(Control(c), frame.size, FALSE) /\ outcome # "no_memory")
  BY <1>1, <1>3, NothingShelters DEF WriteControl
<1>4. QED BY <1>2, <1>3

\* A publication is of a size the application sends.
BatchSized == batch.to # {} => batch.size \in DataSizes

LEMMA InitSheltered == Init => Sheltered /\ BatchSized
<1> SUFFICES ASSUME Init PROVE Sheltered /\ BatchSized
  OBVIOUS
<1>1. \A s \in Streams : queue[s] = <<>> /\ capacity[s] = 0 /\ retained[s] = 0
  BY DEF Init
<1>2. \A s \in Streams : Shelters(s, queue[s], capacity[s], retained[s])
  <2> SUFFICES ASSUME NEW s \in Streams PROVE Shelters(s, <<>>, 0, 0)
    BY <1>1
  <2>1. QED BY DEF Shelters, EndsWithData
<1>3. \A s \in Streams : BackedBytes[s] = 0 /\ BackedVectors[s] = 0
  BY <1>1 DEF BackedBytes, BackedVectors, Backed, EndsWithData
<1>4. /\ SumFunctionOnSet(BackedBytes, Streams) = 0
      /\ SumFunctionOnSet(BackedVectors, Streams) = 0
  BY <1>3, StreamsFinite, SumZero
<1>5. 0 <= EndpointLimit - EndpointByteReserve /\ 0 <= VectorLimit - VectorReserve
  BY LimitsAssumption
<1>6. open \subseteq Conns /\ batch.to = {}
  BY DEF Init, NoBatch
<1>7. QED BY <1>2, <1>4, <1>5, <1>6 DEF Sheltered, BatchSized

LEMMA NextSheltered ==
    ASSUME Accounts, Sheltered, BatchSized, [Next]_vars
    PROVE  Sheltered' /\ BatchSized'
<1>1. Books
  BY DEF Accounts
<1>2. batch' = NoBatch => BatchSized'
  BY DEF BatchSized, NoBatch
<1>3. Essential \in Frame /\ Essential.kind = "control"
  BY FramesTyped DEF Essential
<1>4. ASSUME NEW c \in Conns, NEW outcome \in Outcomes,
             SendEssential(c, outcome) \/ SendAck(c, outcome)
      PROVE  Sheltered' /\ BatchSized'
  <2>1. WriteControl(c, Essential, outcome) /\ batch' = NoBatch
    BY <1>4 DEF SendEssential, SendAck
  <2>2. QED BY <1>1, <1>2, <1>3, <2>1, WriteControlShelters
<1>5. ASSUME NEW c \in Conns, NEW outcome \in Outcomes, NEW id \in NackIds,
             SendNack(c, id, outcome)
      PROVE  Sheltered' /\ BatchSized'
  <2> DEFINE f == NackFrame(id)
  <2>1. f \in Frame /\ f.size = NackSize
    BY FramesTyped DEF NackFrame
  <2>2. /\ WriteControl(c, f, outcome) /\ CanAccept(Control(c), f.size, TRUE)
        /\ batch' = NoBatch
    BY <1>5, <2>1 DEF SendNack
  <2> HIDE DEF f
  <2>3. QED BY <1>1, <1>2, <2>1, <2>2, WriteControlShelters
<1>6. ASSUME NEW c \in Conns, NEW outcome \in Outcomes, NEW size \in DataSizes,
             SendUnicast(c, size, outcome)
      PROVE  Sheltered' /\ BatchSized'
  <2>1. /\ WriteData(Control(c), Data(size), outcome) /\ batch' = NoBatch
        /\ Control(c) \in Streams
    BY <1>6, StreamOf DEF SendUnicast
  <2>2. QED BY <1>1, <1>2, <2>1, WriteDataShelters
<1>7. ASSUME NEW c \in Conns, NEW outcome \in Outcomes, WriteRecipient(c, outcome)
      PROVE  Sheltered' /\ BatchSized'
  <2>1. c \in batch.to
    BY <1>7 DEF WriteRecipient
  <2>2. batch.size \in DataSizes /\ CanAccept(Track(c), batch.size, TRUE)
    BY <2>1, FitIsAccepted DEF BatchSized
  <2>3. WriteData(Track(c), Data(batch.size), outcome) /\ Track(c) \in Streams
    BY <1>7, <2>2, StreamOf DEF WriteRecipient
  <2>4. Sheltered'
    BY <1>1, <2>2, <2>3, WriteDataShelters
  <2>5. batch' = NoBatch \/ batch' = [batch EXCEPT !.to = @ \ {c}]
    BY <1>7 DEF WriteRecipient
  <2>6. batch' = [batch EXCEPT !.to = @ \ {c}] => batch'.size = batch.size
    BY DEF Accounts, BatchTyped
  <2>7. BatchSized'
    BY <1>2, <2>2, <2>5, <2>6 DEF BatchSized
  <2>8. QED BY <2>4, <2>7
<1>8. ASSUME NEW to \in SUBSET Conns, NEW size \in DataSizes, PublishReliable(to, size)
      PROVE  Sheltered' /\ BatchSized'
  <2>1. NothingRetained /\ open' = open /\ batch' = [to |-> to, size |-> size]
    BY <1>8 DEF PublishReliable, NothingRetained
  <2>2. Sheltered'
    BY <1>1, <2>1, NothingShelters DEF Sheltered
  <2>3. BatchSized'
    BY <2>1 DEF BatchSized
  <2>4. QED BY <2>2, <2>3
<1>9. ASSUME NEW s \in Streams, NEW n \in 1 .. Len(queue[s]), NEW compacts \in BOOLEAN,
             EgressShift(s, n, compacts)
      PROVE  Sheltered' /\ BatchSized'
  <2>1. Sheltered'
    BY <1>1, <1>9, ShiftShelters
  <2>2. batch' = NoBatch
    BY <1>9 DEF EgressShift
  <2>3. QED BY <1>2, <2>1, <2>2
<1>10. ASSUME NEW c \in Conns, ResetTrackStream(c)
       PROVE  Sheltered' /\ BatchSized'
  <2>1. {Track(c)} \in SUBSET Streams
    BY StreamOf
  <2>2. DestroyStreams({Track(c)}) /\ open' = open /\ batch' = NoBatch
    BY <1>10 DEF ResetTrackStream, DestroyStreams
  <2>3. open' \subseteq Conns
    BY <2>2 DEF Sheltered
  <2>4. QED BY <1>1, <1>2, <2>1, <2>2, <2>3, DestroyShelters
<1>11. ASSUME NEW c \in Conns, FreeConnection(c)
       PROVE  Sheltered' /\ BatchSized'
  <2>1. {Control(c), Track(c)} \in SUBSET Streams
    BY StreamOf
  <2>2. DestroyStreams({Control(c), Track(c)}) /\ open' = open \cup {c} /\ batch' = NoBatch
    BY <1>11 DEF FreeConnection, DestroyStreams
  <2>3. open' \subseteq Conns
    BY <2>2 DEF Sheltered
  <2>4. QED BY <1>1, <1>2, <2>1, <2>2, <2>3, DestroyShelters
<1>12. CASE UNCHANGED vars
  <2>1. NothingRetained /\ batch' = batch /\ open' = open
    BY <1>12 DEF vars, NothingRetained
  <2>2. Sheltered'
    BY <1>1, <2>1, NothingShelters DEF Sheltered
  <2>3. QED BY <2>1, <2>2 DEF BatchSized
<1>13. QED BY <1>4, <1>5, <1>6, <1>7, <1>8, <1>9, <1>10, <1>11, <1>12 DEF Next

\* While no essential frame is retained, every stream counts against what the
\* reserves leave.
LEMMA AllBacked ==
    ASSUME Books, Sheltered, NoEssentialRetained
    PROVE  /\ \A s \in Streams : /\ queue[s] = <<>> \/ EndsWithData(queue[s])
                                 /\ \A i \in 1 .. Len(queue[s]) : queue[s][i].kind # "control"
           /\ bytes <= EndpointLimit - EndpointByteReserve
           /\ vectors <= VectorLimit - VectorReserve
<1>1. Typed /\ ChargesExact
  BY DEF Books
<1>2. ASSUME NEW s \in Streams
      PROVE  /\ queue[s] = <<>> \/ EndsWithData(queue[s])
             /\ \A i \in 1 .. Len(queue[s]) : queue[s][i].kind # "control"
  <2>1. queue[s] \in Seq(Frame) /\ Len(queue[s]) \in Nat /\ DOMAIN queue[s] = 1 .. Len(queue[s])
    BY <1>1 DEF Typed
  <2>2. \A i \in 1 .. Len(queue[s]) : queue[s][i].kind # "control"
    BY <2>1 DEF NoEssentialRetained
  <2>3. queue[s] # <<>> => Len(queue[s]) \in 1 .. Len(queue[s])
    BY <2>1
  <2>4. QED BY <2>2, <2>3 DEF EndsWithData
<1>3. ASSUME NEW s \in Streams, queue[s] = <<>>
      PROVE  StreamBytes(s) = 0 /\ capacity[s] = 0
  <2>1. capacity[s] = 0
    BY <1>3 DEF Sheltered, Shelters
  <2>2. retained[s] = TotalSize(<<>>)
    BY <1>1, <1>3 DEF ChargesExact
  <2>3. TotalSize(<<>>) = 0
    <3>1. <<>> \in Seq(Frame)
      OBVIOUS
    <3>2. QED BY <3>1, TotalSizeNat, SizeSumEmpty
  <2>4. StreamBytes(s) = 0 + Space(0)
    BY <2>1, <2>2, <2>3, StreamBytesIs
  <2>5. QED BY <2>1, <2>4, SpaceOfNone
<1>4. \A s \in Streams : StreamBytes(s) \in Nat /\ capacity[s] \in Nat
  BY <1>1, FrameSizes, GrowthNat
<1>5. \A s \in Streams : /\ BytesOf[s] \in Int /\ BytesOf[s] = BackedBytes[s]
                         /\ VectorsOf[s] \in Int /\ VectorsOf[s] = BackedVectors[s]
  BY <1>2, <1>3, <1>4 DEF BytesOf, VectorsOf, BackedBytes, BackedVectors, Backed
<1>6. SumFunctionOnSet(BytesOf, Streams) = SumFunctionOnSet(BackedBytes, Streams)
  BY <1>5, StreamsFinite, SumAgree
<1>7. SumFunctionOnSet(VectorsOf, Streams) = SumFunctionOnSet(BackedVectors, Streams)
  BY <1>5, StreamsFinite, SumAgree
<1>8. QED BY <1>1, <1>2, <1>6, <1>7, AccountsAre DEF Sheltered

LEMMA ReservesOfStream ==
    ASSUME Books, Sheltered, NoEssentialRetained, NEW c \in Conns
    PROVE  /\ StreamBytes(Control(c)) <= StreamLimit - ControlByteReserve
           /\ Len(queue[Control(c)]) <= FrameLimit - ControlFrameReserve
<1> PICK s : s = Control(c)
  OBVIOUS
<1>1. /\ s \in Streams /\ Typed /\ IsControl(s)
  BY StreamOf DEF Books, IsControl, Control
<1>2. queue[s] = <<>> \/ EndsWithData(queue[s])
  BY <1>1, AllBacked
<1>3. Shelters(s, queue[s], capacity[s], retained[s])
  BY <1>1 DEF Sheltered
<1>4. /\ StreamLimit \in Nat /\ ControlByteReserve \in Nat /\ ControlFrameReserve \in Nat
      /\ ControlByteReserve <= StreamLimit
      /\ FrameLimit \in Nat /\ ControlFrameReserve <= FrameLimit
  <2>1. /\ ControlFrameReserve <= StreamLimit \div MinFrameBytes
        /\ ControlFrameReserve <= VectorLimit
    BY LimitsAssumption
  <2>2. QED BY <2>1, LimitNat, LimitsAssumption DEF FrameLimit
<1>5. CASE queue[s] = <<>>
  <2>1. Len(queue[s]) = 0
    BY <1>5
  <2>2. StreamBytes(s) = 0
    <3>1. capacity[s] = 0
      BY <1>3, <1>5 DEF Shelters
    <3>2. retained[s] = TotalSize(<<>>)
      BY <1>1, <1>5 DEF Books, ChargesExact
    <3>3. TotalSize(<<>>) = 0
      <4>1. <<>> \in Seq(Frame)
        OBVIOUS
      <4>2. QED BY <4>1, TotalSizeNat, SizeSumEmpty
    <3>4. QED BY <3>1, <3>2, <3>3, StreamBytesIs, SpaceOfNone
  <2>3. QED BY <1>4, <2>1, <2>2
<1>6. CASE EndsWithData(queue[s])
  <2>1. /\ Len(queue[s]) <= FrameLimit - ControlFrameReserve
        /\ retained[s] + Space(capacity[s]) <= StreamLimit - ControlByteReserve
    BY <1>1, <1>3, <1>6 DEF Shelters
  <2>2. StreamBytes(s) = retained[s] + Space(capacity[s])
    BY StreamBytesIs
  <2>3. QED BY <2>1, <2>2
<1>7. QED BY <1>2, <1>5, <1>6

\* What application data, NACKs and publications leave of the limits: once the
\* essential frames are acknowledged the reserves of every control stream and
\* of the transport are whole again, after any sequence of writes,
\* acknowledgements, compactions that fail, resets and freed connections.
THEOREM ReservesStayLeft == Spec => []ReservesAreLeft
<1>1. Init => Accounts /\ Sheltered /\ BatchSized
  BY InitAccounts, InitSheltered
<1>2. Accounts /\ Sheltered /\ BatchSized /\ [Next]_vars
        => (Accounts /\ Sheltered /\ BatchSized)'
  BY NextAccounts, NextSheltered
<1>3. Accounts /\ Sheltered /\ BatchSized => ReservesAreLeft
  BY AllBacked, ReservesOfStream DEF Accounts, ReservesAreLeft
<1>4. QED BY <1>1, <1>2, <1>3, PTL DEF Spec

=============================================================================
