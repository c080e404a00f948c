------------------------------ MODULE EgressProofs ------------------------------
(***************************************************************************)
(* Theorems about Egress, for any sockets, packets, capacity and byte      *)
(* limit that hold one batch: the rings are exact, no batch is refused,    *)
(* and the rings implement the queues of EgressFifo.  The second part is   *)
(* about Interfaces, which adds and closes those sockets: what connections *)
(* keep for each socket follows it.  The two modules share no variable.    *)
(***************************************************************************)
EXTENDS Egress, Interfaces, FiniteSetLemmas

-----------------------------------------------------------------------------
(* Positions of a ring *)

\* The remainder by the capacity, for the numbers ring positions lead to
LEMMA Wraps ==
    ASSUME NEW n \in Nat \ {0}, NEW x \in Int
    PROVE  /\ x % n \in 0 .. n - 1
           /\ 0 <= x /\ x < n => x % n = x
           /\ n <= x /\ x < 2 * n => x % n = x - n
           /\ -n <= x /\ x < 0 => x % n = x + n
           /\ -(2 * n) <= x /\ x < -n => x % n = x + 2 * n
<1>1. x % n \in 0 .. n - 1
  OBVIOUS
<1>2. 0 <= x /\ x < n => x % n = x
  OBVIOUS
<1>3. n <= x /\ x < 2 * n => x % n = x - n
  OBVIOUS
<1>4. -n <= x /\ x < 0 => x % n = x + n
  OBVIOUS
<1>5. -(2 * n) <= x /\ x < -n => x % n = x + 2 * n
  OBVIOUS
<1>6. QED BY <1>1, <1>2, <1>3, <1>4, <1>5

\* The rank of slot i and the slot of rank k, with the head at h
Rank(h, i) == IF i >= h THEN i - h ELSE i - h + Capacity
Spot(h, k) == IF h + k < Capacity THEN h + k ELSE h + k - Capacity

LEMMA RankIs ==
    ASSUME NEW h \in Slots, NEW i \in Slots
    PROVE  (i - h) % Capacity = Rank(h, i) /\ Rank(h, i) \in Slots
<1>1. Capacity \in Nat \ {0} /\ i - h \in Int /\ h \in 0 .. Capacity - 1 /\ i \in 0 .. Capacity - 1
  BY LimitsAssumption DEF Slots
<1>2. /\ 0 <= i - h /\ i - h < Capacity => (i - h) % Capacity = i - h
      /\ -Capacity <= i - h /\ i - h < 0 => (i - h) % Capacity = i - h + Capacity
  BY <1>1, Wraps
<1>3. QED BY <1>1, <1>2 DEF Rank, Slots

LEMMA SpotIs ==
    ASSUME NEW h \in Slots, NEW k \in Slots
    PROVE  (h + k) % Capacity = Spot(h, k) /\ Spot(h, k) \in Slots
<1> DEFINE x == h + k
<1>1. Capacity \in Nat \ {0} /\ x \in Int /\ h \in 0 .. Capacity - 1 /\ k \in 0 .. Capacity - 1
  BY LimitsAssumption DEF Slots
<1> HIDE DEF x
<1>2. /\ 0 <= x /\ x < Capacity => x % Capacity = x
      /\ Capacity <= x /\ x < 2 * Capacity => x % Capacity = x - Capacity
  BY <1>1, Wraps
<1> USE DEF x
<1>3. QED BY <1>1, <1>2 DEF Spot, Slots

\* How far slot i is behind the last of n packets
LEMMA RankBehind ==
    ASSUME NEW h \in Slots, NEW i \in Slots, NEW n \in Nat, n <= Capacity
    PROVE  (i - h - n) % Capacity =
             IF Rank(h, i) >= n THEN Rank(h, i) - n ELSE Rank(h, i) - n + Capacity
<1> DEFINE x == i - h - n
<1>1. x \in Int /\ Capacity \in Nat \ {0} /\ i \in 0 .. Capacity - 1 /\ h \in 0 .. Capacity - 1
  BY LimitsAssumption DEF Slots
<1> HIDE DEF x
<1>2. /\ 0 <= x /\ x < Capacity => x % Capacity = x
      /\ -Capacity <= x /\ x < 0 => x % Capacity = x + Capacity
      /\ -(2 * Capacity) <= x /\ x < -Capacity => x % Capacity = x + 2 * Capacity
  BY <1>1, Wraps
<1> DEFINE y == x % Capacity
<1>3. /\ 0 <= x /\ x < Capacity => y = x
      /\ -Capacity <= x /\ x < 0 => y = x + Capacity
      /\ -(2 * Capacity) <= x /\ x < -Capacity => y = x + 2 * Capacity
  BY <1>2
<1> HIDE DEF y
<1>4. y = IF Rank(h, i) >= n THEN Rank(h, i) - n ELSE Rank(h, i) - n + Capacity
  BY <1>1, <1>3 DEF Rank, x
<1>5. QED BY <1>4 DEF x, y

\* Ranks and slots correspond one to one.
LEMMA RankAndSpot ==
    ASSUME NEW h \in Slots
    PROVE  /\ \A i \in Slots : Spot(h, Rank(h, i)) = i
           /\ \A k \in Slots : Rank(h, Spot(h, k)) = k
BY LimitsAssumption DEF Slots, Rank, Spot

-----------------------------------------------------------------------------
(* The size of a sequence of packets *)

LEMMA SeqOfFunction ==
    ASSUME NEW S, NEW n \in Nat, NEW f \in [1 .. n -> S]
    PROVE  f \in Seq(S) /\ Len(f) = n
OBVIOUS

LEMMA PacketSize ==
    ASSUME NEW p \in Packets
    PROVE  /\ p.size \in 1 .. MaxPacket /\ p.size \in Nat /\ p.size \in Int
           /\ p # Empty
<1>1. p.size \in Sizes
  BY DEF Packets
<1>2. p.size \in 1 .. MaxPacket
  BY <1>1, LimitsAssumption
<1>3. p.size \in Nat /\ p.size \in Int /\ p.size # 0
  BY <1>2, LimitsAssumption
<1>4. Empty.size = 0
  BY DEF Empty
<1>5. QED BY <1>2, <1>3, <1>4

LEMMA TotalSizeNat ==
    ASSUME NEW p \in Seq(Packets)
    PROVE  TotalSize(p) \in Nat
<1>1. TotalSize(p) = SizeSum(p)
  BY DEF TotalSize, SumFunction, SizeSum
<1>2. QED BY <1>1, PacketSize, SizeSumNat

\* A batch is no larger than as many of the largest packets.
LEMMA TotalSizeBound ==
    ASSUME NEW p \in Seq(Packets)
    PROVE  TotalSize(p) <= Len(p) * MaxPacket
<1> DEFINE f == [i \in DOMAIN p |-> p[i].size]
<1>1. DOMAIN p = 1 .. Len(p) /\ Len(p) \in Nat
  BY LenProperties
<1>2. \A i \in DOMAIN p : f[i] \in Int /\ f[i] <= MaxPacket
  BY <1>1, ElementOfSeq, PacketSize, LimitsAssumption
<1>3. IsFiniteSet(DOMAIN p) /\ Cardinality(DOMAIN p) = Len(p)
  <2>1. \A k \in Nat : IsFiniteSet(1 .. k) /\ Cardinality(1 .. k) = k
    BY FS_Interval
  <2>2. QED BY <1>1, <2>1
<1>4. TotalSize(p) = SumFunctionOnSet(f, DOMAIN p)
  BY DEF TotalSize, SumFunction
<1>5. MaxPacket \in Int
  BY LimitsAssumption
<1> HIDE DEF f
<1>6. QED BY <1>2, <1>3, <1>4, <1>5, SumBound

\* The size of two sequences together
LEMMA TotalSizeConcat ==
    ASSUME NEW p \in Seq(Packets), NEW q \in Seq(Packets)
    PROVE  TotalSize(p \o q) = TotalSize(p) + TotalSize(q)
<1>1. /\ TotalSize(p) = SizeSum(p) /\ TotalSize(q) = SizeSum(q)
      /\ TotalSize(p \o q) = SizeSum(p \o q)
  BY DEF TotalSize, SumFunction, SizeSum
<1>2. SizeSum(p \o q) = SizeSum(p) + SizeSum(q)
  BY PacketSize, SizeSumConcat
<1>3. QED BY <1>1, <1>2

-----------------------------------------------------------------------------
(* The operations of a ring *)

\* What every operation keeps
Exact(r) ==
    /\ r \in Ring /\ r.count <= Capacity
    /\ \A i \in Slots : /\ Rank(r.head, i) < r.count => r.slots[i] \in Packets
                        /\ ~(Rank(r.head, i) < r.count) => r.slots[i] = Empty
    /\ r.bytes = TotalSize(Contents(r))
    /\ r.bytes <= ByteLimit

LEMMA ExactParts ==
    ASSUME NEW r, Exact(r)
    PROVE  /\ r.slots \in [Slots -> Packets \cup {Empty}] /\ r.head \in Slots
           /\ r.count \in Nat /\ r.bytes \in Nat /\ r.count <= Capacity
           /\ r = [slots |-> r.slots, head |-> r.head, count |-> r.count, bytes |-> r.bytes]
BY DEF Exact, Ring

\* The packets of a ring, for any ring whose window holds packets
LEMMA ContentsOf ==
    ASSUME NEW cells, NEW h \in Slots, NEW n \in Nat, NEW b, n <= Capacity,
           \A i \in Slots : Rank(h, i) < n => cells[i] \in Packets
    PROVE  LET c == Contents([slots |-> cells, head |-> h, count |-> n, bytes |-> b]) IN
           /\ c \in Seq(Packets) /\ Len(c) = n
           /\ \A k \in 1 .. n : k - 1 \in Slots /\ c[k] = cells[Spot(h, k - 1)]
<1> DEFINE r == [slots |-> cells, head |-> h, count |-> n, bytes |-> b]
           c == Contents(r)
<1>1. \A k \in 1 .. n : k - 1 \in Slots
  BY LimitsAssumption DEF Slots
<1>2. c = [k \in 1 .. n |-> cells[(h + (k - 1)) % Capacity]]
  BY DEF Contents, SlotAt
<1> HIDE DEF c
<1>3. \A k \in 1 .. n : c[k] = cells[Spot(h, k - 1)]
  BY <1>1, <1>2, SpotIs
<1>4. \A k \in 1 .. n : c[k] \in Packets
  <2> SUFFICES ASSUME NEW k \in 1 .. n PROVE c[k] \in Packets
    OBVIOUS
  <2>1. Spot(h, k - 1) \in Slots /\ Rank(h, Spot(h, k - 1)) = k - 1
    BY <1>1, SpotIs, RankAndSpot
  <2>2. k - 1 < n
    OBVIOUS
  <2>3. QED BY <1>3, <2>1, <2>2
<1>5. c \in [1 .. n -> Packets]
  BY <1>2, <1>4
<1>6. c \in Seq(Packets) /\ Len(c) = n
  BY <1>5, SeqOfFunction
<1>7. QED BY <1>1, <1>3, <1>6 DEF c

LEMMA ExactContents ==
    ASSUME NEW r, Exact(r)
    PROVE  /\ Contents(r) \in Seq(Packets) /\ Len(Contents(r)) = r.count
           /\ \A k \in 1 .. r.count : /\ k - 1 \in Slots
                                      /\ Contents(r)[k] = r.slots[Spot(r.head, k - 1)]
<1>1. /\ r.head \in Slots /\ r.count \in Nat /\ r.count <= Capacity
      /\ r = [slots |-> r.slots, head |-> r.head, count |-> r.count, bytes |-> r.bytes]
  BY ExactParts
<1>2. \A i \in Slots : Rank(r.head, i) < r.count => r.slots[i] \in Packets
  BY DEF Exact
<1>3. QED BY <1>1, <1>2, ContentsOf

\* Pushing appends.
LEMMA PushedExact ==
    ASSUME NEW r, Exact(r), NEW p \in Seq(Packets), r.count + Len(p) <= Capacity,
           r.bytes + TotalSize(p) <= ByteLimit
    PROVE  Exact(Pushed(r, p)) /\ Contents(Pushed(r, p)) = Contents(r) \o p
<1> DEFINE h == r.head
           n == r.count
           m == Len(p)
           sl == [i \in Slots |-> LET k == (i - h - n) % Capacity
                                  IN  IF k < m THEN p[k + 1] ELSE r.slots[i]]
           q == Pushed(r, p)
           t == TotalSize(p)
<1>1. /\ r.slots \in [Slots -> Packets \cup {Empty}] /\ h \in Slots
      /\ n \in Nat /\ r.bytes \in Nat /\ n <= Capacity
      /\ r = [slots |-> r.slots, head |-> h, count |-> n, bytes |-> r.bytes]
  BY ExactParts
<1>2. m \in Nat /\ t \in Nat /\ \A k \in 1 .. m : p[k] \in Packets
  BY LenProperties, ElementOfSeq, TotalSizeNat
<1>3. q = [slots |-> sl, head |-> h, count |-> n + m, bytes |-> r.bytes + t]
  <2>1. q = [r EXCEPT !.slots = sl, !.count = n + m, !.bytes = r.bytes + t]
    BY DEF Pushed
  <2> DEFINE nm == n + m
             bt == r.bytes + t
  <2>2. q = [r EXCEPT !.slots = sl, !.count = nm, !.bytes = bt]
    BY <2>1
  <2> HIDE DEF q, sl, nm, bt
  <2>3. q = [slots |-> sl, head |-> h, count |-> nm, bytes |-> bt]
    BY <2>2 DEF Exact, Ring
  <2>4. QED BY <2>3 DEF nm, bt
<1>4. ASSUME NEW i \in Slots
      PROVE  /\ Rank(h, i) < n => sl[i] = r.slots[i]
             /\ n <= Rank(h, i) /\ Rank(h, i) < n + m =>
                  /\ Rank(h, i) - n + 1 \in 1 .. m
                  /\ sl[i] = p[Rank(h, i) - n + 1]
             /\ n + m <= Rank(h, i) => sl[i] = r.slots[i]
  <2> DEFINE k == (i - h - n) % Capacity
             y == Rank(h, i)
  <2>1. Capacity \in Nat \ {0}
    BY LimitsAssumption
  <2>2. sl[i] = IF k < m THEN p[k + 1] ELSE r.slots[i]
    OBVIOUS
  <2> HIDE DEF sl
  <2>3. k = IF y >= n THEN y - n ELSE y - n + Capacity
    BY <1>1, RankBehind
  <2>4. y \in 0 .. Capacity - 1
    BY <1>1, RankIs DEF Slots
  <2> HIDE DEF k, y
  <2>5. n + m <= Capacity
    OBVIOUS
  <2> HIDE DEF n, m, h
  <2>6. y < n => sl[i] = r.slots[i]
    BY <1>1, <1>2, <2>1, <2>2, <2>3, <2>4, <2>5
  <2>7. n <= y /\ y < n + m => y - n + 1 \in 1 .. m /\ sl[i] = p[y - n + 1]
    BY <1>1, <1>2, <2>1, <2>2, <2>3, <2>4, <2>5
  <2>8. n + m <= y => sl[i] = r.slots[i]
    BY <1>1, <1>2, <2>1, <2>2, <2>3, <2>4, <2>5
  <2>9. QED BY <2>6, <2>7, <2>8 DEF y
<1>5. \A i \in Slots : /\ Rank(h, i) < n + m => sl[i] \in Packets
                       /\ ~(Rank(h, i) < n + m) => sl[i] = Empty
  <2> SUFFICES ASSUME NEW i \in Slots
               PROVE  /\ Rank(h, i) < n + m => sl[i] \in Packets
                      /\ ~(Rank(h, i) < n + m) => sl[i] = Empty
    OBVIOUS
  <2>1. Rank(h, i) \in Int
    BY <1>1, RankIs, LimitsAssumption DEF Slots
  <2>2. /\ Rank(h, i) < n => r.slots[i] \in Packets
        /\ ~(Rank(h, i) < n) => r.slots[i] = Empty
    BY DEF Exact
  <2> DEFINE y == Rank(h, i)
  <2>3. /\ y < n => sl[i] = r.slots[i]
        /\ n <= y /\ y < n + m => y - n + 1 \in 1 .. m /\ sl[i] = p[y - n + 1]
        /\ n + m <= y => sl[i] = r.slots[i]
    BY <1>4
  <2>4. y \in Int
    BY <2>1
  <2>5. /\ y < n => r.slots[i] \in Packets
        /\ ~(y < n) => r.slots[i] = Empty
    BY <2>2
  <2> HIDE DEF sl, y, n, m
  <2>6. y < n + m => sl[i] \in Packets
    BY <1>1, <1>2, <2>3, <2>4, <2>5
  <2>7. ~(y < n + m) => sl[i] = Empty
    BY <1>1, <1>2, <2>3, <2>4, <2>5
  <2>8. QED BY <2>6, <2>7 DEF y
<1> HIDE DEF sl, q, t
<1>6. n + m \in Nat /\ r.bytes + t \in Nat
  BY <1>1, <1>2
<1>7. /\ Contents(q) \in Seq(Packets) /\ Len(Contents(q)) = n + m
      /\ \A k \in 1 .. n + m : k - 1 \in Slots /\ Contents(q)[k] = sl[Spot(h, k - 1)]
  BY <1>1, <1>3, <1>5, <1>6, ContentsOf
<1>8. /\ Contents(r) \in Seq(Packets) /\ Len(Contents(r)) = n
      /\ \A k \in 1 .. n : Contents(r)[k] = r.slots[Spot(h, k - 1)]
  BY ExactContents
<1>9. Contents(q) = Contents(r) \o p
  <2> DEFINE c == Contents(r) \o p
  <2>1. /\ c \in Seq(Packets) /\ Len(c) = n + m
        /\ \A k \in 1 .. n + m : c[k] = IF k <= n THEN Contents(r)[k] ELSE p[k - n]
    <3> DEFINE u == Contents(r)
    <3>1. u \in Seq(Packets) /\ Len(u) = n
      BY <1>8
    <3> HIDE DEF u, n
    <3>2. /\ u \o p \in Seq(Packets) /\ Len(u \o p) = Len(u) + m
          /\ \A k \in 1 .. Len(u) + m : (u \o p)[k] = IF k <= Len(u) THEN u[k] ELSE p[k - Len(u)]
      BY <3>1, ConcatProperties
    <3>3. QED BY <3>1, <3>2 DEF u
  <2> HIDE DEF c
  <2>2. ASSUME NEW k \in 1 .. n + m
        PROVE  Contents(q)[k] = c[k]
    <3>1. k - 1 \in Slots /\ Spot(h, k - 1) \in Slots /\ Rank(h, Spot(h, k - 1)) = k - 1
      BY <1>1, <1>7, SpotIs, RankAndSpot
    <3>2. CASE k <= n
      <4>1. k - 1 < n /\ k \in 1 .. n
        BY <1>1, <1>2, <3>2
      <4>2. sl[Spot(h, k - 1)] = r.slots[Spot(h, k - 1)]
        BY <1>4, <3>1, <4>1
      <4>3. QED BY <1>7, <1>8, <2>1, <3>2, <4>1, <4>2
    <3>3. CASE ~(k <= n)
      <4>1. n <= k - 1 /\ k - 1 < n + m /\ (k - 1) - n + 1 = k - n
        BY <1>1, <1>2, <3>3
      <4>2. sl[Spot(h, k - 1)] = p[k - n]
        BY <1>4, <3>1, <4>1
      <4>3. QED BY <1>7, <2>1, <3>3, <4>2
    <3>4. QED BY <3>2, <3>3
  <2>3. Contents(q) = c
    BY <1>7, <2>1, <2>2, SeqEqual
  <2>4. QED BY <2>3 DEF c
<1>10. TotalSize(Contents(q)) = r.bytes + t
  BY <1>8, <1>9, TotalSizeConcat DEF Exact, t
<1>11. sl \in [Slots -> Packets \cup {Empty}]
  BY <1>5 DEF sl
<1>12. Exact(q)
  <2>1. q \in Ring
    BY <1>1, <1>3, <1>6, <1>11 DEF Ring
  <2>2. q.slots = sl /\ q.head = h /\ q.count = n + m /\ q.bytes = r.bytes + t
    BY <1>3
  <2>3. r.bytes + t <= ByteLimit
    BY DEF t
  <2>4. QED BY <1>5, <1>10, <2>1, <2>2, <2>3 DEF Exact
<1>13. QED BY <1>9, <1>12 DEF q

\* Taking back what was just pushed leaves the ring as it was.
LEMMA UnpushedPushed ==
    ASSUME NEW r, Exact(r), NEW p \in Seq(Packets), r.count + Len(p) <= Capacity,
           r.bytes + TotalSize(p) <= ByteLimit
    PROVE  Unpushed(Pushed(r, p), Len(p)) = r
<1> DEFINE h == r.head
           n == r.count
           m == Len(p)
           q == Pushed(r, p)
           c == Contents(q)
           sl == [i \in Slots |-> IF (i - h) % Capacity \in n .. n + m - 1
                                  THEN Empty ELSE q.slots[i]]
           b == q.bytes - TotalSize(SubSeq(c, n + 1, n + m))
           u == Unpushed(q, m)
<1>1. /\ r.slots \in [Slots -> Packets \cup {Empty}] /\ h \in Slots
      /\ n \in Nat /\ r.bytes \in Nat /\ n <= Capacity
      /\ r = [slots |-> r.slots, head |-> h, count |-> n, bytes |-> r.bytes]
  BY ExactParts
<1>2. m \in Nat /\ TotalSize(p) \in Nat
  BY LenProperties, TotalSizeNat
<1>3. Exact(q) /\ c = Contents(r) \o p
  BY PushedExact
<1>4. /\ q.head = h /\ q.count = n + m /\ q.bytes = r.bytes + TotalSize(p)
      /\ \A i \in Slots : q.slots[i] = LET k == (i - h - n) % Capacity
                                       IN  IF k < m THEN p[k + 1] ELSE r.slots[i]
  <2>1. q.head = h /\ q.count = n + m /\ q.bytes = r.bytes + TotalSize(p)
    BY <1>1 DEF Pushed
  <2>2. q.slots = [i \in Slots |-> LET k == (i - h - n) % Capacity
                                   IN  IF k < m THEN p[k + 1] ELSE r.slots[i]]
    BY DEF Pushed, Exact, Ring
  <2>3. QED BY <2>1, <2>2
<1>5. u = [q EXCEPT !.slots = sl, !.count = n, !.bytes = b]
  <2>1. (n + m) - m = n /\ (n + m) - 1 = n + m - 1 /\ (n + m) - m + 1 = n + 1
    BY <1>1, <1>2
  <2>2. u = [q EXCEPT !.slots = [i \in Slots |->
                 IF (i - q.head) % Capacity \in q.count - m .. q.count - 1
                 THEN Empty ELSE q.slots[i]],
             !.count = q.count - m,
             !.bytes = q.bytes - TotalSize(SubSeq(Contents(q), q.count - m + 1, q.count))]
    BY DEF Unpushed
  <2>3. q.head = h /\ q.count = n + m
    BY <1>4
  <2> HIDE DEF q, n, m, h
  <2>4. q.count - m = n /\ q.count - 1 = n + m - 1 /\ q.count - m + 1 = n + 1
    BY <2>1, <2>3
  <2>5. QED BY <2>2, <2>3, <2>4
<1>6. SubSeq(c, n + 1, n + m) = p
  <2> DEFINE v == Contents(r)
  <2>1. v \in Seq(Packets) /\ Len(v) = n
    BY ExactContents
  <2> HIDE DEF v
  <2>2. \A k \in 1 .. n + m : (v \o p)[k] = IF k <= n THEN v[k] ELSE p[k - n]
    BY <2>1, ConcatProperties
  <2>3. \A k \in 1 .. m : p[k] \in Packets
    BY ElementOfSeq
  <2> DEFINE w == v \o p
             s == SubSeq(w, n + 1, n + m)
  <2>4. \A k \in n + 1 .. n + m : w[k] = p[k - n] /\ w[k] \in Packets
    <3> SUFFICES ASSUME NEW k \in n + 1 .. n + m
                 PROVE  w[k] = p[k - n] /\ w[k] \in Packets
      OBVIOUS
    <3>1. k \in 1 .. n + m /\ ~(k <= n) /\ k - n \in 1 .. m
      BY <1>1, <1>2
    <3>2. QED BY <2>2, <2>3, <3>1
  <2> HIDE DEF w
  <2>5. /\ s \in Seq(Packets)
        /\ Len(s) = IF n + 1 <= n + m THEN (n + m) - (n + 1) + 1 ELSE 0
        /\ \A k \in 1 .. (n + m) - (n + 1) + 1 : s[k] = w[(n + 1) + k - 1]
    <3>1. n + 1 \in Int /\ n + m \in Int
      BY <1>1, <1>2
    <3> HIDE DEF n, m
    <3>2. QED BY <2>4, <3>1, SubSeqProperties
  <2>6. Len(s) = m
    BY <1>1, <1>2, <2>5
  <2>7. ASSUME NEW k \in 1 .. m
        PROVE  s[k] = p[k]
    <3>1. k \in 1 .. (n + m) - (n + 1) + 1 /\ (n + 1) + k - 1 = n + k /\ n + k \in n + 1 .. n + m
          /\ (n + k) - n = k
      BY <1>1, <1>2
    <3> HIDE DEF s
    <3>2. QED BY <2>4, <2>5, <3>1
  <2> HIDE DEF s
  <2>8. s = p
    BY <2>5, <2>6, <2>7, SeqEqual
  <2>9. QED BY <1>3, <2>8 DEF s, w, v
<1>7. b = r.bytes
  <2>1. b = q.bytes - TotalSize(p)
    BY <1>6
  <2>2. q.bytes = r.bytes + TotalSize(p)
    BY <1>4
  <2> HIDE DEF b, q
  <2>3. QED BY <1>1, <1>2, <2>1, <2>2
<1>8. sl = r.slots
  <2>1. ASSUME NEW i \in Slots
        PROVE  sl[i] = r.slots[i]
    <3> DEFINE y == Rank(h, i)
               k == (i - h - n) % Capacity
    <3>1. (i - h) % Capacity = y /\ y \in 0 .. Capacity - 1
      BY <1>1, RankIs DEF Slots
    <3>2. k = IF y >= n THEN y - n ELSE y - n + Capacity
      BY <1>1, RankBehind
    <3>3. sl[i] = IF (i - h) % Capacity \in n .. n + m - 1 THEN Empty ELSE q.slots[i]
      OBVIOUS
    <3>4. q.slots[i] = IF k < m THEN p[k + 1] ELSE r.slots[i]
      BY <1>4
    <3>5. ~(y < n) => r.slots[i] = Empty
      BY DEF Exact
    <3>6. n + m <= Capacity /\ Capacity \in Nat
      BY LimitsAssumption
    <3> HIDE DEF y, k, sl, q, n, m
    <3>7. CASE y \in n .. n + m - 1
      BY <1>1, <1>2, <3>1, <3>3, <3>5, <3>7
    <3>8. CASE ~(y \in n .. n + m - 1)
      <4>1. ~(k < m)
        BY <1>1, <1>2, <3>1, <3>2, <3>6, <3>8
      <4>2. QED BY <3>1, <3>3, <3>4, <3>8, <4>1
    <3>9. QED BY <3>7, <3>8
  <2>2. sl = [i \in Slots |-> sl[i]] /\ r.slots = [i \in Slots |-> r.slots[i]]
    BY <1>1
  <2> HIDE DEF sl
  <2>3. QED BY <2>1, <2>2
<1> HIDE DEF u, sl, b, q
<1>9. u = [slots |-> sl, head |-> q.head, count |-> n, bytes |-> b]
  BY <1>3, <1>5 DEF Exact, Ring
<1>10. u = r
  BY <1>1, <1>4, <1>7, <1>8, <1>9
<1>11. QED BY <1>10 DEF u, q

\* Popping takes packets from the front.
LEMMA PoppedExact ==
    ASSUME NEW r, Exact(r), NEW m \in Nat, m <= r.count
    PROVE  /\ Exact(Popped(r, m))
           /\ Contents(Popped(r, m)) = SubSeq(Contents(r), m + 1, r.count)
           /\ Popped(r, m).count = r.count - m
<1> DEFINE h == r.head
           n == r.count
           c == Contents(r)
           g == (h + m) % Capacity
           sl == [i \in Slots |-> IF (i - h) % Capacity < m THEN Empty ELSE r.slots[i]]
           b == r.bytes - TotalSize(SubSeq(c, 1, m))
           q == Popped(r, m)
           rest == SubSeq(c, m + 1, n)
<1>1. /\ r.slots \in [Slots -> Packets \cup {Empty}] /\ h \in Slots
      /\ n \in Nat /\ r.bytes \in Nat /\ n <= Capacity
      /\ r = [slots |-> r.slots, head |-> h, count |-> n, bytes |-> r.bytes]
  BY ExactParts
<1>2. n - m \in Nat /\ n - m <= Capacity /\ m <= Capacity /\ Capacity \in Nat \ {0}
  BY <1>1, LimitsAssumption
<1>3. q = [slots |-> sl, head |-> g, count |-> n - m, bytes |-> b]
  <2> DEFINE nm == n - m
  <2>1. q = [r EXCEPT !.slots = sl, !.head = g, !.count = nm, !.bytes = b]
    BY DEF Popped
  <2> HIDE DEF q, sl, g, nm, b
  <2>2. q = [slots |-> sl, head |-> g, count |-> nm, bytes |-> b]
    BY <2>1 DEF Exact, Ring
  <2>3. QED BY <2>2 DEF nm
<1>4. g = (IF h + m < Capacity THEN h + m ELSE h + m - Capacity) /\ g \in Slots
  <2> DEFINE x == h + m
  <2>1. x \in Int /\ h \in 0 .. Capacity - 1
    BY <1>1, <1>2 DEF Slots
  <2> HIDE DEF x
  <2>2. /\ 0 <= x /\ x < Capacity => x % Capacity = x
        /\ Capacity <= x /\ x < 2 * Capacity => x % Capacity = x - Capacity
    BY <1>2, <2>1, Wraps
  <2>3. 0 <= x /\ x < 2 * Capacity
    BY <1>2, <2>1 DEF x
  <2>4. x % Capacity = (IF x < Capacity THEN x ELSE x - Capacity)
    BY <1>2, <2>1, <2>2, <2>3
  <2>5. (IF x < Capacity THEN x ELSE x - Capacity) \in 0 .. Capacity - 1
    BY <1>2, <2>1, <2>3
  <2>6. g = (IF x < Capacity THEN x ELSE x - Capacity)
    BY <2>4 DEF x
  <2> HIDE DEF g
  <2>7. g \in Slots
    BY <2>5, <2>6 DEF Slots
  <2>8. g = (IF h + m < Capacity THEN h + m ELSE h + m - Capacity)
    <3>1. h \in Int /\ m \in Int /\ Capacity \in Int
      BY <1>2, <2>1
    <3>2. (h + m) - Capacity = h + (m - Capacity)
      BY <3>1
    <3>3. QED BY <2>6, <3>2 DEF x
  <2>9. QED BY <2>7, <2>8
<1> HIDE DEF g
<1>5. ASSUME NEW i \in Slots
      PROVE  /\ Rank(g, i) = IF Rank(h, i) >= m THEN Rank(h, i) - m ELSE Rank(h, i) - m + Capacity
             /\ sl[i] = IF Rank(h, i) < m THEN Empty ELSE r.slots[i]
             /\ Rank(h, i) \in 0 .. Capacity - 1
  <2>1. (i - h) % Capacity = Rank(h, i) /\ Rank(h, i) \in 0 .. Capacity - 1
    BY <1>1, RankIs DEF Slots
  <2>2. i \in 0 .. Capacity - 1 /\ h \in 0 .. Capacity - 1
    BY <1>1 DEF Slots
  <2>3. Rank(g, i) = IF Rank(h, i) >= m THEN Rank(h, i) - m ELSE Rank(h, i) - m + Capacity
    BY <1>2, <1>4, <2>2 DEF Rank
  <2>4. QED BY <2>1, <2>3
<1>6. \A i \in Slots : /\ Rank(g, i) < n - m => sl[i] \in Packets
                       /\ ~(Rank(g, i) < n - m) => sl[i] = Empty
  <2> SUFFICES ASSUME NEW i \in Slots
               PROVE  /\ Rank(g, i) < n - m => sl[i] \in Packets
                      /\ ~(Rank(g, i) < n - m) => sl[i] = Empty
    OBVIOUS
  <2> DEFINE y == Rank(h, i)
             z == Rank(g, i)
  <2>1. /\ z = IF y >= m THEN y - m ELSE y - m + Capacity
        /\ sl[i] = IF y < m THEN Empty ELSE r.slots[i]
        /\ y \in 0 .. Capacity - 1
    BY <1>5
  <2>2. /\ y < n => r.slots[i] \in Packets
        /\ ~(y < n) => r.slots[i] = Empty
    BY DEF Exact
  <2> HIDE DEF y, z, sl, n
  <2>3. z < n - m => sl[i] \in Packets
    BY <1>1, <1>2, <2>1, <2>2
  <2>4. ~(z < n - m) => sl[i] = Empty
    BY <1>1, <1>2, <2>1, <2>2
  <2>5. QED BY <2>3, <2>4 DEF z
<1> HIDE DEF q
<1>7. /\ Contents(q) \in Seq(Packets) /\ Len(Contents(q)) = n - m
      /\ \A k \in 1 .. n - m : k - 1 \in Slots /\ Contents(q)[k] = sl[Spot(g, k - 1)]
  <2> HIDE DEF sl, b
  <2> QED BY <1>2, <1>3, <1>4, <1>6, ContentsOf
<1>8. /\ c \in Seq(Packets) /\ Len(c) = n
      /\ \A k \in 1 .. n : k - 1 \in Slots /\ c[k] = r.slots[Spot(h, k - 1)]
  BY ExactContents
<1> HIDE DEF c
<1>9. /\ rest \in Seq(Packets) /\ Len(rest) = n - m
      /\ \A k \in 1 .. n - m : rest[k] = c[m + k]
  <2>1. \A k \in m + 1 .. n : k \in 1 .. Len(c)
    BY <1>1, <1>8
  <2>2. \A k \in m + 1 .. n : c[k] \in Packets
    BY <1>8, <2>1, ElementOfSeq
  <2>3. m + 1 \in Int /\ n \in Int
    BY <1>1
  <2> HIDE DEF n
  <2>4. /\ rest \in Seq(Packets)
        /\ Len(rest) = IF m + 1 <= n THEN n - (m + 1) + 1 ELSE 0
        /\ \A k \in 1 .. n - (m + 1) + 1 : rest[k] = c[(m + 1) + k - 1]
    BY <2>2, <2>3, SubSeqProperties
  <2> HIDE DEF rest
  <2>5. Len(rest) = n - m
    BY <1>1, <1>2, <2>4
  <2>6. ASSUME NEW k \in 1 .. n - m
        PROVE  rest[k] = c[m + k]
    <3>1. k \in 1 .. n - (m + 1) + 1 /\ (m + 1) + k - 1 = m + k
      BY <1>1, <1>2
    <3>2. QED BY <2>4, <3>1
  <2>7. QED BY <2>4, <2>5, <2>6
<1>10. Contents(q) = rest
  <2>1. ASSUME NEW k \in 1 .. n - m
        PROVE  Contents(q)[k] = rest[k]
    <3> DEFINE i == Spot(g, k - 1)
    <3>1. k - 1 \in Slots /\ i \in Slots /\ Rank(g, i) = k - 1
      BY <1>4, <1>7, SpotIs, RankAndSpot
    <3>2. m + k \in 1 .. n /\ m + k - 1 \in Slots /\ k - 1 < n - m
      BY <1>1, <1>2 DEF Slots
    <3> HIDE DEF i
    <3>3. Rank(h, i) = m + k - 1 /\ sl[i] = r.slots[i]
      BY <1>1, <1>2, <1>5, <3>1, <3>2
    <3>4. Spot(h, m + k - 1) = i
      BY <1>1, <3>1, <3>3, RankAndSpot
    <3>5. c[m + k] = r.slots[i]
      BY <1>8, <3>2, <3>4
    <3> USE DEF i
    <3>6. QED BY <1>7, <1>9, <3>3, <3>5
  <2> HIDE DEF rest
  <2>2. QED BY <1>7, <1>9, <2>1, SeqEqual
<1>11. TotalSize(c) = TotalSize(SubSeq(c, 1, m)) + TotalSize(rest) /\ TotalSize(rest) \in Nat
       /\ TotalSize(SubSeq(c, 1, m)) \in Nat
  <2>1. m \in 0 .. Len(c) /\ 1 \in 1 .. Len(c) + 1 /\ n \in m .. Len(c) /\ m \in 1 - 1 .. Len(c)
    BY <1>1, <1>8
  <2>2. SubSeq(c, 1, m) \o rest = SubSeq(c, 1, n)
    BY <1>8, <2>1, ConcatAdjacentSubSeq
  <2>3. SubSeq(c, 1, n) = c
    BY <1>8, SubSeqFull
  <2>4. SubSeq(c, 1, m) \in Seq(Packets)
    <3>1. \A k \in 1 .. m : k \in 1 .. Len(c)
      BY <1>1, <1>8
    <3>2. \A k \in 1 .. m : c[k] \in Packets
      BY <1>8, <3>1, ElementOfSeq
    <3>3. m \in Int /\ 1 \in Int
      OBVIOUS
    <3>4. QED BY <3>2, <3>3, SubSeqProperties
  <2> HIDE DEF rest
  <2>5. QED BY <1>9, <2>2, <2>3, <2>4, TotalSizeConcat, TotalSizeNat
<1>12. b = TotalSize(Contents(q)) /\ b \in Nat /\ b <= ByteLimit
  <2>1. r.bytes = TotalSize(c) /\ r.bytes <= ByteLimit
    BY DEF Exact, c
  <2> DEFINE t == TotalSize(SubSeq(c, 1, m))
             u == TotalSize(rest)
  <2>2. r.bytes = t + u /\ t \in Nat /\ u \in Nat /\ b = r.bytes - t
    BY <1>11, <2>1
  <2> HIDE DEF t, u, b
  <2>3. b = u /\ b <= ByteLimit
    BY <1>1, <2>1, <2>2, LimitsAssumption
  <2>4. QED BY <1>10, <2>2, <2>3 DEF u
<1> HIDE DEF b
<1>13. sl \in [Slots -> Packets \cup {Empty}]
  BY <1>6 DEF sl
<1> HIDE DEF sl
<1>14. Exact(q)
  <2>1. q \in Ring
    BY <1>2, <1>3, <1>4, <1>12, <1>13 DEF Ring
  <2>2. q.slots = sl /\ q.head = g /\ q.count = n - m /\ q.bytes = b
    BY <1>3
  <2>3. QED BY <1>2, <1>6, <1>12, <2>1, <2>2 DEF Exact
<1>15. q.count = n - m
  BY <1>3
<1>16. QED BY <1>10, <1>14, <1>15 DEF q, c

-----------------------------------------------------------------------------
(* The invariant *)

Queues ==
    /\ ring \in [Sockets -> Ring] /\ \A s \in Sockets : Exact(ring[s])
    /\ \/ flushing = Idle
       \/ /\ flushing \in [socket: Sockets, budget: 1 .. Batch]
          /\ ring[flushing.socket].count > 0
    /\ ~refused

\* Part of a batch fits every socket that has room for the largest batch.
LEMMA BatchHasRoom ==
    ASSUME NEW r, Exact(r), CanAccept(r, Batch, Batch * MaxPacket),
           NEW p \in Seq(Packets), Len(p) <= Batch
    PROVE  CanAccept(r, Len(p), TotalSize(p))
<1> DEFINE n == Len(p)
           t == TotalSize(p)
<1>1. n \in Nat /\ t \in Nat
  BY LenProperties, TotalSizeNat
<1>2. t <= n * MaxPacket
  BY TotalSizeBound
<1>3. r.count \in Nat /\ r.bytes \in Nat
  BY ExactParts
<1>4. Batch <= Capacity - r.count /\ Batch * MaxPacket <= ByteLimit - r.bytes
  BY DEF CanAccept
<1>5. /\ Batch \in Nat /\ MaxPacket \in Nat /\ ByteLimit \in Nat /\ Capacity \in Nat
      /\ Batch * MaxPacket \in Nat
  BY LimitsAssumption
<1> HIDE DEF n, t
<1>6. n * MaxPacket <= Batch * MaxPacket /\ n * MaxPacket \in Nat
  <2>1. n <= Batch
    BY DEF n
  <2>2. QED BY <1>1, <1>5, <2>1
<1>7. n <= Capacity - r.count
  <2>1. n <= Batch
    BY DEF n
  <2>2. QED BY <1>1, <1>3, <1>4, <1>5, <2>1
<1> DEFINE bm == Batch * MaxPacket
           nm == n * MaxPacket
<1>8. t <= nm /\ nm <= bm /\ bm <= ByteLimit - r.bytes /\ bm \in Nat /\ nm \in Nat
  BY <1>2, <1>4, <1>5, <1>6
<1> HIDE DEF bm, nm
<1>9. t <= ByteLimit - r.bytes
  BY <1>1, <1>3, <1>5, <1>8
<1>10. QED BY <1>7, <1>9 DEF CanAccept, n, t

\* The part of a sequence between two places
LEMMA Between ==
    ASSUME NEW p \in Seq(Packets), NEW a \in 1 .. Len(p) + 1, NEW b \in a - 1 .. Len(p)
    PROVE  SubSeq(p, a, b) \in Seq(Packets) /\ Len(SubSeq(p, a, b)) = b - a + 1
<1>1. Len(p) \in Nat /\ a \in Int /\ b \in Int
  BY LenProperties
<1>2. \A k \in a .. b : k \in 1 .. Len(p)
  BY <1>1
<1>3. \A k \in a .. b : p[k] \in Packets
  BY <1>2, ElementOfSeq
<1>4. SubSeq(p, a, b) \in Seq(Packets) /\ Len(SubSeq(p, a, b)) = IF a <= b THEN b - a + 1 ELSE 0
  BY <1>1, <1>3, SubSeqProperties
<1>5. QED BY <1>1, <1>4

\* A prefix is no larger than the whole.
LEMMA PrefixSize ==
    ASSUME NEW p \in Seq(Packets), NEW n \in 0 .. Len(p)
    PROVE  TotalSize(SubSeq(p, 1, n)) <= TotalSize(p)
<1> DEFINE u == SubSeq(p, 1, n)
           v == SubSeq(p, n + 1, Len(p))
<1>1. /\ Len(p) \in Nat /\ n \in Nat /\ 1 \in 1 .. Len(p) + 1 /\ n \in 1 - 1 .. Len(p)
      /\ n + 1 \in 1 .. Len(p) + 1 /\ Len(p) \in (n + 1) - 1 .. Len(p) /\ Len(p) \in n .. Len(p)
  BY LenProperties
<1>2. u \in Seq(Packets) /\ v \in Seq(Packets)
  BY <1>1, Between
<1>3. u \o v = p
  BY <1>1, ConcatAdjacentSubSeq, SubSeqFull
<1> HIDE DEF u, v
<1>4. TotalSize(p) = TotalSize(u) + TotalSize(v) /\ TotalSize(u) \in Nat /\ TotalSize(v) \in Nat
  BY <1>2, <1>3, TotalSizeConcat, TotalSizeNat
<1>5. TotalSize(u) <= TotalSize(p)
  BY <1>4
<1>6. QED BY <1>5 DEF u

\* Packets that fit are queued behind the others, or all are lost.
LEMMA QueueRemainingEffect ==
    ASSUME Queues, NEW s \in Sockets, NEW p \in Seq(Packets), NEW copies \in Nat,
           CanAccept(ring[s], Len(p), TotalSize(p)), QueueRemaining(s, p, copies)
    PROVE  /\ refused' = refused
           /\ \/ ring' = ring
              \/ \E q : /\ ring' = [ring EXCEPT ![s] = q] /\ Exact(q)
                        /\ Contents(q) = Contents(ring[s]) \o p
<1> DEFINE r == ring[s]
<1>1. Exact(r) /\ refused = FALSE
  BY DEF Queues
<1>2. /\ r.count \in Nat /\ r.bytes \in Nat /\ Len(p) \in Nat /\ TotalSize(p) \in Nat
      /\ Capacity \in Nat /\ ByteLimit \in Nat
  BY <1>1, ExactParts, LenProperties, TotalSizeNat, LimitsAssumption
<1>3. r.count + Len(p) <= Capacity /\ r.bytes + TotalSize(p) <= ByteLimit
  <2>1. \A a, b, c \in Nat : a <= c - b => b + a <= c
    OBVIOUS
  <2>2. Len(p) <= Capacity - r.count /\ TotalSize(p) <= ByteLimit - r.bytes
    BY DEF CanAccept
  <2>3. r.count + Len(p) <= Capacity
    BY <1>2, <2>1, <2>2
  <2>4. r.bytes + TotalSize(p) <= ByteLimit
    BY <1>2, <2>1, <2>2
  <2>5. QED BY <2>3, <2>4
<1>4. refused' = FALSE
  BY <1>1 DEF QueueRemaining
<1>5. CASE copies < Len(p)
  <2> DEFINE u == SubSeq(p, 1, copies)
  <2>1. ring' = [ring EXCEPT ![s] = Unpushed(Pushed(r, u), copies)]
    BY <1>5 DEF QueueRemaining
  <2>2. 1 \in 1 .. Len(p) + 1 /\ copies \in 1 - 1 .. Len(p) /\ copies - 1 + 1 = copies
        /\ copies \in 0 .. Len(p)
    BY <1>2, <1>5
  <2>3. u \in Seq(Packets) /\ Len(u) = copies
    BY <2>2, Between
  <2>4. TotalSize(u) <= TotalSize(p) /\ TotalSize(u) \in Nat
    BY <2>2, <2>3, PrefixSize, TotalSizeNat
  <2> HIDE DEF u
  <2>5. r.count + Len(u) <= Capacity /\ r.bytes + TotalSize(u) <= ByteLimit
    <3>1. Len(u) \in Nat /\ Len(u) <= Len(p)
      BY <1>2, <1>5, <2>3
    <3>2. r.count + Len(u) <= Capacity
      BY <1>2, <1>3, <3>1
    <3>3. r.bytes + TotalSize(u) <= ByteLimit
      <4>1. \A a, b, c, d \in Nat : a + b <= c /\ d <= b => a + d <= c
        OBVIOUS
      <4>2. QED BY <1>2, <1>3, <2>4, <4>1
    <3>4. QED BY <3>2, <3>3
  <2>6. Unpushed(Pushed(r, u), copies) = r
    BY <1>1, <2>3, <2>5, UnpushedPushed
  <2>7. ring' = ring
    <3>1. ring \in [Sockets -> Ring] /\ ring' = [ring EXCEPT ![s] = ring[s]]
      BY <2>1, <2>6 DEF Queues
    <3>2. QED BY <3>1
  <2>8. QED BY <1>1, <1>4, <2>7
<1>6. CASE ~(copies < Len(p))
  <2>1. ring' = [ring EXCEPT ![s] = Pushed(r, p)]
    BY <1>6 DEF QueueRemaining
  <2>2. Exact(Pushed(r, p)) /\ Contents(Pushed(r, p)) = Contents(r) \o p
    BY <1>1, <1>3, PushedExact
  <2>3. QED BY <1>1, <1>4, <2>1, <2>2
<1>7. QED BY <1>5, <1>6

-----------------------------------------------------------------------------
(* Each step is a step of the queues *)

LEMMA BatchIsSeq ==
    ASSUME NEW batch \in Batches
    PROVE  batch \in Seq(Packets) /\ Len(batch) \in 1 .. Batch
<1>1. PICK n \in 1 .. Batch : batch \in [1 .. n -> Packets]
  BY DEF Batches
<1>2. n \in Nat
  BY <1>1, LimitsAssumption
<1>3. QED BY <1>1, <1>2, SeqOfFunction

\* One ring changes, to an exact one.
LEMMA RingsStayExact ==
    ASSUME Queues, NEW s \in Sockets, NEW q, Exact(q), ring' = [ring EXCEPT ![s] = q]
    PROVE  /\ ring' \in [Sockets -> Ring] /\ \A t \in Sockets : Exact(ring'[t])
           /\ ring'[s] = q
           /\ [t \in Sockets |-> Contents(ring'[t])] =
                [[t \in Sockets |-> Contents(ring[t])] EXCEPT ![s] = Contents(q)]
<1>1. ring \in [Sockets -> Ring] /\ q \in Ring
  BY DEF Queues, Exact
<1>2. ring' \in [Sockets -> Ring] /\ ring'[s] = q /\ \A t \in Sockets \ {s} : ring'[t] = ring[t]
  BY <1>1
<1>3. \A t \in Sockets : Exact(ring'[t])
  BY <1>2 DEF Queues
<1>4. QED BY <1>2, <1>3

LEMMA SendBatchStep ==
    ASSUME Queues, NEW s \in Sockets, NEW dest \in Destinations, NEW batch \in Batches,
           SendBatch(s, dest, batch)
    PROVE  Queues' /\ Fifo!Next
<1>1. flushing = Idle /\ flushing' = flushing /\ AllHaveRoom
  BY DEF SendBatch
<1>2. CASE SubmitFails(s)
  <2>1. out' = Silent /\ UNCHANGED <<ring, refused>>
    BY <1>2 DEF SubmitFails
  <2>2. Queues'
    BY <1>1, <2>1 DEF Queues
  <2>3. Fifo!Quiet
    BY <2>1 DEF Fifo!Quiet, Fifo!Silent, Silent
  <2>4. QED BY <2>2, <2>3 DEF Fifo!Next
<1>3. ASSUME NEW taken \in 0 .. Len(batch), NEW copies \in 0 .. Len(batch),
             Submit(s, batch, taken, copies)
      PROVE  Queues' /\ Fifo!Next
  <2> DEFINE p == SubSeq(batch, taken + 1, Len(batch))
             r == ring[s]
  <2>1. /\ r.count > 0 => taken = 0
        /\ out' = [Silent EXCEPT ![s] = SubSeq(batch, 1, taken)]
        /\ QueueRemaining(s, p, copies)
    BY <1>3 DEF Submit
  <2>2. batch \in Seq(Packets) /\ Len(batch) \in 1 .. Batch /\ Len(batch) \in Nat
        /\ copies \in Nat /\ taken \in Nat
    BY BatchIsSeq, LimitsAssumption
  <2>3. taken + 1 \in 1 .. Len(batch) + 1 /\ Len(batch) \in (taken + 1) - 1 .. Len(batch)
    BY <2>2
  <2>4. p \in Seq(Packets) /\ Len(p) = Len(batch) - (taken + 1) + 1
    BY <2>2, <2>3, Between
  <2> HIDE DEF p
  <2>5. Len(p) <= Batch
    BY <2>2, <2>4, LimitsAssumption
  <2>6. Exact(r) /\ CanAccept(r, Batch, Batch * MaxPacket)
    BY <1>1 DEF Queues, AllHaveRoom
  <2>7. CanAccept(r, Len(p), TotalSize(p))
    BY <2>4, <2>5, <2>6, BatchHasRoom
  <2>8. /\ refused' = refused
        /\ \/ ring' = ring
           \/ \E q : /\ ring' = [ring EXCEPT ![s] = q] /\ Exact(q)
                     /\ Contents(q) = Contents(r) \o p
    BY <2>1, <2>2, <2>4, <2>7, QueueRemainingEffect
  <2>9. taken > 0 => Contents(r) = <<>>
    <3>1. r.count \in Nat /\ Contents(r) \in Seq(Packets) /\ Len(Contents(r)) = r.count
      BY <2>6, ExactParts, ExactContents
    <3>2. taken > 0 => r.count = 0
      BY <2>1, <2>2, <3>1
    <3>3. QED BY <3>1, <3>2, EmptySeq
  <2>10. CASE ring' = ring
    <3>1. Queues'
      BY <1>1, <2>8, <2>10 DEF Queues
    <3>2. Fifo!Submit(s, batch, taken, FALSE)
      BY <2>1, <2>9, <2>10 DEF Fifo!Submit, Fifo!Prefix, Fifo!Silent, Silent
    <3>3. QED BY <3>1, <3>2 DEF Fifo!Next, Fifo!Batches, Batches
  <2>11. ASSUME NEW q, ring' = [ring EXCEPT ![s] = q], Exact(q), Contents(q) = Contents(r) \o p
         PROVE  Queues' /\ Fifo!Next
    <3>1. /\ ring' \in [Sockets -> Ring] /\ \A t \in Sockets : Exact(ring'[t])
          /\ [t \in Sockets |-> Contents(ring'[t])] =
               [[t \in Sockets |-> Contents(ring[t])] EXCEPT ![s] = Contents(q)]
      BY <2>11, RingsStayExact
    <3>2. Queues'
      BY <1>1, <2>8, <3>1 DEF Queues
    <3>3. Fifo!Submit(s, batch, taken, TRUE)
      BY <2>1, <2>9, <2>11, <3>1 DEF Fifo!Submit, Fifo!Prefix, Fifo!Suffix, Fifo!Silent, Silent, p
    <3>4. QED BY <3>2, <3>3 DEF Fifo!Next, Fifo!Batches, Batches
  <2>12. QED BY <2>8, <2>10, <2>11
<1>4. QED BY <1>2, <1>3 DEF SendBatch

LEMMA FlushBeginStep ==
    ASSUME Queues, NEW s \in Sockets, FlushBegin(s)
    PROVE  Queues' /\ Fifo!Next
<1>1. /\ flushing' = [socket |-> s, budget |-> Batch] /\ ring[s].count > 0
      /\ out' = Silent /\ UNCHANGED <<ring, refused>>
  BY DEF FlushBegin
<1>2. flushing' \in [socket: Sockets, budget: 1 .. Batch] /\ flushing'.socket = s
  BY <1>1, LimitsAssumption
<1>3. Queues'
  BY <1>1, <1>2 DEF Queues
<1>4. Fifo!Quiet
  BY <1>1 DEF Fifo!Quiet, Fifo!Silent, Silent
<1>5. QED BY <1>3, <1>4 DEF Fifo!Next

\* The packets a flush offers the kernel are some of those waiting.
LEMMA CompatibleRange ==
    ASSUME NEW r, Exact(r), r.count > 0, NEW budget \in 1 .. Batch
    PROVE  Compatible(r, budget) \in 1 .. r.count /\ Compatible(r, budget) <= budget
<1> DEFINE packets == Contents(r)
           most == IF r.count < budget THEN r.count ELSE budget
           S == {n \in 1 .. most : \A i \in 1 .. n : packets[i].dest = packets[1].dest}
<1>1. r.count \in Nat /\ budget \in Nat \ {0} /\ most \in Nat \ {0} /\ most <= r.count /\ most <= budget
  BY ExactParts, LimitsAssumption
<1>2. 1 \in S
  BY <1>1
<1>3. S \subseteq 0 .. most /\ S \subseteq 1 .. most
  BY <1>1
<1>4. Compatible(r, budget) = Max(S)
  BY DEF Compatible
<1> HIDE DEF S, most
<1>5. Max(S) \in S
  BY <1>1, <1>2, <1>3, MaxOfNaturals
<1>6. Max(S) \in 1 .. most
  BY <1>3, <1>5
<1>7. QED BY <1>1, <1>4, <1>6

LEMMA FlushSendStep ==
    ASSUME Queues, NEW s \in Sockets, flushing # Idle, flushing.socket = s,
           NEW sent \in 0 .. Batch, FlushSend(s, sent)
    PROVE  Queues' /\ Fifo!Next
<1> DEFINE r == ring[s]
           n == Compatible(r, flushing.budget)
           left == flushing.budget - sent
           q == Popped(r, sent)
<1>1. Exact(r) /\ r.count > 0 /\ flushing \in [socket: Sockets, budget: 1 .. Batch]
  BY DEF Queues
<1>2. /\ sent <= n /\ ring' = [ring EXCEPT ![s] = q]
      /\ out' = [Silent EXCEPT ![s] = SubSeq(Contents(r), 1, sent)]
      /\ flushing' = IF sent < n \/ r.count = sent \/ left = 0
                     THEN Idle ELSE [flushing EXCEPT !.budget = left]
      /\ refused' = refused
  BY DEF FlushSend
<1>3. flushing.budget \in 1 .. Batch /\ r.count \in Nat /\ Batch \in Nat /\ sent \in Nat
  BY <1>1, ExactParts, LimitsAssumption
<1>4. n \in 1 .. r.count /\ n <= flushing.budget
  BY <1>1, <1>3, CompatibleRange
<1> HIDE DEF n, r
<1>5. sent <= r.count /\ sent <= flushing.budget /\ sent \in 0 .. r.count
  BY <1>2, <1>3, <1>4
<1>6. Exact(q) /\ Contents(q) = SubSeq(Contents(r), sent + 1, r.count) /\ q.count = r.count - sent
  BY <1>1, <1>3, <1>5, PoppedExact
<1> HIDE DEF q
<1>7. /\ ring' \in [Sockets -> Ring] /\ (\A t \in Sockets : Exact(ring'[t])) /\ ring'[s] = q
      /\ [t \in Sockets |-> Contents(ring'[t])] =
           [[t \in Sockets |-> Contents(ring[t])] EXCEPT ![s] = Contents(q)]
  BY <1>2, <1>6, RingsStayExact
<1>8. \/ flushing' = Idle
      \/ /\ flushing' \in [socket: Sockets, budget: 1 .. Batch]
         /\ ring'[flushing'.socket].count > 0
  <2>1. CASE flushing' = Idle
    BY <2>1
  <2>2. CASE ~(sent < n \/ r.count = sent \/ left = 0)
    <3>1. flushing' = [flushing EXCEPT !.budget = left]
      BY <1>2, <2>2
    <3>2. left \in 1 .. Batch /\ r.count - sent > 0
      BY <1>3, <1>5, <2>2
    <3> HIDE DEF left
    <3>3. flushing' \in [socket: Sockets, budget: 1 .. Batch] /\ flushing'.socket = s
      BY <1>1, <3>1, <3>2
    <3>4. QED BY <1>6, <1>7, <3>2, <3>3
  <2>3. QED BY <1>2, <2>1, <2>2
<1>9. Queues'
  BY <1>2, <1>7, <1>8 DEF Queues
<1>10. Fifo!Send(s, sent) /\ Len([t \in Sockets |-> Contents(ring[t])][s]) = r.count
  <2>1. Len(Contents(r)) = r.count
    BY <1>1, ExactContents
  <2>2. QED
    BY <1>2, <1>6, <1>7, <2>1 DEF Fifo!Send, Fifo!Prefix, Fifo!Suffix, Fifo!Silent, Silent, r
<1>11. QED BY <1>5, <1>9, <1>10 DEF Fifo!Next

LEMMA FlushErrorStep ==
    ASSUME Queues, NEW s \in Sockets, flushing # Idle, flushing.socket = s, FlushError(s)
    PROVE  Queues' /\ Fifo!Next
<1> DEFINE r == ring[s]
           q == Popped(r, 1)
           left == flushing.budget - 1
<1>1. Exact(r) /\ r.count > 0 /\ flushing \in [socket: Sockets, budget: 1 .. Batch]
  BY DEF Queues
<1>2. /\ ring' = [ring EXCEPT ![s] = q] /\ out' = Silent /\ refused' = refused
      /\ flushing' = IF r.count = 1 \/ flushing.budget = 1
                     THEN Idle ELSE [flushing EXCEPT !.budget = left]
  BY DEF FlushError
<1>3. flushing.budget \in 1 .. Batch /\ r.count \in Nat /\ Batch \in Nat /\ 1 <= r.count
  BY <1>1, ExactParts, LimitsAssumption
<1> HIDE DEF r
<1>4. Exact(q) /\ Contents(q) = SubSeq(Contents(r), 1 + 1, r.count) /\ q.count = r.count - 1
  BY <1>1, <1>3, PoppedExact
<1> HIDE DEF q
<1>5. /\ ring' \in [Sockets -> Ring] /\ (\A t \in Sockets : Exact(ring'[t])) /\ ring'[s] = q
      /\ [t \in Sockets |-> Contents(ring'[t])] =
           [[t \in Sockets |-> Contents(ring[t])] EXCEPT ![s] = Contents(q)]
  BY <1>2, <1>4, RingsStayExact
<1>6. \/ flushing' = Idle
      \/ /\ flushing' \in [socket: Sockets, budget: 1 .. Batch]
         /\ ring'[flushing'.socket].count > 0
  <2>1. CASE flushing' = Idle
    BY <2>1
  <2>2. CASE ~(r.count = 1 \/ flushing.budget = 1)
    <3>1. flushing' = [flushing EXCEPT !.budget = left]
      BY <1>2, <2>2
    <3>2. left \in 1 .. Batch /\ r.count - 1 > 0
      BY <1>3, <2>2
    <3> HIDE DEF left
    <3>3. flushing' \in [socket: Sockets, budget: 1 .. Batch] /\ flushing'.socket = s
      BY <1>1, <3>1, <3>2
    <3>4. QED BY <1>4, <1>5, <3>2, <3>3
  <2>3. QED BY <1>2, <2>1, <2>2
<1>7. Queues'
  BY <1>2, <1>5, <1>6 DEF Queues
<1>8. Contents(r) # <<>> /\ Contents(q) = Tail(Contents(r))
  <2>1. Contents(r) \in Seq(Packets) /\ Len(Contents(r)) = r.count
    BY <1>1, ExactContents
  <2>2. Contents(r) # <<>>
    BY <1>3, <2>1, EmptySeq
  <2>3. Tail(Contents(r)) = SubSeq(Contents(r), 2, Len(Contents(r)))
    BY <2>1, <2>2, TailIsSubSeq
  <2>4. QED BY <1>4, <2>1, <2>2, <2>3
<1>9. Fifo!Discard(s)
  BY <1>2, <1>5, <1>8 DEF Fifo!Discard, Fifo!Silent, Silent, r
<1>10. QED BY <1>7, <1>9 DEF Fifo!Next

-----------------------------------------------------------------------------
(* The theorems *)

LEMMA QueuesInit ==
    ASSUME Init
    PROVE  Queues /\ Fifo!Init
<1> DEFINE c == Contents(NewRing)
<1>1. 0 \in Slots /\ Capacity \in Nat
  BY LimitsAssumption DEF Slots
<1>2. NewRing \in Ring
  BY <1>1 DEF NewRing, Ring
<1>3. c = <<>>
  <2>1. c \in [1 .. 0 -> Packets]
    BY DEF Contents, NewRing
  <2>2. c \in Seq(Packets) /\ Len(c) = 0
    <3> HIDE DEF c
    <3> QED BY <2>1, SeqOfFunction
  <2>3. QED BY <2>2, EmptySeq
<1>4. TotalSize(c) = 0
  <2>1. TotalSize(<<>>) = SumFunctionOnSet([i \in DOMAIN <<>> |-> <<>>[i].size], {})
    BY DEF TotalSize, SumFunction
  <2>2. QED BY <1>3, <2>1, SumEmpty
<1>5. Exact(NewRing)
  <2>1. \A i \in Slots : ~(Rank(0, i) < 0) /\ NewRing.slots[i] = Empty
    BY <1>1, RankIs DEF NewRing, Slots
  <2>2. NewRing.head = 0 /\ NewRing.count = 0 /\ NewRing.bytes = 0
    BY DEF NewRing
  <2>3. QED BY <1>1, <1>2, <1>4, <2>1, <2>2, LimitsAssumption DEF Exact
<1>6. Queues
  BY <1>2, <1>5 DEF Queues, Init
<1>7. Fifo!Init
  BY <1>3 DEF Init, Fifo!Init, Silent
<1>8. QED BY <1>6, <1>7

LEMMA QueuesStep ==
    ASSUME Queues, [Next]_vars
    PROVE  Queues' /\ [Fifo!Next]_(Fifo!vars)
<1>1. CASE \E s \in Sockets, dest \in Destinations, batch \in Batches : SendBatch(s, dest, batch)
  BY <1>1, SendBatchStep
<1>2. CASE \E s \in Sockets : FlushBegin(s)
  BY <1>2, FlushBeginStep
<1>3. CASE \E s \in Sockets : FlushStep(s)
  BY <1>3, FlushSendStep, FlushErrorStep DEF FlushStep
<1>4. CASE UNCHANGED vars
  BY <1>4 DEF vars, Queues, Fifo!vars
<1>5. QED BY <1>1, <1>2, <1>3, <1>4 DEF Next

LEMMA QueuesHold == Spec => []Queues
<1>1. Init => Queues
  BY QueuesInit
<1>2. Queues /\ [Next]_vars => Queues'
  BY QueuesStep
<1>3. QED BY <1>1, <1>2, PTL DEF Spec

\* TypeOK: every ring of transport_egress keeps its head and count within its
\* capacity, and a flush in progress is of a socket that exists with some of its
\* budget left.
THEOREM EgressTypesHold == Spec => []TypeOK
<1>1. Init => refused \in BOOLEAN
  BY DEF Init
<1>2. refused \in BOOLEAN /\ [Next]_vars => (refused \in BOOLEAN)'
  <2> SUFFICES ASSUME refused \in BOOLEAN, [Next]_vars PROVE refused' \in BOOLEAN
    OBVIOUS
  <2>1. ASSUME NEW s, NEW p, NEW copies, QueueRemaining(s, p, copies)
        PROVE  refused' \in BOOLEAN
    <3> PICK room : room = CanAccept(ring[s], Len(p), TotalSize(p))
      OBVIOUS
    <3>1. refused' = (refused \/ ~room)
      BY <2>1, Zenon DEF QueueRemaining
    <3>2. QED BY <3>1, Zenon
  <2>2. CASE UNCHANGED refused
    BY <2>2
  <2>3. ASSUME NEW s \in Sockets, NEW dest \in Destinations, NEW batch \in Batches,
               SendBatch(s, dest, batch)
        PROVE  refused' \in BOOLEAN
    BY <2>1, <2>2, <2>3, Zenon DEF SendBatch, Submit, SubmitFails
  <2>4. ASSUME NEW s \in Sockets, FlushBegin(s) \/ FlushStep(s)
        PROVE  refused' \in BOOLEAN
    BY <2>2, <2>4, Zenon DEF FlushBegin, FlushStep, FlushSend, FlushError
  <2>5. QED BY <2>2, <2>3, <2>4 DEF Next, vars
<1>3. ASSUME Queues, refused \in BOOLEAN
      PROVE  TypeOK
  <2>1. ring \in [Sockets -> Ring] /\ \A s \in Sockets : ring[s].count <= Capacity
    BY <1>3 DEF Queues, Exact
  <2>2. flushing = Idle \/ flushing \in [socket: Sockets, budget: 1 .. Batch]
    BY <1>3 DEF Queues
  <2>3. QED BY <1>3, <2>1, <2>2 DEF TypeOK
<1>4. QED BY <1>1, <1>2, <1>3, QueuesHold, PTL DEF Spec

\* The window of every ring of transport_egress holds the packets and no other slot does, and
\* queued_bytes is their size and within max_egress_bytes_per_socket.
THEOREM RingsAreExact == Spec => []RingExact
<1>1. ASSUME Queues
      PROVE  RingExact
  <2> SUFFICES ASSUME NEW s \in Sockets
               PROVE  /\ \A i \in Slots : (ring[s].slots[i] # Empty) <=>
                            ((i - ring[s].head) % Capacity < ring[s].count)
                      /\ ring[s].bytes = TotalSize(Contents(ring[s]))
                      /\ ring[s].bytes <= ByteLimit
    BY DEF RingExact
  <2>1. Exact(ring[s])
    BY <1>1 DEF Queues
  <2>2. ring[s].head \in Slots
    BY <2>1, ExactParts
  <2>3. \A i \in Slots : (i - ring[s].head) % Capacity = Rank(ring[s].head, i)
    BY <2>2, RankIs
  <2>4. \A i \in Slots : (ring[s].slots[i] # Empty) <=> (Rank(ring[s].head, i) < ring[s].count)
    BY <2>1, PacketSize DEF Exact
  <2>5. QED BY <2>1, <2>3, <2>4 DEF Exact
<1>2. QED BY <1>1, QueuesHold, PTL

\* The test of transport_tick before quicly_send leaves room for whatever the kernel does not
\* take of the batch, on any socket.
THEOREM NoBatchRefused == Spec => []NeverRefused
<1>1. Queues => NeverRefused
  BY DEF Queues, NeverRefused
<1>2. QED BY <1>1, QueuesHold, PTL

\* The rings with their wrap-around, their rollback and their partial flushes are first-in
\* first-out queues that lose a queued packet to a hard error only.
THEOREM RingsImplementFifo == Spec => ImplementsFifo
<1>1. Init => Fifo!Init
  BY QueuesInit
<1>2. Queues /\ [Next]_vars => [Fifo!Next]_(Fifo!vars)
  BY QueuesStep
<1>3. QED BY <1>1, <1>2, QueuesHold, PTL DEF Spec, ImplementsFifo, Fifo!Spec

-----------------------------------------------------------------------------
(* Interfaces: per-socket state *)

\* The sockets as a sequence of records with an address
SocksOK ==
    /\ socks \in Seq({socks[k] : k \in DOMAIN socks}) /\ Len(socks) <= MaxPaths
    /\ \A k \in DOMAIN socks : "addr" \in DOMAIN socks[k]

\* The slots of a connection, one for each place a socket may have
SlotsOK == DOMAIN slots = 1..MaxPaths /\ SlotsFollowSockets

\* The inductive invariant
Measured == SocksOK /\ SlotsOK

\* A sequence is one of its own members.
LEMMA SequenceAgain ==
    ASSUME NEW S, NEW p \in Seq(S)
    PROVE  p \in Seq({p[k] : k \in DOMAIN p})
<1>1. p \in Seq(Range(p))
  BY SeqOfRange
<1>2. Range(p) = {p[k] : k \in DOMAIN p}
  BY DEF Range
<1>3. QED BY <1>1, <1>2

\* A socket that opens gets the first free place, whose slot is unmeasured.
LEMMA AppendKeeps ==
    ASSUME Measured, MaxPaths \in Nat, NEW e, "addr" \in DOMAIN e, Len(socks) < MaxPaths,
           socks' = Append(socks, e), UNCHANGED slots
    PROVE  Measured'
<1> DEFINE S == {socks[k] : k \in DOMAIN socks} \cup {e}
<1>1. socks \in Seq(S)
  BY DEF Measured, SocksOK
<1>2. socks' \in Seq(S) /\ Len(socks') = Len(socks) + 1 /\ Len(socks) \in Nat
  BY <1>1
<1>3. DOMAIN socks' = 1..Len(socks) + 1 /\ DOMAIN socks = 1..Len(socks)
  BY <1>1, <1>2
<1>4. socks'[Len(socks) + 1] = e /\ \A k \in 1..Len(socks) : socks'[k] = socks[k]
  BY <1>1
<1>5. SocksOK'
  BY <1>2, <1>3, <1>4, SequenceAgain DEF Measured, SocksOK
<1>6. SlotsOK'
  BY <1>2, <1>3, <1>4 DEF Measured, SlotsOK, SlotsFollowSockets
<1>7. QED BY <1>5, <1>6 DEF Measured

\* A socket that closes: what follows it moves up, in both arrays alike.
LEMMA ClosingKeeps ==
    ASSUME Measured, MaxPaths \in Nat, NEW k \in DOMAIN socks, CloseSocket(k)
    PROVE  Measured'
<1> DEFINE S == {socks[j] : j \in DOMAIN socks}
           n == Len(socks)
<1>1. socks \in Seq(S) /\ n \in Nat /\ DOMAIN socks = 1..n /\ k \in 1..n /\ n <= MaxPaths
  BY DEF Measured, SocksOK
<1>2. socks' = SubSeq(socks, 1, k - 1) \o SubSeq(socks, k + 1, n)
  BY DEF CloseSocket, RemoveAt
<1> PICK before : before = SubSeq(socks, 1, k - 1)
  OBVIOUS
<1> PICK after : after = SubSeq(socks, k + 1, n)
  OBVIOUS
<1>3. /\ before \in Seq(S) /\ Len(before) = k - 1
      /\ \A j \in 1..k - 1 : before[j] = socks[j]
  <2>1. \A j \in 1..k - 1 : socks[j] \in S
    BY <1>1
  <2>2. 1 \in Int /\ k - 1 \in Int
    BY <1>1
  <2> HIDE DEF S, n
  <2>3. /\ before \in Seq(S) /\ Len(before) = IF 1 <= k - 1 THEN k - 1 - 1 + 1 ELSE 0
        /\ \A j \in 1..k - 1 - 1 + 1 : before[j] = socks[1 + j - 1]
    BY <2>1, <2>2, SubSeqProperties
  <2>4. \A j \in 1..k - 1 : j \in 1..k - 1 - 1 + 1 /\ 1 + j - 1 = j
    BY <1>1
  <2>5. QED BY <1>1, <2>3, <2>4
<1>4. /\ after \in Seq(S) /\ Len(after) = n - k
      /\ \A j \in 1..n - k : after[j] = socks[k + j]
  <2>1. \A j \in k + 1..n : socks[j] \in S
    BY <1>1
  <2>2. k + 1 \in Int /\ n \in Int
    BY <1>1
  <2> HIDE DEF S, n
  <2>3. /\ after \in Seq(S) /\ Len(after) = IF k + 1 <= n THEN n - (k + 1) + 1 ELSE 0
        /\ \A j \in 1..n - (k + 1) + 1 : after[j] = socks[k + 1 + j - 1]
    BY <2>1, <2>2, SubSeqProperties
  <2>4. \A j \in 1..n - k : j \in 1..n - (k + 1) + 1 /\ k + 1 + j - 1 = k + j
    BY <1>1
  <2>5. QED BY <1>1, <2>3, <2>4
<1>5. /\ socks' \in Seq(S) /\ Len(socks') = n - 1
      /\ \A j \in 1..n - 1 : socks'[j] = IF j < k THEN socks[j] ELSE socks[j + 1]
  <2> HIDE DEF S, n
  <2>1. socks' = before \o after
    BY <1>2 DEF n
  <2>2. /\ socks' \in Seq(S) /\ Len(socks') = Len(before) + Len(after)
        /\ \A j \in 1..Len(before) + Len(after) :
             socks'[j] = IF j <= Len(before) THEN before[j] ELSE after[j - Len(before)]
    <3>1. before \in Seq(S) /\ after \in Seq(S)
      BY <1>3, <1>4
    <3>2. /\ before \o after \in Seq(S) /\ Len(before \o after) = Len(before) + Len(after)
          /\ \A j \in 1..Len(before) + Len(after) :
               (before \o after)[j] = IF j <= Len(before) THEN before[j] ELSE after[j - Len(before)]
      BY <3>1, ConcatProperties
    <3>3. QED BY <2>1, <3>2
  <2>3. Len(before) + Len(after) = n - 1 /\ Len(before) = k - 1
    BY <1>1, <1>3, <1>4
  <2>4. ASSUME NEW j \in 1..n - 1
        PROVE  socks'[j] = IF j < k THEN socks[j] ELSE socks[j + 1]
    <3>1. CASE j < k
      <4>1. j \in 1..k - 1 /\ j <= k - 1
        BY <1>1, <3>1
      <4>2. socks'[j] = before[j]
        BY <2>2, <2>3, <4>1
      <4>3. QED BY <1>3, <3>1, <4>1, <4>2
    <3>2. CASE ~(j < k)
      <4>1. j - (k - 1) \in 1..n - k /\ k + (j - (k - 1)) = j + 1 /\ ~(j <= k - 1)
        BY <1>1, <3>2
      <4>2. socks'[j] = after[j - (k - 1)]
        BY <2>2, <2>3, <4>1
      <4>3. after[j - (k - 1)] = socks[k + (j - (k - 1))]
        BY <1>4, <4>1
      <4>4. QED BY <3>2, <4>1, <4>2, <4>3
    <3>3. QED BY <3>1, <3>2
  <2>5. QED BY <2>2, <2>3, <2>4
<1>6. DOMAIN socks' = 1..n - 1
  BY <1>1, <1>5
<1>7. SocksOK'
  <2>1. socks' \in Seq({socks'[j] : j \in DOMAIN socks'})
    BY <1>5, SequenceAgain
  <2>2. \A j \in DOMAIN socks' : "addr" \in DOMAIN socks'[j]
    BY <1>1, <1>5, <1>6 DEF Measured, SocksOK
  <2>3. Len(socks') <= MaxPaths
    BY <1>1, <1>5
  <2>4. QED BY <2>1, <2>2, <2>3 DEF SocksOK
<1>8. SlotsOK'
  <2>1. slots' = [j \in 1..MaxPaths |->
                   IF j < k \/ j > n THEN slots[j]
                   ELSE IF j < n THEN slots[j + 1] ELSE Unmeasured]
    BY DEF CloseSocket
  <2>2. \A j \in 1..MaxPaths : slots[j] # Unmeasured => j <= n /\ slots[j] = socks[j].addr
    BY DEF Measured, SlotsOK, SlotsFollowSockets, n
  <2> HIDE DEF S, n
  <2> SUFFICES ASSUME NEW j \in 1..MaxPaths, slots'[j] # Unmeasured
               PROVE  j <= n - 1 /\ slots'[j] = socks'[j].addr
    BY <1>5, <2>1 DEF SlotsOK, SlotsFollowSockets
  <2>3. CASE j < k
    <3>1. j \in 1..n - 1 /\ j <= n - 1
      BY <1>1, <2>3
    <3>2. slots'[j] = slots[j]
      BY <2>1, <2>3
    <3>3. slots[j] = socks[j].addr
      BY <2>2, <3>2
    <3>4. socks'[j] = socks[j]
      BY <1>5, <2>3, <3>1
    <3>5. QED BY <3>1, <3>2, <3>3, <3>4
  <2>4. CASE j > n
    <3>1. slots'[j] = slots[j]
      BY <2>1, <2>4
    <3>2. j <= n
      BY <2>2, <3>1
    <3>3. QED BY <1>1, <2>4, <3>2
  <2>5. CASE ~(j < k) /\ j < n
    <3>1. /\ ~(j > n) /\ j + 1 \in 1..MaxPaths /\ j \in 1..n - 1 /\ j <= n - 1
      BY <1>1, <2>5
    <3>2. slots'[j] = slots[j + 1]
      BY <2>1, <2>5, <3>1
    <3>3. slots[j + 1] = socks[j + 1].addr
      BY <2>2, <3>1, <3>2
    <3>4. socks'[j] = socks[j + 1]
      BY <1>5, <2>5, <3>1
    <3>5. QED BY <3>1, <3>2, <3>3, <3>4
  <2>6. CASE ~(j < k) /\ j = n
    <3>1. ~(j > n) /\ ~(j < n)
      BY <1>1, <2>6
    <3>2. slots'[j] = Unmeasured
      BY <2>1, <2>6, <3>1
    <3>3. QED BY <3>2
  <2>7. QED BY <1>1, <2>3, <2>4, <2>5, <2>6
<1>9. QED BY <1>7, <1>8 DEF Measured

\* Measured is inductive.
LEMMA NextKeeps ==
    ASSUME Measured, [InterfacesNext]_interfacesVars
    PROVE  Measured'
<1> USE InterfacesAssumption
<1>0. CASE UNCHANGED <<socks, slots>>
  BY <1>0 DEF Measured, SocksOK, SlotsOK, SlotsFollowSockets
<1>1. ASSUME NEW opens \in BOOLEAN, ReadAdd(opens) PROVE Measured'
  <2>1. CASE UNCHANGED socks
    BY <1>0, <1>1, <2>1 DEF ReadAdd
  <2>2. CASE ~UNCHANGED socks
    <3> DEFINE e == [addr |-> Head(pipe).addr, iface |-> Head(pipe).iface,
                     remote |-> IF IsServer THEN 0 ELSE Min(FreeRemotes),
                     pending |-> ~IsServer]
    <3>1. socks' = Append(socks, e) /\ Len(socks) < MaxPaths /\ UNCHANGED slots
      BY <1>1, <2>2 DEF ReadAdd
    <3>2. "addr" \in DOMAIN e
      OBVIOUS
    <3> HIDE DEF e
    <3>3. QED BY <3>1, <3>2, AppendKeeps
  <2>3. QED BY <2>1, <2>2
<1>2. ASSUME NEW op, ReadRemove(op) PROVE Measured'
  <2> DEFINE m == Head(pipe)
             match == {k \in DOMAIN socks : IF op = "delif"
                                          THEN socks[k].iface = m.iface
                                          ELSE socks[k].addr = m.addr}
  <2>1. IF match = {} THEN UNCHANGED <<socks, slots>> ELSE CloseSocket(Min(match))
    BY <1>2 DEF ReadRemove
  <2>2. match \subseteq DOMAIN socks /\ match \subseteq Nat
    BY DEF Measured, SocksOK
  <2> HIDE DEF match
  <2>3. CASE match # {}
    <3>1. Min(match) \in DOMAIN socks
      BY <2>2, <2>3, MinOfNaturals
    <3>2. QED BY <2>1, <2>3, <3>1, ClosingKeeps
  <2>4. QED BY <1>0, <2>1, <2>3
<1>3. ASSUME NEW k, OpenPath(k) PROVE Measured'
  <2>1. k \in DOMAIN socks /\ slots' = slots
        /\ socks' = [socks EXCEPT ![k] = [socks[k] EXCEPT !.pending = FALSE]]
    BY <1>3 DEF OpenPath
  <2>2. /\ DOMAIN socks' = DOMAIN socks
        /\ \A j \in DOMAIN socks : /\ DOMAIN socks'[j] = DOMAIN socks[j]
                                     /\ socks'[j].addr = socks[j].addr
    BY <2>1
  <2> DEFINE S == {socks[j] : j \in DOMAIN socks} \cup {[socks[k] EXCEPT !.pending = FALSE]}
  <2>3. socks \in Seq(S) /\ k \in 1..Len(socks) /\ Len(socks) \in Nat
        /\ DOMAIN socks = 1..Len(socks)
    BY <2>1 DEF Measured, SocksOK
  <2>4. socks' \in Seq(S) /\ Len(socks') = Len(socks)
    BY <2>1, <2>3, ExceptSeq
  <2>5. SocksOK'
    <3>1. socks' \in Seq({socks'[j] : j \in DOMAIN socks'})
      BY <2>4, SequenceAgain
    <3>2. \A j \in DOMAIN socks' : "addr" \in DOMAIN socks'[j]
      BY <2>2 DEF Measured, SocksOK
    <3>3. QED BY <2>4, <3>1, <3>2 DEF Measured, SocksOK
  <2>6. SlotsOK'
    <3>1. \A j \in 1..MaxPaths : slots[j] # Unmeasured => j <= Len(socks) /\ slots[j] = socks[j].addr
      BY DEF Measured, SlotsOK, SlotsFollowSockets
    <3>2. \A j \in 1..MaxPaths : slots'[j] # Unmeasured => j <= Len(socks') /\ slots'[j] = socks'[j].addr
      <4> SUFFICES ASSUME NEW j \in 1..MaxPaths, slots'[j] # Unmeasured
                   PROVE  j <= Len(socks') /\ slots'[j] = socks'[j].addr
        OBVIOUS
      <4>1. j <= Len(socks) /\ slots[j] = socks[j].addr
        BY <2>1, <3>1
      <4>2. j \in DOMAIN socks
        BY <2>3, <4>1
      <4>3. QED BY <2>1, <2>2, <2>4, <4>1, <4>2
    <3>3. QED BY <2>1, <3>2 DEF Measured, SlotsOK, SlotsFollowSockets
  <2>7. QED BY <2>5, <2>6 DEF Measured
<1>4. ASSUME NEW k, Measure(k) PROVE Measured'
  <2>1. /\ k \in DOMAIN socks /\ socks' = socks
        /\ slots' = [slots EXCEPT ![k] = socks[k].addr]
    BY <1>4 DEF Measure
  <2>2. DOMAIN socks = 1..Len(socks) /\ Len(socks) \in Nat
    BY DEF Measured, SocksOK
  <2>3. QED BY <2>1, <2>2 DEF Measured, SocksOK, SlotsOK, SlotsFollowSockets
<1>5. CASE UNCHANGED interfacesVars
  BY <1>0, <1>5 DEF interfacesVars
<1>6. QED
  BY <1>0, <1>1, <1>2, <1>3, <1>4, <1>5 DEF InterfacesNext, ChangeUp, ChangeLink, ChangeAddr, Change,
     StartLinks, StartAddrs, Listen, Drain, DumpLinks, DumpAddrs, Compare, ListFails, Write, Written

\* SlotsFollowSockets, for any interfaces, addresses, limits and capacity of the
\* pipe: remove_connection_physical_slot moves a connection's measurements
\* together with the sockets transport_tick closes, and a new socket starts
\* without any, however messages of the watcher come in between.
THEOREM SlotsAlwaysFollow == InterfacesSpec => []SlotsFollowSockets
<1>1. InterfacesInit => Measured
  <2> SUFFICES ASSUME InterfacesInit PROVE Measured
    OBVIOUS
  <2>1. /\ slots = [k \in 1..MaxPaths |-> Unmeasured]
        /\ \E i : socks = <<[addr |-> FirstAddr, iface |-> i, remote |-> 1, pending |-> FALSE]>>
    BY DEF InterfacesInit
  <2>2. PICK e : socks = <<e>> /\ "addr" \in DOMAIN e
    BY <2>1
  <2>3. socks \in Seq({e}) /\ Len(socks) = 1 /\ socks[1] = e /\ DOMAIN socks = 1..1
    BY <2>2
  <2>4. SocksOK
    BY <2>2, <2>3, SequenceAgain, InterfacesAssumption DEF SocksOK
  <2>5. SlotsOK
    BY <2>1 DEF SlotsOK, SlotsFollowSockets
  <2>6. QED BY <2>4, <2>5 DEF Measured
<1>2. Measured /\ [InterfacesNext]_interfacesVars => Measured'
  BY NextKeeps
<1>3. Measured => SlotsFollowSockets
  BY DEF Measured, SlotsOK
<1>4. QED BY <1>1, <1>2, <1>3, PTL DEF InterfacesSpec
=============================================================================
