----------------------------- MODULE ReceiveProofs -----------------------------
(***************************************************************************)
(* Theorems about Receive, for any tracks, aliases, objects, slots, memory *)
(* and number of subscriptions: assemblers belong to the subscription that *)
(* holds their alias, no object is lost without a word, a symbol is        *)
(* dropped as a duplicate only when its object was received, and the       *)
(* memory account is exact.                                                *)
(***************************************************************************)
EXTENDS Receive, FiniteSetLemmas

Slot == [alias: 0..MaxAlias, obj: Objects \cup {0}, total: Nat, data: Nat,
         mask: SUBSET Int, last: Nat, cap: Nat, gen: Nat, told: BOOLEAN]

Pending ==
    {Idle}
    \cup [op: {"evict"}, slot: SlotIds, dgram: Datagram, gen: Nat]
    \cup [op: {"decoded", "delivered", "expire"}, slot: SlotIds]
    \cup [op: {"sweep"}, slot: Nat]

Typed ==
    /\ subs \in [Aliases -> [track: Tracks \cup {NoTrack}, gen: Nat]]
    /\ nextGen \in Nat /\ now \in Nat
    /\ cursor \in Nat /\ window \in 1..MaxSlots
    /\ slots \in [SlotIds -> Slot] /\ index \in SUBSET SlotIds
    /\ memory \in Nat /\ peak \in Nat
    /\ pend \in Pending

\* The chains hold assemblers in use, of aliases that are subscribed.
IndexIsLive ==
    /\ \A i \in index : Occupied(slots[i])
    /\ \A i \in SlotIds : Occupied(slots[i]) =>
          slots[i].alias \in Aliases /\ Subscribed(slots[i].alias)

\* The slot a handler holds on to across a callback is free by now, or the
\* application knows what became of its object.
HeldWasTold ==
    pend.op \in {"evict", "decoded", "delivered", "expire"} /\ Occupied(slots[pend.slot])
        => slots[pend.slot].told

\* The completed objects are ones this connection handed over.
CompletedWasGot ==
    \A i \in DOMAIN completed :
        completed[i] = NoDone \/ <<completed[i].gen, completed[i].obj>> \in got

Assembly ==
    /\ Typed
    /\ IndexIsLive
    /\ HeldWasTold
    /\ CompletedWasGot
    /\ AssemblersAreCurrent
    /\ MemoryExact

-----------------------------------------------------------------------------
(* The memory of a slot array *)

CapSum(s) == SumFunctionOnSet([i \in SlotIds |-> s[i].cap], SlotIds)

Assemblers == [slots: [SlotIds -> Slot], index: SUBSET SlotIds, memory: Nat, peak: Nat]

\* What every function on assemblers keeps
Sound(m) == m \in Assemblers /\ m.memory = CapSum(m.slots) /\ m.peak <= MemoryLimit

LEMMA SlotIdsFinite == IsFiniteSet(SlotIds)
BY ReceiveAssumption, FS_Interval DEF SlotIds

\* A free slot is a slot, and holds no memory.
LEMMA FreeSlotTyped ==
    /\ FreeSlot \in Slot /\ ~Occupied(FreeSlot)
    /\ FreeSlot.cap = 0 /\ FreeSlot.gen = 0
BY ReceiveAssumption DEF FreeSlot, Slot, Occupied

LEMMA CapSumNat ==
    ASSUME NEW s \in [SlotIds -> Slot]
    PROVE  CapSum(s) \in Nat
<1> DEFINE f == [i \in SlotIds |-> s[i].cap]
<1>1. \A i \in SlotIds : f[i] \in Nat
  BY DEF Slot
<1> HIDE DEF f
<1>2. SumFunctionOnSet(f, SlotIds) \in Nat
  BY <1>1, SlotIdsFinite, SumType
<1>3. QED BY <1>2 DEF CapSum, f

\* One slot changes: the account moves by the difference, and never below 0.
LEMMA CapSumUpdate ==
    ASSUME NEW s \in [SlotIds -> Slot], NEW t \in [SlotIds -> Slot],
           NEW i \in SlotIds, \A j \in SlotIds \ {i} : t[j] = s[j]
    PROVE  /\ CapSum(t) = CapSum(s) - s[i].cap + t[i].cap
           /\ s[i].cap <= CapSum(s) /\ s[i].cap \in Nat /\ CapSum(s) \in Nat
<1> DEFINE f == [j \in SlotIds |-> s[j].cap]
           g == [j \in SlotIds |-> t[j].cap]
<1>1. \A j \in SlotIds : f[j] \in Nat /\ g[j] \in Nat /\ f[j] \in Int /\ g[j] \in Int
  BY DEF Slot
<1>2. \A j \in SlotIds \ {i} : f[j] = g[j]
  OBVIOUS
<1>3. f[i] = s[i].cap /\ g[i] = t[i].cap
  OBVIOUS
<1> HIDE DEF f, g
<1>4. SumFunctionOnSet(g, SlotIds) = SumFunctionOnSet(f, SlotIds) - f[i] + g[i]
  BY <1>1, <1>2, SlotIdsFinite, SumUpdate
<1>5. SumFunctionOnSet(f, SlotIds) = f[i] + SumFunctionOnSet(f, SlotIds \ {i})
  BY <1>1, SlotIdsFinite, SumRemove
<1>6. SumFunctionOnSet(f, SlotIds \ {i}) \in Nat
  <2>1. IsFiniteSet(SlotIds \ {i})
    BY SlotIdsFinite, FS_RemoveElement
  <2>2. QED BY <1>1, <2>1, SumType
<1>7. f[i] \in Nat
  BY <1>1
<1>8. QED BY <1>3, <1>4, <1>5, <1>6, <1>7 DEF CapSum, f, g

LEMMA ReleaseSound ==
    ASSUME NEW m, Sound(m), NEW i \in SlotIds
    PROVE  /\ Sound(Release(m, i))
           /\ Release(m, i).slots = [m.slots EXCEPT ![i] = FreeSlot]
           /\ Release(m, i).index = m.index \ {i}
           /\ Release(m, i).peak = m.peak
<1> DEFINE r == Release(m, i)
           t == [m.slots EXCEPT ![i] = FreeSlot]
           c == m.slots[i].cap
<1>1. m \in Assemblers /\ m.memory = CapSum(m.slots)
  BY DEF Sound
<1>2. /\ m.slots \in [SlotIds -> Slot] /\ m.index \in SUBSET SlotIds
      /\ m.memory \in Nat /\ m.peak \in Nat
  BY <1>1 DEF Assemblers
<1>3. t \in [SlotIds -> Slot] /\ t[i] = FreeSlot /\ \A j \in SlotIds \ {i} : t[j] = m.slots[j]
  BY <1>2, FreeSlotTyped
<1> HIDE DEF t
<1>4. /\ CapSum(t) = CapSum(m.slots) - c + FreeSlot.cap
      /\ c <= CapSum(m.slots) /\ c \in Nat /\ CapSum(m.slots) \in Nat
  BY <1>2, <1>3, CapSumUpdate
<1>5. m.memory - c \in Nat /\ CapSum(t) = m.memory - c
  BY <1>1, <1>4, FreeSlotTyped
<1>6. r = [slots |-> t, index |-> m.index \ {i}, memory |-> m.memory - c, peak |-> m.peak]
  <2> DEFINE mem == IF c <= m.memory THEN m.memory - c ELSE 0
  <2>1. mem = m.memory - c
    BY <1>1, <1>4
  <2>2. r = [m EXCEPT !.index = m.index \ {i}, !.memory = mem, !.slots = t]
    BY <1>1 DEF Release, Assemblers, t
  <2> HIDE DEF mem
  <2>3. QED BY <1>1, <2>1, <2>2 DEF Assemblers
<1> HIDE DEF r
<1>7. r \in Assemblers
  BY <1>2, <1>3, <1>5, <1>6 DEF Assemblers
<1>8. Sound(r)
  BY <1>5, <1>6, <1>7 DEF Sound
<1>9. QED BY <1>6, <1>8 DEF r, t

LEMMA SoundParts ==
    ASSUME NEW m, Sound(m)
    PROVE  /\ m.slots \in [SlotIds -> Slot] /\ m.index \in SUBSET SlotIds
           /\ m.memory \in Nat /\ m.peak \in Nat /\ m.memory = CapSum(m.slots)
           /\ m.peak <= MemoryLimit
           /\ m = [slots |-> m.slots, index |-> m.index, memory |-> m.memory,
                   peak |-> m.peak]
BY DEF Sound, Assemblers

\* A slot is rewritten without touching its buffers.
LEMMA WriteSound ==
    ASSUME NEW m, Sound(m), NEW i \in SlotIds, NEW e \in Slot,
           e.cap = m.slots[i].cap, NEW idx \in SUBSET SlotIds
    PROVE  Sound([slots |-> [m.slots EXCEPT ![i] = e], index |-> idx,
                  memory |-> m.memory, peak |-> m.peak])
<1> DEFINE t == [m.slots EXCEPT ![i] = e]
<1>1. /\ m.slots \in [SlotIds -> Slot] /\ m.memory \in Nat /\ m.peak \in Nat
      /\ m.memory = CapSum(m.slots) /\ m.peak <= MemoryLimit
  BY SoundParts
<1>2. t \in [SlotIds -> Slot] /\ t[i] = e /\ \A j \in SlotIds \ {i} : t[j] = m.slots[j]
  BY <1>1
<1> HIDE DEF t
<1>3. CapSum(t) = m.memory
  <2>1. /\ CapSum(t) = CapSum(m.slots) - m.slots[i].cap + t[i].cap
        /\ m.slots[i].cap \in Nat /\ CapSum(m.slots) \in Nat
    BY <1>1, <1>2, CapSumUpdate
  <2>2. t[i].cap = m.slots[i].cap
    BY <1>2
  <2>3. QED BY <1>1, <2>1, <2>2
<1>4. Sound([slots |-> t, index |-> idx, memory |-> m.memory, peak |-> m.peak])
  BY <1>1, <1>2, <1>3 DEF Sound, Assemblers
<1>5. QED BY <1>4 DEF t

\* transport_grow_assembler stays within the budget, the copy included, and
\* changes nothing but the buffers of one slot.
Grown(m, i, w) ==
    /\ Sound(w)
    /\ w.index = m.index
    /\ \E c \in Nat : w.slots = [m.slots EXCEPT ![i] = [m.slots[i] EXCEPT !.cap = c]]

LEMMA GrowSound ==
    ASSUME NEW m, Sound(m), NEW i \in SlotIds, NEW n \in Nat, CanGrow(m, i, n)
    PROVE  Grown(m, i, Grow(m, i, n))
<1> DEFINE old == m.slots[i].cap
<1>1. /\ m.slots \in [SlotIds -> Slot] /\ m.index \in SUBSET SlotIds
      /\ m.memory \in Nat /\ m.peak \in Nat /\ m.memory = CapSum(m.slots)
      /\ m.peak <= MemoryLimit
  BY SoundParts
<1>2. m.slots[i] \in Slot /\ old \in Nat
  BY <1>1 DEF Slot
<1>3. CASE old >= n
  <2>1. Grow(m, i, n) = m
    BY <1>3 DEF Grow
  <2>2. m.slots = [m.slots EXCEPT ![i] = [m.slots[i] EXCEPT !.cap = old]]
    BY <1>1, <1>2 DEF Slot
  <2>3. QED BY <1>2, <2>1, <2>2 DEF Grown
<1>4. CASE ~(old >= n)
  <2> DEFINE e == [m.slots[i] EXCEPT !.cap = n]
             t == [m.slots EXCEPT ![i] = e]
  <2>1. e \in Slot /\ e.cap = n
    BY <1>2 DEF Slot
  <2>2. Grow(m, i, n) = [m EXCEPT !.memory = m.memory - old + n,
                                  !.peak = m.memory + n, !.slots = t]
    BY <1>1, <1>4 DEF Grow, Sound, Assemblers
  <2> HIDE DEF e
  <2>3. t \in [SlotIds -> Slot] /\ t[i] = e /\ \A j \in SlotIds \ {i} : t[j] = m.slots[j]
    BY <1>1, <2>1
  <2> HIDE DEF t
  <2>4. Grow(m, i, n) = [slots |-> t, index |-> m.index,
                         memory |-> m.memory - old + n, peak |-> m.memory + n]
    BY <2>2 DEF Sound, Assemblers
  <2>5. CapSum(t) = CapSum(m.slots) - old + n /\ old <= CapSum(m.slots)
    BY <1>1, <2>1, <2>3, CapSumUpdate
  <2>6. m.memory + n <= MemoryLimit
    BY <1>2, <1>4 DEF CanGrow
  <2>7. m.memory - old + n \in Nat /\ m.memory + n \in Nat /\ CapSum(t) = m.memory - old + n
    BY <1>1, <1>2, <2>5
  <2> DEFINE q == Grow(m, i, n)
             mem == m.memory - old + n
             pk == m.memory + n
  <2>8. q = [slots |-> t, index |-> m.index, memory |-> mem, peak |-> pk]
    BY <2>4
  <2>9. mem \in Nat /\ pk \in Nat /\ CapSum(t) = mem /\ pk <= MemoryLimit
    BY <2>6, <2>7
  <2> HIDE DEF q, mem, pk
  <2>10. Sound(q) /\ q.index = m.index /\ q.slots = t
    BY <1>1, <2>3, <2>8, <2>9 DEF Sound, Assemblers
  <2>11. QED BY <2>10 DEF q, t, e, Grown
<1>5. QED BY <1>3, <1>4

LEMMA DatagramTyped ==
    ASSUME NEW d \in Datagram
    PROVE  /\ d.alias \in Aliases /\ d.obj \in Objects /\ d.total \in Nat \ {0}
           /\ d.data \in Nat \ {0} /\ d.sym \in Int
           /\ d.alias \in 0..MaxAlias
<1>1. /\ d.alias \in Aliases /\ d.obj \in Objects /\ d.total \in Totals
      /\ d.data \in DataCounts /\ d.sym \in 0..(Max(Totals) - 1)
  BY DEF Datagram
<1>2. d.total \in Nat \ {0} /\ d.data \in Nat \ {0}
  BY <1>1, ReceiveAssumption
<1>3. d.sym \in Int
  BY <1>1
<1>4. d.alias \in 0..MaxAlias
  BY <1>1, ReceiveAssumption DEF Aliases
<1>5. QED BY <1>1, <1>2, <1>3, <1>4

\* The slot of a new object, with buffers large enough
LEMMA ReuseSound ==
    ASSUME NEW m, Sound(m), NEW i \in SlotIds, NEW d \in Datagram, ReuseFits(m, i, d)
    PROVE  /\ Sound(Reuse(m, i, d))
           /\ Reuse(m, i, d).index = m.index \ {i}
           /\ \A j \in SlotIds \ {i} : Reuse(m, i, d).slots[j] = m.slots[j]
<1> DEFINE q == Reuse(m, i, d)
           u == Unindex(m, i)
<1>1. /\ m.slots \in [SlotIds -> Slot] /\ m.index \in SUBSET SlotIds
      /\ m.memory \in Nat /\ m.peak \in Nat /\ m.memory = CapSum(m.slots)
      /\ m.peak <= MemoryLimit
  BY SoundParts
<1>2. u = [slots |-> m.slots, index |-> m.index \ {i}, memory |-> m.memory, peak |-> m.peak]
  BY DEF Unindex, Sound, Assemblers
<1>3. Sound(u)
  BY <1>1, <1>2 DEF Sound, Assemblers
<1>4. u.slots = m.slots /\ u.index = m.index \ {i}
  BY <1>2
<1> HIDE DEF u
<1>5. CASE m.slots[i].cap >= d.total
  <2>1. q = u
    BY <1>5 DEF Reuse, u
  <2>2. QED BY <1>3, <1>4, <2>1
<1>6. CASE ~(m.slots[i].cap >= d.total)
  <2> DEFINE r == Release(u, i)
  <2>1. q = Grow(r, i, d.total)
    BY <1>6 DEF Reuse, u
  <2>2. /\ Sound(r) /\ r.slots = [m.slots EXCEPT ![i] = FreeSlot]
        /\ r.index = m.index \ {i}
    BY <1>3, <1>4, ReleaseSound
  <2>3. CanGrow(Release(m, i), i, d.total)
    BY <1>6 DEF ReuseFits
  <2>4. Release(m, i).slots = r.slots /\ Release(m, i).memory = r.memory
    <3>1. /\ Sound(Release(m, i))
          /\ Release(m, i).slots = [m.slots EXCEPT ![i] = FreeSlot]
      BY ReleaseSound
    <3> HIDE DEF r
    <3>2. QED BY <2>2, <3>1 DEF Sound
  <2>5. CanGrow(r, i, d.total)
    BY <2>3, <2>4 DEF CanGrow
  <2>6. d.total \in Nat
    BY DatagramTyped
  <2> HIDE DEF r, q
  <2>7. Sound(q) /\ q.index = r.index
    BY <2>1, <2>2, <2>5, <2>6, GrowSound DEF Grown, q
  <2>8. PICK c \in Nat : q.slots = [r.slots EXCEPT ![i] = [r.slots[i] EXCEPT !.cap = c]]
    BY <2>1, <2>2, <2>5, <2>6, GrowSound DEF Grown, q
  <2>9. \A j \in SlotIds \ {i} : q.slots[j] = m.slots[j]
    BY <1>1, <2>2, <2>8
  <2>10. QED BY <2>2, <2>7, <2>9 DEF q
<1>7. QED BY <1>5, <1>6

-----------------------------------------------------------------------------
(* The handler of a symbol *)

\* The object of a datagram was handed over, or nothing was.
Handed(d, gen) ==
    \/ UNCHANGED <<completed, ccursor, got>>
    \/ /\ completed' = [completed EXCEPT ![ccursor] =
                            [alias |-> d.alias, gen |-> gen, obj |-> d.obj]]
       /\ got' = got \cup {<<gen, d.obj>>}

\* Slot i stays with the object it had in m; the others stay as they are.
Stored(m, i) ==
    /\ slots' \in [SlotIds -> Slot] /\ index' = m.index
    /\ memory' \in Nat /\ peak' \in Nat
    /\ memory' = CapSum(slots') /\ peak' <= MemoryLimit
    /\ \A j \in SlotIds \ {i} : slots'[j] = m.slots[j]
    /\ slots'[i].alias = m.slots[i].alias /\ slots'[i].obj = m.slots[i].obj
    /\ slots'[i].gen = m.slots[i].gen /\ Occupied(slots'[i])
    /\ \/ pend' = Idle
       \/ pend' = [op |-> "decoded", slot |-> i] /\ slots'[i].told

LEMMA PutStored ==
    ASSUME NEW m, Sound(m), NEW q, Sound(q), NEW i \in SlotIds, NEW e \in Slot,
           Put([slots |-> [q.slots EXCEPT ![i] = e], index |-> m.index,
                memory |-> q.memory, peak |-> q.peak]),
           e.cap = q.slots[i].cap, e.alias = m.slots[i].alias,
           e.obj = m.slots[i].obj, e.gen = m.slots[i].gen, Occupied(e),
           \A j \in SlotIds \ {i} : q.slots[j] = m.slots[j],
           \/ pend' = Idle
           \/ pend' = [op |-> "decoded", slot |-> i] /\ e.told
    PROVE  Stored(m, i)
<1> DEFINE t == [q.slots EXCEPT ![i] = e]
           r == [slots |-> t, index |-> m.index, memory |-> q.memory, peak |-> q.peak]
<1>1. q.slots \in [SlotIds -> Slot] /\ m.index \in SUBSET SlotIds
  BY SoundParts
<1>2. Sound(r)
  BY <1>1, WriteSound
<1>3. t[i] = e /\ \A j \in SlotIds \ {i} : t[j] = m.slots[j]
  BY <1>1
<1>4. slots' = t /\ index' = m.index /\ memory' = q.memory /\ peak' = q.peak
  BY DEF Put
<1>5. r.slots = t /\ r.memory = q.memory /\ r.peak = q.peak
  OBVIOUS
<1> HIDE DEF r, t
<1>6. /\ t \in [SlotIds -> Slot] /\ q.memory \in Nat /\ q.peak \in Nat
      /\ q.memory = CapSum(t) /\ q.peak <= MemoryLimit
  BY <1>2, <1>5, SoundParts
<1>7. QED BY <1>3, <1>4, <1>6 DEF Stored

LEMMA AbsorbEffect ==
    ASSUME NEW m, Sound(m), NEW i \in SlotIds, NEW d \in Datagram, NEW gen \in Nat,
           NEW decodes \in BOOLEAN, now \in Nat, Occupied(m.slots[i]),
           Absorb(m, i, d, gen, decodes)
    PROVE  Stored(m, i) /\ Handed(d, gen)
<1> DEFINE grows == d.total > m.slots[i].total
           w == Grow(m, i, d.total)
           g == IF grows THEN [w EXCEPT !.slots[i].total = d.total] ELSE m
           fresh == d.sym \notin g.slots[i].mask
           s == IF fresh
                THEN [g EXCEPT !.slots[i] = Marked(@, d.sym)]
                ELSE g
           refused == grows /\ ~CanGrow(m, i, d.total)
           done == Cardinality(s.slots[i].mask) >= s.slots[i].data /\ decodes
<1>1. /\ m.slots \in [SlotIds -> Slot] /\ m.index \in SUBSET SlotIds
      /\ m = [slots |-> m.slots, index |-> m.index, memory |-> m.memory, peak |-> m.peak]
  BY SoundParts
<1>2. m.slots[i] \in Slot /\ d.total \in Nat \ {0} /\ d.sym \in Int
  BY <1>1, DatagramTyped
<1>3. \/ refused /\ Put(m) /\ pend' = Idle /\ UNCHANGED <<completed, ccursor, got>>
      \/ /\ ~refused /\ done /\ Put([s EXCEPT !.slots[i].told = TRUE])
         /\ completed' = [completed EXCEPT ![ccursor] =
                [alias |-> d.alias, gen |-> gen, obj |-> d.obj]]
         /\ got' = got \cup {<<gen, d.obj>>}
         /\ pend' = [op |-> "decoded", slot |-> i]
      \/ ~refused /\ ~done /\ Put(s) /\ pend' = Idle /\ UNCHANGED <<completed, ccursor, got>>
  BY Zenon DEF Absorb
<1>4. Handed(d, gen)
  BY <1>3 DEF Handed
<1>5. CASE refused
  <2>1. Put(m) /\ pend' = Idle
    BY <1>3, <1>5
  <2>2. m.slots = [m.slots EXCEPT ![i] = m.slots[i]]
    BY <1>1
  <2>3. Put([slots |-> [m.slots EXCEPT ![i] = m.slots[i]], index |-> m.index,
             memory |-> m.memory, peak |-> m.peak])
    BY <1>1, <2>1, <2>2
  <2>4. QED BY <1>2, <1>4, <2>1, <2>3, PutStored
<1>6. CASE ~refused
  \* The slot array q after the growth: only the buffers of slot i differ.
  <2>1. \E q : /\ Sound(q) /\ q.index = m.index
               /\ \A j \in SlotIds \ {i} : q.slots[j] = m.slots[j]
               /\ \E c \in Nat : q.slots[i] = [m.slots[i] EXCEPT !.cap = c]
               /\ \E n \in Nat \ {0} :
                     g = [slots |-> [q.slots EXCEPT ![i] = [q.slots[i] EXCEPT !.total = n]],
                          index |-> m.index, memory |-> q.memory, peak |-> q.peak]
    <3>1. CASE grows
      <4>1. CanGrow(m, i, d.total)
        BY <1>6, <3>1
      <4>2. /\ Sound(w) /\ w.index = m.index
            /\ \E c \in Nat : w.slots = [m.slots EXCEPT ![i] = [m.slots[i] EXCEPT !.cap = c]]
        <5>1. d.total \in Nat
          BY <1>2
        <5> HIDE DEF g, grows
        <5>2. Grown(m, i, Grow(m, i, d.total))
          BY <4>1, <5>1, GrowSound
        <5>3. QED BY <5>2 DEF Grown
      <4>3. g = [w EXCEPT !.slots[i].total = d.total]
        BY <3>1
      <4> HIDE DEF w, g
      <4>4. w = [slots |-> w.slots, index |-> w.index, memory |-> w.memory, peak |-> w.peak]
            /\ w.slots \in [SlotIds -> Slot]
        BY <4>2, SoundParts
      <4>5. g = [slots |-> [w.slots EXCEPT ![i] = [w.slots[i] EXCEPT !.total = d.total]],
                 index |-> m.index, memory |-> w.memory, peak |-> w.peak]
        BY <4>2, <4>3, <4>4
      <4>6. /\ \A j \in SlotIds \ {i} : w.slots[j] = m.slots[j]
            /\ \E c \in Nat : w.slots[i] = [m.slots[i] EXCEPT !.cap = c]
        BY <1>1, <4>2
      <4>7. QED BY <1>2, <4>2, <4>5, <4>6
    <3>2. CASE ~grows
      <4>1. g = m
        BY <3>2
      <4>2. m.slots[i] = [m.slots[i] EXCEPT !.cap = m.slots[i].cap] /\ m.slots[i].cap \in Nat
        BY <1>2 DEF Slot
      <4>3. m.slots = [m.slots EXCEPT ![i] = [m.slots[i] EXCEPT !.total = m.slots[i].total]]
        BY <1>1, <1>2 DEF Slot
      <4>4. m.slots[i].total \in Nat \ {0}
        BY <1>2 DEF Slot, Occupied
      <4> HIDE DEF g
      <4>5. g = [slots |-> [m.slots EXCEPT ![i] = [m.slots[i] EXCEPT !.total = m.slots[i].total]],
                 index |-> m.index, memory |-> m.memory, peak |-> m.peak]
        BY <1>1, <4>1, <4>3
      <4>6. QED BY <4>2, <4>4, <4>5
    <3>3. QED BY <3>1, <3>2
  <2>2. PICK q : /\ Sound(q) /\ q.index = m.index
                 /\ \A j \in SlotIds \ {i} : q.slots[j] = m.slots[j]
                 /\ \E c \in Nat : q.slots[i] = [m.slots[i] EXCEPT !.cap = c]
                 /\ \E n \in Nat \ {0} :
                       g = [slots |-> [q.slots EXCEPT ![i] = [q.slots[i] EXCEPT !.total = n]],
                            index |-> m.index, memory |-> q.memory, peak |-> q.peak]
    BY <2>1
  <2>3. PICK c \in Nat : q.slots[i] = [m.slots[i] EXCEPT !.cap = c]
    BY <2>2
  <2>4. PICK n \in Nat \ {0} :
          g = [slots |-> [q.slots EXCEPT ![i] = [q.slots[i] EXCEPT !.total = n]],
               index |-> m.index, memory |-> q.memory, peak |-> q.peak]
    BY <2>2
  <2> HIDE DEF g, grows, refused
  <2>5. q.slots \in [SlotIds -> Slot]
    BY <2>2, SoundParts
  <2> DEFINE x == g.slots[i]
  <2>6. /\ x \in Slot /\ x.cap = q.slots[i].cap /\ x.alias = m.slots[i].alias
        /\ x.obj = m.slots[i].obj /\ x.gen = m.slots[i].gen /\ Occupied(x)
    <3>1. x = [q.slots[i] EXCEPT !.total = n]
      BY <2>4, <2>5
    <3>2. /\ x \in Slot /\ x.cap = q.slots[i].cap /\ x.alias = q.slots[i].alias
          /\ x.obj = q.slots[i].obj /\ x.gen = q.slots[i].gen /\ x.total = n
      BY <2>5, <3>1 DEF Slot
    <3>3. /\ q.slots[i].alias = m.slots[i].alias
          /\ q.slots[i].obj = m.slots[i].obj /\ q.slots[i].gen = m.slots[i].gen
      BY <1>2, <2>3 DEF Slot
    <3>4. QED BY <3>2, <3>3 DEF Occupied
  <2>7. \A y : [g EXCEPT !.slots[i] = y] =
                 [slots |-> [q.slots EXCEPT ![i] = y], index |-> m.index,
                  memory |-> q.memory, peak |-> q.peak]
    BY <2>4, <2>5
  <2> DEFINE y == IF fresh THEN Marked(x, d.sym) ELSE x
  <2>8. /\ y \in Slot /\ y.cap = q.slots[i].cap /\ y.alias = m.slots[i].alias
        /\ y.obj = m.slots[i].obj /\ y.gen = m.slots[i].gen /\ Occupied(y)
    <3> HIDE DEF x
    <3>1. x.mask \cup {d.sym} \in SUBSET Int
      BY <1>2, <2>6 DEF Slot
    <3>2. QED BY <2>6, <3>1 DEF Slot, Occupied, Marked
  <2>9. s = [g EXCEPT !.slots[i] = y]
    <3>1. x = g.slots[i] /\ g.slots = [g.slots EXCEPT ![i] = x]
      BY <2>4, <2>5
    <3>2. g = [slots |-> g.slots, index |-> g.index, memory |-> g.memory, peak |-> g.peak]
      BY <2>4
    <3>3. g = [g EXCEPT !.slots[i] = x]
      BY <3>1, <3>2
    <3>4. CASE fresh
      <4>1. s = [g EXCEPT !.slots[i] = Marked(x, d.sym)]
        BY <3>4
      <4>2. y = Marked(x, d.sym)
        BY <3>4
      <4> HIDE DEF fresh, s, y
      <4>3. QED BY <3>1, <4>1, <4>2
    <3>5. CASE ~fresh
      BY <3>3, <3>5
    <3>6. QED BY <3>4, <3>5
  <2> HIDE DEF s, y, x
  <2>10. CASE done
    <3> DEFINE z == [y EXCEPT !.told = TRUE]
    <3>1. /\ z \in Slot /\ z.cap = y.cap /\ z.alias = y.alias /\ z.obj = y.obj
          /\ z.gen = y.gen /\ z.total = y.total /\ z.told
      BY <2>8 DEF Slot
    <3>2. [s EXCEPT !.slots[i].told = TRUE] = [g EXCEPT !.slots[i] = z]
      BY <2>4, <2>5, <2>9
    <3>3. Put([slots |-> [q.slots EXCEPT ![i] = z], index |-> m.index,
               memory |-> q.memory, peak |-> q.peak])
      BY <1>3, <1>6, <2>7, <2>10, <3>2
    <3>4. pend' = [op |-> "decoded", slot |-> i]
      BY <1>3, <1>6, <2>10
    <3> HIDE DEF z
    <3>5. /\ z \in Slot /\ z.cap = q.slots[i].cap /\ z.alias = m.slots[i].alias
          /\ z.obj = m.slots[i].obj /\ z.gen = m.slots[i].gen /\ Occupied(z)
      BY <2>8, <3>1 DEF Occupied
    <3>6. Sound(q) /\ \A j \in SlotIds \ {i} : q.slots[j] = m.slots[j]
      BY <2>2
    <3>7. pend' = Idle \/ (pend' = [op |-> "decoded", slot |-> i] /\ z.told)
      BY <3>1, <3>4
    <3>8. Stored(m, i)
      BY <3>3, <3>5, <3>6, <3>7, PutStored
    <3>9. QED BY <1>4, <3>8
  <2>11. CASE ~done
    <3>1. Put([slots |-> [q.slots EXCEPT ![i] = y], index |-> m.index,
               memory |-> q.memory, peak |-> q.peak])
      BY <1>3, <1>6, <2>7, <2>9, <2>11
    <3>2. pend' = Idle
      BY <1>3, <1>6, <2>11
    <3>3. Sound(q) /\ \A j \in SlotIds \ {i} : q.slots[j] = m.slots[j]
      BY <2>2
    <3>4. pend' = Idle \/ (pend' = [op |-> "decoded", slot |-> i] /\ y.told)
      BY <3>2
    <3>5. Stored(m, i)
      BY <2>8, <3>1, <3>3, <3>4, PutStored
    <3>6. QED BY <1>4, <3>5
  <2>12. QED BY <2>10, <2>11
<1>7. QED BY <1>5, <1>6

\* The assemblers of the connection, as the handlers take them up
LEMMA AsmSound ==
    ASSUME Typed, MemoryExact
    PROVE  Sound(Asm) /\ Asm.slots = slots /\ Asm.index = index
<1>1. memory = CapSum(slots)
  BY DEF MemoryExact, MemoryOf, SumFunction, CapSum
<1>2. QED BY <1>1, ReceiveAssumption DEF Typed, Sound, Asm, Assemblers

\* The account after a handler, and the slots it left alone
Booked(i) ==
    /\ slots' \in [SlotIds -> Slot] /\ memory' \in Nat /\ peak' \in Nat
    /\ memory' = CapSum(slots') /\ peak' <= MemoryLimit
    /\ \A j \in SlotIds \ {i} : slots'[j] = slots[j]

\* Slot i was released.
Released(i) == Booked(i) /\ index' = index \ {i} /\ ~Occupied(slots'[i])

\* Slot i was claimed for the object of a datagram.
Claimed(i, d, gen) ==
    /\ Booked(i) /\ index' = index \cup {i} /\ Occupied(slots'[i])
    /\ slots'[i].alias = d.alias /\ slots'[i].obj = d.obj /\ slots'[i].gen = gen
    /\ \/ pend' = Idle
       \/ pend' = [op |-> "decoded", slot |-> i] /\ slots'[i].told

LEMMA ReleaseEffect ==
    ASSUME Typed, MemoryExact, NEW i \in SlotIds, Put(Release(Asm, i))
    PROVE  Released(i)
<1> DEFINE r == Release(Asm, i)
<1>1. Sound(Asm) /\ Asm.slots = slots /\ Asm.index = index
  BY AsmSound
<1>2. Sound(r) /\ r.slots = [slots EXCEPT ![i] = FreeSlot] /\ r.index = index \ {i}
  BY <1>1, ReleaseSound
<1>3. slots' = r.slots /\ index' = r.index /\ memory' = r.memory /\ peak' = r.peak
  BY DEF Put
<1> HIDE DEF r
<1>4. /\ r.slots \in [SlotIds -> Slot] /\ r.memory \in Nat /\ r.peak \in Nat
      /\ r.memory = CapSum(r.slots) /\ r.peak <= MemoryLimit
  BY <1>2, SoundParts
<1>5. slots'[i] = FreeSlot /\ \A j \in SlotIds \ {i} : slots'[j] = slots[j]
  BY <1>2, <1>3 DEF Typed
<1>6. QED BY <1>2, <1>3, <1>4, <1>5, FreeSlotTyped DEF Released, Booked

LEMMA PlaceEffect ==
    ASSUME Typed, MemoryExact, NEW i \in SlotIds, NEW d \in Datagram, NEW gen \in Nat,
           NEW decodes \in BOOLEAN, Place(i, d, gen, decodes)
    PROVE  /\ Handed(d, gen)
           /\ (Released(i) /\ pend' = Idle) \/ Claimed(i, d, gen)
<1>1. Sound(Asm) /\ Asm.slots = slots /\ Asm.index = index /\ now \in Nat
  BY AsmSound DEF Typed
<1>2. CASE ~ReuseFits(Asm, i, d)
  <2>1. Put(Release(Asm, i)) /\ pend' = Idle /\ UNCHANGED <<completed, ccursor, got>>
    BY <1>2 DEF Place
  <2>2. QED BY <2>1, ReleaseEffect DEF Handed
<1>3. CASE ReuseFits(Asm, i, d)
  <2> DEFINE q == Reuse(Asm, i, d)
             e == [alias |-> d.alias, obj |-> d.obj, total |-> d.total,
                   data |-> d.data, mask |-> {}, last |-> now,
                   cap |-> q.slots[i].cap, gen |-> gen, told |-> FALSE]
             c == Claim(q, i, d, gen)
  <2>1. /\ Sound(q) /\ q.index = index \ {i}
        /\ \A j \in SlotIds \ {i} : q.slots[j] = slots[j]
    BY <1>1, <1>3, ReuseSound
  <2>2. Absorb(c, i, d, gen, decodes)
    BY <1>3 DEF Place
  <2> HIDE DEF q
  <2>3. /\ q.slots \in [SlotIds -> Slot] /\ q.index \in SUBSET SlotIds
        /\ q = [slots |-> q.slots, index |-> q.index, memory |-> q.memory, peak |-> q.peak]
    BY <2>1, SoundParts
  <2>4. e \in Slot /\ Occupied(e)
    <3>1. q.slots[i].cap \in Nat
      BY <2>3 DEF Slot
    <3>2. /\ d.alias \in 0..MaxAlias /\ d.obj \in Objects /\ d.total \in Nat \ {0}
          /\ d.data \in Nat
      BY DatagramTyped
    <3>3. QED BY <1>1, <3>1, <3>2 DEF Slot, Occupied
  <2>5. c = [slots |-> [q.slots EXCEPT ![i] = e], index |-> q.index \cup {i},
             memory |-> q.memory, peak |-> q.peak]
    <3>1. c = [q EXCEPT !.index = q.index \cup {i}, !.slots[i] = e]
      BY DEF Claim
    <3> HIDE DEF e, c
    <3>2. QED BY <2>3, <3>1
  <2>6. e.cap = q.slots[i].cap /\ e.alias = d.alias /\ e.obj = d.obj /\ e.gen = gen
    OBVIOUS
  <2> HIDE DEF e, c
  <2>7. Sound(c)
    <3>1. q.index \cup {i} \in SUBSET SlotIds
      BY <2>3
    <3>2. QED BY <2>1, <2>4, <2>5, <2>6, <3>1, WriteSound
  <2>8. /\ c.slots[i] = e /\ c.index = index \cup {i}
        /\ \A j \in SlotIds \ {i} : c.slots[j] = slots[j]
    BY <2>1, <2>3, <2>5
  <2>9. Stored(c, i) /\ Handed(d, gen)
    BY <1>1, <2>2, <2>4, <2>7, <2>8, AbsorbEffect
  <2>10. Claimed(i, d, gen)
    BY <2>6, <2>8, <2>9 DEF Stored, Claimed, Booked
  <2>11. QED BY <2>9, <2>10
<1>4. QED BY <1>2, <1>3

\* The slot that is selected is one of the window.
LEMMA SelectInWindow ==
    ASSUME Typed, NEW limit \in Nat, limit \in window..MaxSlots
    PROVE  Select(limit) \in SlotIds
<1> DEFINE range == 0..(limit - 1)
           free == {i \in range : ~Occupied(slots[i])}
           oldest == {i \in range : \A j \in range : slots[i].last <= slots[j].last}
           from == IF free # {} THEN free ELSE oldest
           last == [i \in range |-> slots[i].last]
           dist == [i \in from |-> Distance(i, limit)]
<1>1. limit \in 1..MaxSlots /\ MaxSlots \in Nat
  BY ReceiveAssumption DEF Typed
<1>2. range \subseteq SlotIds /\ 0 \in range
  BY <1>1 DEF SlotIds
<1>3. oldest # {}
  <2>1. \A i \in range : last[i] \in Nat
    BY <1>2 DEF Typed, Slot
  <2>2. \E i \in range : \A j \in range : last[i] <= last[j]
    <3> HIDE DEF last, range
    <3> QED BY <1>2, <2>1, LeastExists
  <2>3. QED BY <2>2
<1>4. from # {} /\ from \subseteq range
  BY <1>3
<1>5. \A i \in range : Distance(i, limit) \in Nat
  <2>1. cursor % limit \in Int
    BY <1>1 DEF Typed
  <2>2. \A x \in Int : x % limit \in Nat
    BY <1>1
  <2>3. QED BY <2>1, <2>2 DEF Distance
<1>6. \E i \in from : \A j \in from : Distance(i, limit) <= Distance(j, limit)
  <2>1. \A i \in from : dist[i] \in Nat /\ dist[i] = Distance(i, limit)
    BY <1>4, <1>5
  <2>2. \E i \in from : \A j \in from : dist[i] <= dist[j]
    <3> HIDE DEF dist, from
    <3> QED BY <1>4, <2>1, LeastExists
  <2> HIDE DEF dist
  <2>3. QED BY <2>1, <2>2
<1>7. Select(limit) = CHOOSE i \in from : \A j \in from : Distance(i, limit) <= Distance(j, limit)
  BY DEF Select
<1>8. Select(limit) \in from
  <2> HIDE DEF from
  <2> QED BY <1>6, <1>7
<1>9. QED BY <1>2, <1>4, <1>8

-----------------------------------------------------------------------------
(* What the effects keep *)

LEMMA PendParts ==
    ASSUME Typed
    PROVE  /\ pend.op = "evict" => pend.slot \in SlotIds /\ pend.dgram \in Datagram
                                    /\ pend.gen \in Nat
           /\ pend.op \in {"decoded", "delivered", "expire"} => pend.slot \in SlotIds
           /\ pend.op = "sweep" => pend.slot \in Nat
BY DEF Typed, Pending, Idle

LEMMA IdleParts ==
    /\ Idle \in Pending /\ Idle.op = "idle"
    /\ \A i \in SlotIds : /\ [op |-> "decoded", slot |-> i] \in Pending
                          /\ [op |-> "delivered", slot |-> i] \in Pending
                          /\ [op |-> "expire", slot |-> i] \in Pending
                          /\ [op |-> "sweep", slot |-> i + 1] \in Pending
<1>1. \A i \in SlotIds : i + 1 \in Nat
  BY ReceiveAssumption DEF SlotIds
<1>2. QED BY <1>1 DEF Idle, Pending

LEMMA BookedIsExact ==
    ASSUME NEW i \in SlotIds, Booked(i)
    PROVE  MemoryExact'
BY DEF Booked, MemoryExact, MemoryOf, SumFunction, CapSum

\* The slot that changes is released.
LEMMA AfterReleased ==
    ASSUME Assembly, NEW i \in SlotIds, Released(i), UNCHANGED subs
    PROVE  /\ IndexIsLive' /\ AssemblersAreCurrent' /\ MemoryExact'
           /\ index' \in SUBSET SlotIds
<1>1. MemoryExact'
  BY BookedIsExact DEF Released
<1>2. \A j \in SlotIds : Occupied(slots'[j]) => j # i /\ slots'[j] = slots[j]
  BY DEF Released, Booked
<1>3. AssemblersAreCurrent'
  BY <1>2 DEF Assembly, AssemblersAreCurrent
<1>4. IndexIsLive' /\ index' \in SUBSET SlotIds
  <2>1. \A j \in index' : j \in index /\ j # i /\ j \in SlotIds /\ slots'[j] = slots[j]
    BY DEF Assembly, Typed, Released, Booked
  <2>2. QED BY <1>2, <2>1 DEF Assembly, IndexIsLive, Subscribed
<1>5. QED BY <1>1, <1>3, <1>4

\* The slot that changes now belongs to a subscribed alias.
LEMMA AfterClaimed ==
    ASSUME Assembly, NEW i \in SlotIds, NEW d \in Datagram, NEW gen \in Nat,
           Claimed(i, d, gen), Subscribed(d.alias), subs[d.alias].gen = gen,
           UNCHANGED subs
    PROVE  /\ IndexIsLive' /\ AssemblersAreCurrent' /\ MemoryExact'
           /\ index' \in SUBSET SlotIds
<1>1. MemoryExact'
  BY BookedIsExact DEF Claimed
<1>2. d.alias \in Aliases
  BY DatagramTyped
<1>3. \A j \in SlotIds \ {i} : slots'[j] = slots[j]
  BY DEF Claimed, Booked
<1>4. AssemblersAreCurrent'
  BY <1>3 DEF Assembly, AssemblersAreCurrent, Claimed
<1>5. index' \in SUBSET SlotIds
  BY DEF Assembly, Typed, Claimed
<1>6. \A j \in index' : Occupied(slots'[j])
  BY <1>3 DEF Assembly, Typed, IndexIsLive, Claimed
<1>7. \A j \in SlotIds : Occupied(slots'[j]) =>
        slots'[j].alias \in Aliases /\ Subscribed(slots'[j].alias)
  BY <1>2, <1>3 DEF Assembly, IndexIsLive, Claimed
<1>8. QED BY <1>1, <1>4, <1>5, <1>6, <1>7 DEF IndexIsLive, Subscribed

LEMMA HandedKeeps ==
    ASSUME CompletedWasGot, NEW d, NEW gen, Handed(d, gen)
    PROVE  CompletedWasGot'
<1>1. CASE UNCHANGED <<completed, ccursor, got>>
  BY <1>1 DEF CompletedWasGot
<1>2. CASE /\ completed' = [completed EXCEPT ![ccursor] =
                               [alias |-> d.alias, gen |-> gen, obj |-> d.obj]]
           /\ got' = got \cup {<<gen, d.obj>>}
  <2> SUFFICES ASSUME NEW i \in DOMAIN completed
               PROVE  \/ completed'[i] = NoDone
                      \/ <<completed'[i].gen, completed'[i].obj>> \in got'
    BY <1>2 DEF CompletedWasGot
  <2>1. CASE i = ccursor
    BY <1>2, <2>1
  <2>2. CASE i # ccursor
    BY <1>2, <2>2 DEF CompletedWasGot
  <2>3. QED BY <2>1, <2>2
<1>3. QED BY <1>1, <1>2 DEF Handed

\* What NothingLostSilently says of one step
LostLoudly ==
    \A i \in SlotIds :
        (Occupied(slots[i]) /\ ~slots[i].told
           /\ subs[slots[i].alias].gen = subs'[slots[i].alias].gen)
        => \/ slots'[i].alias = slots[i].alias /\ slots'[i].obj = slots[i].obj
           \/ \E o \in Objects : /\ slots[i].obj <= o
                                  /\ RetireRecoveryThrough(slots[i].alias, o)

-----------------------------------------------------------------------------
(* One lemma per action *)

LEMMA SubscribeKeeps ==
    ASSUME Assembly, NEW t \in Tracks, NEW written \in BOOLEAN, Subscribe(t, written)
    PROVE  Assembly' /\ LostLoudly
<1>1. UNCHANGED <<slots, index, cursor, window, memory, peak, completed, ccursor,
                  closing, pend, now, got>>
  BY DEF Subscribe
<1>2. nextGen' \in Nat /\ nextGen \in Nat
  BY DEF Subscribe, Assembly, Typed
<1>3. FreeAliases # {} /\ FreeAliases \subseteq Nat
  BY ReceiveAssumption DEF Subscribe, FreeAliases, Aliases
<1>4. Min(FreeAliases) \in FreeAliases
  BY <1>3, MinOfNaturals
<1>5. PICK a \in Aliases : /\ ~Subscribed(a)
                           /\ \/ subs' = subs
                              \/ subs' = [subs EXCEPT ![a] = [track |-> t, gen |-> nextGen + 1]]
  BY <1>4 DEF Subscribe, FreeAliases
<1>6. subs' \in [Aliases -> [track: Tracks \cup {NoTrack}, gen: Nat]]
  <2>1. subs \in [Aliases -> [track: Tracks \cup {NoTrack}, gen: Nat]]
    BY DEF Assembly, Typed
  <2>2. QED BY <1>2, <1>5, <2>1
<1>7. Typed'
  BY <1>1, <1>2, <1>6 DEF Assembly, Typed
<1>8. \A i \in SlotIds : Occupied(slots[i]) =>
        slots[i].alias \in Aliases /\ slots[i].alias # a
        /\ subs'[slots[i].alias] = subs[slots[i].alias]
  BY <1>5 DEF Assembly, IndexIsLive, Typed
<1>9. IndexIsLive' /\ AssemblersAreCurrent'
  BY <1>1, <1>8 DEF Assembly, IndexIsLive, AssemblersAreCurrent, Subscribed
<1>10. HeldWasTold' /\ CompletedWasGot' /\ MemoryExact'
  BY <1>1 DEF Assembly, HeldWasTold, CompletedWasGot, MemoryExact, MemoryOf
<1>11. LostLoudly
  BY <1>1 DEF LostLoudly
<1>12. QED BY <1>7, <1>9, <1>10, <1>11 DEF Assembly

\* Some assemblers are released: the account stays exact, and the other slots stay.
LEMMA ReleaseAllEffect ==
    ASSUME Typed, MemoryExact, NEW S \in SUBSET SlotIds, ReleaseAll(S)
    PROVE  /\ slots' \in [SlotIds -> Slot] /\ index' = index \ S
           /\ memory' = CapSum(slots') /\ memory' \in Nat
           /\ \A i \in S : slots'[i] = FreeSlot
           /\ \A i \in SlotIds \ S : slots'[i] = slots[i]
<1>1. /\ slots' = [i \in SlotIds |-> IF i \in S THEN FreeSlot ELSE slots[i]]
      /\ index' = index \ S /\ memory' = memory - MemoryOf(S)
  BY DEF ReleaseAll
<1>2. slots \in [SlotIds -> Slot] /\ memory \in Nat
  BY DEF Typed
<1>3. slots' \in [SlotIds -> Slot]
  BY <1>1, <1>2, FreeSlotTyped
<1>4. memory' = CapSum(slots')
  <2> DEFINE f == [i \in SlotIds |-> slots[i].cap]
             g == [i \in SlotIds |-> slots'[i].cap]
             h == [i \in S |-> slots[i].cap]
  <2>1. memory = SumFunctionOnSet(f, SlotIds)
    BY DEF MemoryExact, MemoryOf, SumFunction
  <2>2. MemoryOf(S) = SumFunctionOnSet(h, S)
    BY DEF MemoryOf, SumFunction
  <2>3. /\ \A i \in SlotIds : f[i] \in Int
        /\ \A i \in S : h[i] \in Int /\ h[i] = f[i] /\ g[i] = 0
        /\ \A i \in SlotIds \ S : f[i] = g[i]
    BY <1>1, <1>2, FreeSlotTyped DEF Slot
  <2>4. IsFiniteSet(SlotIds) /\ IsFiniteSet(S) /\ IsFiniteSet(SlotIds \ S)
    BY SlotIdsFinite, FS_Subset
  <2>5. CapSum(slots') = SumFunctionOnSet(g, SlotIds)
    BY DEF CapSum
  <2> HIDE DEF f, g, h
  <2>6. SumFunctionOnSet(f, SlotIds) =
          SumFunctionOnSet(f, S) + SumFunctionOnSet(f, SlotIds \ S)
    BY <2>3, <2>4, SumSplit
  <2>7. \A i \in SlotIds : g[i] \in Int
    BY <2>3
  <2>8. SumFunctionOnSet(g, SlotIds) =
          SumFunctionOnSet(g, S) + SumFunctionOnSet(g, SlotIds \ S)
    BY <2>4, <2>7, SumSplit
  <2>9. SumFunctionOnSet(h, S) = SumFunctionOnSet(f, S)
    BY <2>3, <2>4, SumAgree
  <2>10. SumFunctionOnSet(f, SlotIds \ S) = SumFunctionOnSet(g, SlotIds \ S)
    BY <2>3, <2>4, SumAgree
  <2>11. SumFunctionOnSet(g, S) = 0
    BY <2>3, <2>4, SumZero
  <2>12. /\ SumFunctionOnSet(f, S) \in Int /\ SumFunctionOnSet(f, SlotIds \ S) \in Int
    BY <2>3, <2>4, SumType
  <2>13. QED BY <1>1, <2>1, <2>2, <2>5, <2>6, <2>8, <2>9, <2>10, <2>11, <2>12
<1>5. QED BY <1>1, <1>2, <1>3, <1>4, CapSumNat

\* A track ends, or is acknowledged: what is left are assemblers the connection had,
\* under the subscriptions they had.
LEMMA ReleaseAllKeeps ==
    ASSUME Assembly, NEW S \in SUBSET SlotIds, ReleaseAll(S), peak' = peak,
           \A i \in SlotIds \ S : Occupied(slots[i]) =>
               subs'[slots[i].alias] = subs[slots[i].alias]
    PROVE  /\ slots' \in [SlotIds -> Slot] /\ index' \in SUBSET SlotIds /\ memory' \in Nat
           /\ MemoryExact' /\ AssemblersAreCurrent' /\ IndexIsLive'
           /\ \A i \in SlotIds : Occupied(slots'[i]) =>
                 i \notin S /\ slots'[i] = slots[i] /\ Occupied(slots[i])
           /\ \A i \in SlotIds \ S : slots'[i] = slots[i]
<1>1. /\ slots' \in [SlotIds -> Slot] /\ index' = index \ S
      /\ memory' = CapSum(slots') /\ memory' \in Nat
      /\ \A i \in S : slots'[i] = FreeSlot
      /\ \A i \in SlotIds \ S : slots'[i] = slots[i]
  BY ReleaseAllEffect DEF Assembly
<1>2. index' \in SUBSET SlotIds
  BY <1>1 DEF Assembly, Typed
<1>3. MemoryExact'
  BY <1>1 DEF Assembly, MemoryExact, MemoryOf, SumFunction, CapSum
<1>4. \A i \in SlotIds : Occupied(slots'[i]) =>
         i \notin S /\ slots'[i] = slots[i] /\ Occupied(slots[i])
  BY <1>1, FreeSlotTyped
<1>5. \A i \in SlotIds : Occupied(slots'[i]) =>
         /\ slots[i].alias \in Aliases /\ Subscribed(slots[i].alias)
         /\ subs'[slots[i].alias] = subs[slots[i].alias]
  BY <1>4 DEF Assembly, IndexIsLive
<1>6. AssemblersAreCurrent'
  BY <1>4, <1>5 DEF Assembly, AssemblersAreCurrent
<1>7. IndexIsLive'
  <2>1. \A i \in index' : i \in SlotIds \ S /\ i \in index /\ slots'[i] = slots[i]
    BY <1>1, <1>2
  <2>2. QED BY <1>4, <1>5, <2>1 DEF Assembly, IndexIsLive, Subscribed
<1>8. QED BY <1>1, <1>2, <1>3, <1>4, <1>6, <1>7

LEMMA UnsubscribeKeeps ==
    ASSUME Assembly, NEW t \in Tracks, Unsubscribe(t)
    PROVE  Assembly' /\ LostLoudly
<1> DEFINE a == AliasOf(t)
           S == SlotsOf(a)
<1>1. UNCHANGED <<nextGen, cursor, window, peak, completed, ccursor, closing, pend, now, got>>
  BY DEF Unsubscribe
<1>2. a \in Aliases /\ Subscribed(a)
  BY DEF Unsubscribe, HasTrack, AliasOf
<1>3. ReleaseAll(S) /\ subs' = [subs EXCEPT ![a] = NoSub]
  BY DEF Unsubscribe
<1>4. S \in SUBSET SlotIds /\ \A i \in SlotIds : Occupied(slots[i]) =>
                                  (i \in S <=> slots[i].alias = a)
  BY DEF SlotsOf
<1> HIDE DEF a, S
<1>5. subs \in [Aliases -> [track: Tracks \cup {NoTrack}, gen: Nat]]
  BY DEF Assembly, Typed
<1>6. \A i \in SlotIds : Occupied(slots[i]) =>
         /\ slots[i].alias \in Aliases /\ subs[slots[i].alias].gen # 0
  BY DEF Assembly, IndexIsLive, Subscribed
<1>7. \A i \in SlotIds \ S : Occupied(slots[i]) =>
         subs'[slots[i].alias] = subs[slots[i].alias]
  BY <1>3, <1>4, <1>5, <1>6
<1>8. /\ slots' \in [SlotIds -> Slot] /\ index' \in SUBSET SlotIds /\ memory' \in Nat
      /\ MemoryExact' /\ AssemblersAreCurrent' /\ IndexIsLive'
      /\ \A i \in SlotIds : Occupied(slots'[i]) => slots'[i] = slots[i] /\ Occupied(slots[i])
      /\ \A i \in SlotIds \ S : slots'[i] = slots[i]
  BY <1>1, <1>3, <1>4, <1>7, ReleaseAllKeeps
<1>9. subs' \in [Aliases -> [track: Tracks \cup {NoTrack}, gen: Nat]]
  BY <1>3, <1>5 DEF NoSub
<1>10. Typed'
  BY <1>1, <1>8, <1>9 DEF Assembly, Typed
<1>11. HeldWasTold'
  <2>1. pend.op \in {"evict", "decoded", "delivered", "expire"} => pend.slot \in SlotIds
    BY PendParts DEF Assembly
  <2>2. QED BY <1>1, <1>8, <2>1 DEF Assembly, HeldWasTold
<1>12. CompletedWasGot'
  BY <1>1 DEF Assembly, CompletedWasGot
<1>13. LostLoudly
  <2> SUFFICES ASSUME NEW i \in SlotIds, Occupied(slots[i]),
                      subs[slots[i].alias].gen = subs'[slots[i].alias].gen
               PROVE  slots'[i] = slots[i]
    BY DEF LostLoudly
  <2>1. slots[i].alias # a
    BY <1>2, <1>3, <1>5, <1>6 DEF NoSub
  <2>2. QED BY <1>4, <1>8, <2>1
<1>14. QED BY <1>8, <1>10, <1>11, <1>12, <1>13 DEF Assembly

\* An acknowledgement gives up what it covers; the application may not hear of these,
\* and of these only.
LEMMA RetireKeeps ==
    ASSUME Assembly, NEW a, NEW o \in Objects, RetireRecoveryThrough(a, o),
           pend' \in Pending, pend'.op \in {"idle", "delivered"},
           pend'.op = "delivered" => pend.op = "decoded" /\ pend'.slot = pend.slot
    PROVE  Assembly' /\ LostLoudly
<1> DEFINE S == Covered(a, o)
<1>1. /\ ReleaseAll(S)
      /\ UNCHANGED <<subs, nextGen, cursor, window, peak, completed, ccursor,
                     closing, now, got>>
  BY DEF RetireRecoveryThrough
<1>2. S \in SUBSET SlotIds /\ \A i \in S : slots[i].alias = a /\ slots[i].obj <= o
  BY DEF Covered, SlotsOf
<1> HIDE DEF S
<1>3. /\ slots' \in [SlotIds -> Slot] /\ index' \in SUBSET SlotIds /\ memory' \in Nat
      /\ MemoryExact' /\ AssemblersAreCurrent' /\ IndexIsLive'
      /\ \A i \in SlotIds : Occupied(slots'[i]) => slots'[i] = slots[i] /\ Occupied(slots[i])
      /\ \A i \in SlotIds \ S : slots'[i] = slots[i]
  BY <1>1, <1>2, ReleaseAllKeeps
<1>4. Typed'
  BY <1>1, <1>3 DEF Assembly, Typed
<1>5. HeldWasTold'
  <2>1. pend.op = "decoded" => pend.slot \in SlotIds
    BY PendParts DEF Assembly
  <2>2. QED BY <1>3, <2>1 DEF Assembly, HeldWasTold
<1>6. CompletedWasGot'
  BY <1>1 DEF Assembly, CompletedWasGot
<1>7. LostLoudly
  <2> SUFFICES ASSUME NEW i \in SlotIds
               PROVE  \/ slots'[i] = slots[i]
                      \/ /\ slots[i].obj <= o
                         /\ RetireRecoveryThrough(slots[i].alias, o)
    BY DEF LostLoudly
  <2>1. CASE i \in S
    BY <1>2, <2>1
  <2>2. CASE i \notin S
    BY <1>3, <2>2
  <2>3. QED BY <2>1, <2>2
<1>8. QED BY <1>3, <1>4, <1>5, <1>6, <1>7 DEF Assembly

LEMMA AcknowledgeWindowsKeeps ==
    ASSUME Assembly, NEW a \in Aliases, NEW o \in Objects, AcknowledgeWindows(a, o)
    PROVE  Assembly' /\ LostLoudly
<1>1. pend' = Idle /\ RetireRecoveryThrough(a, o)
  BY DEF AcknowledgeWindows
<1>2. pend' \in Pending /\ pend'.op = "idle"
  BY <1>1, IdleParts
<1>3. QED BY <1>1, <1>2, RetireKeeps

LEMMA DeliverKeeps ==
    ASSUME Assembly, Deliver
    PROVE  Assembly' /\ LostLoudly
<1>1. pend.op = "decoded" /\ pend.slot \in SlotIds
  BY PendParts DEF Deliver, Assembly
<1>2. /\ pend' = [op |-> "delivered", slot |-> pend.slot]
      /\ pend' \in Pending /\ pend'.op = "delivered" /\ pend'.slot = pend.slot
  BY <1>1, IdleParts DEF Deliver
<1>3. CASE \E o \in Objects : RetireRecoveryThrough(slots[pend.slot].alias, o)
  <2>1. PICK o \in Objects : RetireRecoveryThrough(slots[pend.slot].alias, o)
    BY <1>3
  <2>2. QED BY <1>1, <1>2, <2>1, RetireKeeps
<1>4. CASE UNCHANGED <<subs, nextGen, slots, index, cursor, window, memory, peak,
                      completed, ccursor, closing, now, got>>
  <2>1. Typed'
    BY <1>2, <1>4 DEF Assembly, Typed
  <2>2. IndexIsLive' /\ AssemblersAreCurrent' /\ MemoryExact' /\ LostLoudly
    BY <1>4 DEF Assembly, IndexIsLive, AssemblersAreCurrent, MemoryExact, MemoryOf,
                LostLoudly, Subscribed
  <2>3. HeldWasTold' /\ CompletedWasGot'
    BY <1>1, <1>2, <1>4 DEF HeldWasTold, CompletedWasGot, Assembly
  <2>4. QED BY <2>1, <2>2, <2>3 DEF Assembly
<1>5. QED BY <1>3, <1>4 DEF Deliver

\* A slot is found for a symbol: it stays with its object.
LEMMA ReceiveSymbolKeeps ==
    ASSUME Assembly, NEW d \in Datagram, NEW decodes \in BOOLEAN, ReceiveSymbol(d, decodes)
    PROVE  Assembly' /\ LostLoudly
<1> DEFINE gen == subs[d.alias].gen
<1>1. UNCHANGED <<subs, nextGen, cursor, window, closing, now>>
  BY DEF ReceiveSymbol
<1>2. PICK i \in Find(d.alias, d.obj) : Absorb(Asm, i, d, gen, decodes)
  BY DEF ReceiveSymbol
<1>3. i \in SlotIds /\ Occupied(slots[i])
  BY DEF Find, Assembly, Typed, IndexIsLive
<1>4. gen \in Nat /\ now \in Nat
  BY DatagramTyped DEF Assembly, Typed
<1>5. Sound(Asm) /\ Asm.slots = slots /\ Asm.index = index
  BY AsmSound DEF Assembly
<1> HIDE DEF gen
<1>6. Stored(Asm, i) /\ Handed(d, gen)
  BY <1>2, <1>3, <1>4, <1>5, AbsorbEffect
<1>7. /\ slots' \in [SlotIds -> Slot] /\ index' = index
      /\ memory' \in Nat /\ peak' \in Nat
      /\ memory' = CapSum(slots') /\ peak' <= MemoryLimit
      /\ \A j \in SlotIds \ {i} : slots'[j] = slots[j]
      /\ slots'[i].alias = slots[i].alias /\ slots'[i].obj = slots[i].obj
      /\ slots'[i].gen = slots[i].gen /\ Occupied(slots'[i])
      /\ \/ pend' = Idle
         \/ pend' = [op |-> "decoded", slot |-> i] /\ slots'[i].told
  BY <1>5, <1>6 DEF Stored
<1>8. pend' \in Pending
  BY <1>3, <1>7, IdleParts
<1>9. Typed'
  BY <1>1, <1>7, <1>8 DEF Assembly, Typed
<1>10. MemoryExact'
  BY <1>7 DEF MemoryExact, MemoryOf, SumFunction, CapSum
<1>11. \A j \in SlotIds : /\ slots'[j].alias = slots[j].alias /\ slots'[j].obj = slots[j].obj
                         /\ slots'[j].gen = slots[j].gen
                         /\ (Occupied(slots'[j]) <=> Occupied(slots[j]))
  BY <1>3, <1>7
<1>12. AssemblersAreCurrent' /\ LostLoudly
  <2>1. LostLoudly
    BY <1>11 DEF LostLoudly
  <2>2. subs' = subs
    BY <1>1
  <2>3. ASSUME NEW j \in SlotIds, Occupied(slots'[j])
        PROVE  slots'[j].gen = subs'[slots'[j].alias].gen
    <3>1. slots[j].gen = subs[slots[j].alias].gen
      BY <1>11, <2>3 DEF Assembly, AssemblersAreCurrent
    <3>2. QED BY <1>11, <2>2, <3>1
  <2>4. QED BY <2>1, <2>3 DEF AssemblersAreCurrent
<1>13. IndexIsLive'
  <2>1. index \subseteq SlotIds
    BY DEF Assembly, Typed
  <2>2. \A j \in index' : Occupied(slots'[j])
    BY <1>7, <1>11, <2>1 DEF Assembly, IndexIsLive
  <2>3. \A j \in SlotIds : Occupied(slots'[j]) =>
          slots'[j].alias \in Aliases /\ subs'[slots'[j].alias].gen # 0
    <3>1. subs' = subs
      BY <1>1
    <3>2. \A j \in SlotIds : Occupied(slots[j]) =>
            slots[j].alias \in Aliases /\ subs[slots[j].alias].gen # 0
      BY DEF Assembly, IndexIsLive, Subscribed
    <3>3. QED BY <1>11, <3>1, <3>2
  <2>4. QED BY <2>2, <2>3 DEF IndexIsLive, Subscribed
<1>14. HeldWasTold'
  BY <1>7, IdleParts DEF HeldWasTold
<1>15. CompletedWasGot'
  BY <1>6, HandedKeeps DEF Assembly
<1>16. QED BY <1>9, <1>10, <1>12, <1>13, <1>14, <1>15 DEF Assembly

\* The handler goes on to place the object in slot i, whose own object the
\* application knows the fate of.
LEMMA PlaceKeeps ==
    ASSUME Assembly, NEW i \in SlotIds, NEW d \in Datagram, NEW gen \in Nat,
           NEW decodes \in BOOLEAN, Place(i, d, gen, decodes),
           Subscribed(d.alias), subs[d.alias].gen = gen,
           Occupied(slots[i]) => slots[i].told,
           UNCHANGED <<subs, nextGen, now>>, cursor' \in Nat, window' \in 1..MaxSlots
    PROVE  Assembly' /\ LostLoudly
<1>1. Handed(d, gen) /\ ((Released(i) /\ pend' = Idle) \/ Claimed(i, d, gen))
  BY PlaceEffect DEF Assembly
<1>2. IndexIsLive' /\ AssemblersAreCurrent' /\ MemoryExact' /\ index' \in SUBSET SlotIds
  BY <1>1, AfterReleased, AfterClaimed
<1>3. Booked(i)
  BY <1>1 DEF Released, Claimed
<1>4. pend' \in Pending /\ HeldWasTold'
  <2>1. CASE pend' = Idle
    BY <2>1, IdleParts DEF HeldWasTold
  <2>2. CASE pend' = [op |-> "decoded", slot |-> i] /\ slots'[i].told
    BY <2>2, IdleParts DEF HeldWasTold
  <2>3. QED BY <1>1, <2>1, <2>2 DEF Claimed
<1>5. Typed'
  BY <1>2, <1>3, <1>4 DEF Assembly, Typed, Booked
<1>6. CompletedWasGot'
  BY <1>1, HandedKeeps DEF Assembly
<1>7. LostLoudly
  BY <1>3 DEF LostLoudly, Booked
<1>8. QED BY <1>2, <1>4, <1>5, <1>6, <1>7 DEF Assembly

\* The report of a loss marks the slot and nothing else.
LEMMA TellKeeps ==
    ASSUME Assembly, NEW i \in SlotIds, slots' = [slots EXCEPT ![i].told = TRUE],
           UNCHANGED <<subs, index, memory>>, peak' = peak
    PROVE  /\ slots' \in [SlotIds -> Slot] /\ slots'[i].told
           /\ IndexIsLive' /\ AssemblersAreCurrent' /\ MemoryExact' /\ LostLoudly
<1> DEFINE e == [slots[i] EXCEPT !.told = TRUE]
<1>1. slots \in [SlotIds -> Slot] /\ index \in SUBSET SlotIds
  BY DEF Assembly, Typed
<1>2. /\ e \in Slot /\ e.told /\ e.alias = slots[i].alias /\ e.obj = slots[i].obj
      /\ e.gen = slots[i].gen /\ e.total = slots[i].total /\ e.cap = slots[i].cap
  BY <1>1 DEF Slot
<1>3. slots' = [slots EXCEPT ![i] = e]
  OBVIOUS
<1> HIDE DEF e
<1>4. \A j \in SlotIds : /\ slots'[j].alias = slots[j].alias /\ slots'[j].obj = slots[j].obj
                        /\ slots'[j].gen = slots[j].gen /\ slots'[j].total = slots[j].total
                        /\ slots'[j].cap = slots[j].cap
  BY <1>1, <1>2, <1>3
<1>5. slots' \in [SlotIds -> Slot] /\ slots'[i].told
  BY <1>1, <1>2, <1>3
<1>6. \A j \in SlotIds : Occupied(slots'[j]) <=> Occupied(slots[j])
  BY <1>4 DEF Occupied
<1>7. IndexIsLive'
  <2>1. \A j \in index' : Occupied(slots'[j])
    BY <1>1, <1>6 DEF Assembly, IndexIsLive
  <2>2. \A j \in SlotIds : Occupied(slots'[j]) =>
          slots'[j].alias \in Aliases /\ subs'[slots'[j].alias].gen # 0
    BY <1>4, <1>6 DEF Assembly, IndexIsLive, Subscribed
  <2>3. QED BY <2>1, <2>2 DEF IndexIsLive, Subscribed
<1>8. AssemblersAreCurrent' /\ LostLoudly
  <2>1. LostLoudly
    BY <1>4 DEF LostLoudly
  <2>2. ASSUME NEW j \in SlotIds, Occupied(slots'[j])
        PROVE  slots'[j].gen = subs'[slots'[j].alias].gen
    <3>1. slots[j].gen = subs[slots[j].alias].gen
      BY <1>6, <2>2 DEF Assembly, AssemblersAreCurrent
    <3>2. QED BY <1>4, <3>1
  <2>3. QED BY <2>1, <2>2 DEF AssemblersAreCurrent
<1>9. MemoryExact'
  <2>1. [j \in SlotIds |-> slots'[j].cap] = [j \in SlotIds |-> slots[j].cap]
    BY <1>4
  <2>2. QED BY <2>1 DEF Assembly, MemoryExact, MemoryOf
<1>10. QED BY <1>5, <1>7, <1>8, <1>9

LEMMA ReceiveFirstKeeps ==
    ASSUME Assembly, NEW d \in Datagram, NEW limit \in SlotIds \cup {MaxSlots},
           NEW decodes \in BOOLEAN, ReceiveFirst(d, limit, decodes)
    PROVE  Assembly' /\ LostLoudly
<1> DEFINE i == Select(limit)
           gen == subs[d.alias].gen
<1>1. UNCHANGED <<subs, nextGen, closing, now>> /\ window' = limit
  BY DEF ReceiveFirst
<1>2. limit \in Nat /\ limit \in window..MaxSlots /\ limit \in 1..MaxSlots
  <2>1. Typed
    BY DEF Assembly
  <2>2. window \in 1..MaxSlots /\ MaxSlots \in Nat
    BY <2>1, ReceiveAssumption DEF Typed
  <2>3. limit \in window..MaxSlots
    BY DEF ReceiveFirst
  <2>4. QED BY <2>2, <2>3
<1>3. i \in SlotIds
  BY <1>2, SelectInWindow DEF Assembly
<1>4. cursor' \in Nat
  <2>1. cursor' = (i + 1) % limit
    BY DEF ReceiveFirst
  <2>2. i + 1 \in Nat
    BY <1>3, ReceiveAssumption DEF SlotIds
  <2> HIDE DEF i
  <2>3. QED BY <1>2, <2>1, <2>2
<1>5. gen \in Nat /\ Subscribed(d.alias)
  BY DatagramTyped DEF Assembly, Typed, ReceiveFirst, Accepts
<1>6. CASE Occupied(slots[i]) /\ Subscribed(slots[i].alias)
  <2>1. /\ pend' = [op |-> "evict", slot |-> i, dgram |-> d, gen |-> gen]
        /\ slots' = [slots EXCEPT ![i].told = TRUE]
        /\ UNCHANGED <<index, memory, peak, completed, ccursor, got>>
    BY <1>6 DEF ReceiveFirst
  <2> HIDE DEF i, gen
  <2>2. /\ slots' \in [SlotIds -> Slot] /\ slots'[i].told
        /\ IndexIsLive' /\ AssemblersAreCurrent' /\ MemoryExact' /\ LostLoudly
    BY <1>1, <1>3, <2>1, TellKeeps
  <2>3. pend' \in Pending
    BY <1>3, <1>5, <2>1 DEF Pending
  <2>4. Typed'
    BY <1>1, <1>2, <1>4, <2>1, <2>2, <2>3 DEF Assembly, Typed
  <2>5. HeldWasTold' /\ CompletedWasGot'
    BY <2>1, <2>2 DEF HeldWasTold, CompletedWasGot, Assembly
  <2>6. QED BY <2>2, <2>4, <2>5 DEF Assembly
<1>7. CASE ~(Occupied(slots[i]) /\ Subscribed(slots[i].alias))
  <2>1. Place(i, d, gen, decodes)
    BY <1>7 DEF ReceiveFirst
  <2>2. ~Occupied(slots[i])
    BY <1>3, <1>7 DEF Assembly, IndexIsLive
  <2> HIDE DEF i
  <2>3. QED BY <1>1, <1>2, <1>3, <1>4, <1>5, <2>1, <2>2, PlaceKeeps
<1>8. QED BY <1>6, <1>7

LEMMA ResumePlaceKeeps ==
    ASSUME Assembly, NEW decodes \in BOOLEAN, ResumePlace(decodes)
    PROVE  Assembly' /\ LostLoudly
<1>1. /\ UNCHANGED <<subs, nextGen, cursor, window, closing, now>> /\ pend.op = "evict"
      /\ cursor' \in Nat /\ window' \in 1..MaxSlots
  BY DEF ResumePlace, Assembly, Typed
<1>2. /\ pend.slot \in SlotIds /\ pend.dgram \in Datagram /\ pend.gen \in Nat
  BY <1>1, PendParts DEF Assembly
<1>3. Occupied(slots[pend.slot]) => slots[pend.slot].told
  BY <1>1 DEF Assembly, HeldWasTold
<1>4. CASE StillSubscribed(pend)
  <2>1. Place(pend.slot, pend.dgram, pend.gen, decodes)
    BY <1>4 DEF ResumePlace
  <2>2. Subscribed(pend.dgram.alias) /\ subs[pend.dgram.alias].gen = pend.gen
    BY <1>4 DEF StillSubscribed
  <2>3. QED BY <1>1, <1>2, <1>3, <2>1, <2>2, PlaceKeeps
<1>5. CASE ~StillSubscribed(pend)
  <2>1. /\ pend' = Idle
        /\ UNCHANGED <<slots, index, memory, peak, completed, ccursor, got>>
    BY <1>5 DEF ResumePlace
  <2>2. Typed'
    BY <1>1, <2>1, IdleParts DEF Assembly, Typed
  <2>3. IndexIsLive' /\ AssemblersAreCurrent' /\ MemoryExact' /\ LostLoudly
    BY <1>1, <2>1 DEF Assembly, IndexIsLive, AssemblersAreCurrent, MemoryExact, MemoryOf,
                      LostLoudly, Subscribed
  <2>4. HeldWasTold' /\ CompletedWasGot'
    BY <2>1, IdleParts DEF HeldWasTold, CompletedWasGot, Assembly
  <2>5. QED BY <2>2, <2>3, <2>4 DEF Assembly
<1>6. QED BY <1>4, <1>5

\* Only the clock or the closing flag changes.
LEMMA UntouchedKeeps ==
    ASSUME Assembly, now' \in Nat,
           UNCHANGED <<subs, nextGen, slots, index, cursor, window, memory, peak,
                       completed, pend, got>>
    PROVE  Assembly' /\ LostLoudly
<1>1. Typed'
  BY DEF Assembly, Typed
<1>2. IndexIsLive' /\ AssemblersAreCurrent'
  BY DEF Assembly, IndexIsLive, AssemblersAreCurrent, Subscribed
<1>3. HeldWasTold' /\ CompletedWasGot' /\ MemoryExact'
  BY DEF Assembly, HeldWasTold, CompletedWasGot, MemoryExact, MemoryOf
<1>4. LostLoudly
  BY DEF LostLoudly
<1>5. QED BY <1>1, <1>2, <1>3, <1>4 DEF Assembly

\* The slot of an object whose fate is known is released after the callback.
LEMMA ResumeKeeps ==
    ASSUME Assembly, NEW i \in SlotIds, Put(Release(Asm, i)),
           Occupied(slots[i]) => slots[i].told,
           pend' \in Pending, pend'.op \in {"idle", "sweep"},
           UNCHANGED <<subs, nextGen, cursor, window, completed, now, got>>
    PROVE  Assembly' /\ LostLoudly
<1>1. Released(i)
  BY ReleaseEffect DEF Assembly
<1>2. IndexIsLive' /\ AssemblersAreCurrent' /\ MemoryExact' /\ index' \in SUBSET SlotIds
  BY <1>1, AfterReleased
<1>3. Booked(i)
  BY <1>1 DEF Released
<1>4. Typed'
  BY <1>2, <1>3 DEF Assembly, Typed, Booked
<1>5. HeldWasTold' /\ CompletedWasGot'
  BY DEF Assembly, HeldWasTold, CompletedWasGot
<1>6. LostLoudly
  BY <1>3 DEF LostLoudly, Booked
<1>7. QED BY <1>2, <1>4, <1>5, <1>6 DEF Assembly

LEMMA ResumeDeliveredKeeps ==
    ASSUME Assembly, ResumeDelivered
    PROVE  Assembly' /\ LostLoudly
<1>1. pend.slot \in SlotIds /\ (Occupied(slots[pend.slot]) => slots[pend.slot].told)
  BY PendParts DEF Assembly, HeldWasTold, ResumeDelivered
<1>2. Put(Release(Asm, pend.slot))
  BY DEF ResumeDelivered
<1>3. pend' \in Pending /\ pend'.op \in {"idle", "sweep"}
  BY IdleParts DEF ResumeDelivered
<1>4. UNCHANGED <<subs, nextGen, cursor, window, completed, now, got>>
  BY DEF ResumeDelivered
<1>5. QED BY <1>1, <1>2, <1>3, <1>4, ResumeKeeps

LEMMA ResumeExpireKeeps ==
    ASSUME Assembly, ResumeExpire
    PROVE  Assembly' /\ LostLoudly
<1>1. pend.slot \in SlotIds /\ (Occupied(slots[pend.slot]) => slots[pend.slot].told)
  BY PendParts DEF Assembly, HeldWasTold, ResumeExpire
<1>2. Put(Release(Asm, pend.slot))
  BY DEF ResumeExpire
<1>3. pend' = Idle \/ pend' = [op |-> "sweep", slot |-> pend.slot + 1]
  BY DEF ResumeExpire
<1>4. pend' \in Pending /\ pend'.op \in {"idle", "sweep"}
  <2>1. CASE pend' = Idle
    BY <2>1, IdleParts
  <2>2. CASE pend' = [op |-> "sweep", slot |-> pend.slot + 1]
    <3>1. pend'.op = "sweep"
      BY <2>2
    <3>2. pend' \in Pending
      BY <1>1, <2>2, IdleParts
    <3>3. QED BY <3>1, <3>2
  <2>3. QED BY <1>3, <2>1, <2>2
<1>5. UNCHANGED <<subs, nextGen, cursor, window, completed, now, got>>
  BY DEF ResumeExpire
<1>6. QED BY <1>1, <1>2, <1>4, <1>5, ResumeKeeps

\* The sweep meets assemblers of subscribed aliases only, so that it reports
\* every loss.
LEMMA SweepFromKeeps ==
    ASSUME Assembly, NEW first \in Nat, SweepFrom(first),
           UNCHANGED <<subs, nextGen, cursor, window, completed, now, got>>
    PROVE  Assembly' /\ LostLoudly
<1> DEFINE due == {i \in SlotIds : i >= first /\ Expired(i)}
           i == Min(due)
<1>1. CASE due = {}
  <2>1. pend' = Idle /\ UNCHANGED <<slots, index, memory, peak>>
    BY <1>1 DEF SweepFrom
  <2>2. Typed'
    BY <2>1, IdleParts DEF Assembly, Typed
  <2>3. IndexIsLive' /\ AssemblersAreCurrent' /\ MemoryExact' /\ LostLoudly
    BY <2>1 DEF Assembly, IndexIsLive, AssemblersAreCurrent, MemoryExact, MemoryOf,
                LostLoudly, Subscribed
  <2>4. HeldWasTold' /\ CompletedWasGot'
    BY <2>1, IdleParts DEF HeldWasTold, CompletedWasGot, Assembly
  <2>5. QED BY <2>2, <2>3, <2>4 DEF Assembly
<1>2. CASE due # {}
  <2>1. due \subseteq Nat
    BY ReceiveAssumption DEF SlotIds
  <2>2. i \in due
    <3> HIDE DEF due
    <3> QED BY <1>2, <2>1, MinOfNaturals
  <2>3. i \in SlotIds /\ i \in index
    <3> HIDE DEF i
    <3> QED BY <2>2 DEF Expired
  <2>4. Subscribed(slots[i].alias)
    BY <2>3 DEF Assembly, IndexIsLive
  <2>5. /\ pend' = [op |-> "expire", slot |-> i]
        /\ slots' = [slots EXCEPT ![i].told = TRUE]
        /\ UNCHANGED <<index, memory, peak>>
    BY <1>2, <2>4 DEF SweepFrom
  <2> HIDE DEF i, due
  <2>6. /\ slots' \in [SlotIds -> Slot] /\ slots'[i].told
        /\ IndexIsLive' /\ AssemblersAreCurrent' /\ MemoryExact' /\ LostLoudly
    BY <2>3, <2>5, TellKeeps
  <2>7. pend' \in Pending
    BY <2>3, <2>5, IdleParts
  <2>8. Typed'
    BY <2>5, <2>6, <2>7 DEF Assembly, Typed
  <2>9. HeldWasTold' /\ CompletedWasGot'
    BY <2>5, <2>6 DEF HeldWasTold, CompletedWasGot, Assembly
  <2>10. QED BY <2>6, <2>8, <2>9 DEF Assembly
<1>3. QED BY <1>1, <1>2

LEMMA SweepKeeps ==
    ASSUME Assembly, Sweep
    PROVE  Assembly' /\ LostLoudly
<1>1. UNCHANGED <<subs, nextGen, cursor, window, completed, now, got>>
  BY DEF Sweep
<1>2. CASE SweepFrom(0)
  BY <1>1, <1>2, SweepFromKeeps
<1>3. CASE pend.op = "sweep" /\ SweepFrom(pend.slot)
  <2>1. pend.slot \in Nat
    BY <1>3, PendParts DEF Assembly
  <2>2. QED BY <1>1, <1>3, <2>1, SweepFromKeeps
<1>4. QED BY <1>2, <1>3 DEF Sweep

\* Freeing the connection gives all its memory back.
LEMMA FreeConnectionKeeps ==
    ASSUME Assembly, FreeConnection
    PROVE  Assembly' /\ LostLoudly
<1>1. /\ memory' = memory - MemoryOf(SlotIds)
      /\ subs' = [a \in Aliases |-> NoSub] /\ nextGen' = 0
      /\ slots' = [j \in SlotIds |-> FreeSlot] /\ index' = {}
      /\ completed' = [j \in DOMAIN completed |-> NoDone]
      /\ cursor' = 0 /\ window' = MinWindow
      /\ peak' = peak /\ pend' = pend /\ now' = now /\ pend = Idle
  BY DEF FreeConnection
<1>2. memory = MemoryOf(SlotIds) /\ memory \in Nat /\ peak <= MemoryLimit
  BY DEF Assembly, MemoryExact, Typed
<1>3. memory' = 0
  BY <1>1, <1>2
<1>4. slots' \in [SlotIds -> Slot] /\ \A j \in SlotIds : slots'[j] = FreeSlot
  BY <1>1, FreeSlotTyped
<1>5. MemoryExact'
  <2> DEFINE g == [j \in SlotIds |-> slots'[j].cap]
  <2>1. \A j \in SlotIds : g[j] = 0
    BY <1>4, FreeSlotTyped
  <2>2. MemoryExact' <=> memory' = SumFunctionOnSet(g, SlotIds) /\ peak' <= MemoryLimit
    BY DEF MemoryExact, MemoryOf, SumFunction
  <2> HIDE DEF g
  <2>3. SumFunctionOnSet(g, SlotIds) = 0
    BY <2>1, SlotIdsFinite, SumZero
  <2>4. QED BY <1>1, <1>2, <1>3, <2>2, <2>3
<1>6. Typed'
  <2>1. subs' \in [Aliases -> [track: Tracks \cup {NoTrack}, gen: Nat]]
    BY <1>1 DEF NoSub
  <2>2. window' \in 1..MaxSlots /\ cursor' \in Nat /\ nextGen' \in Nat
    BY <1>1, ReceiveAssumption
  <2>3. memory' \in Nat
    BY <1>3
  <2>4. QED BY <1>1, <1>4, <2>1, <2>2, <2>3 DEF Assembly, Typed
<1>7. IndexIsLive' /\ AssemblersAreCurrent'
  BY <1>1, <1>4, FreeSlotTyped DEF IndexIsLive, AssemblersAreCurrent
<1>8. HeldWasTold' /\ CompletedWasGot'
  BY <1>1, IdleParts DEF HeldWasTold, CompletedWasGot
<1>9. LostLoudly
  <2> SUFFICES ASSUME NEW j \in SlotIds, Occupied(slots[j]),
                      subs[slots[j].alias].gen = subs'[slots[j].alias].gen
               PROVE  FALSE
    BY DEF LostLoudly
  <2>1. slots[j].alias \in Aliases /\ subs[slots[j].alias].gen # 0
    BY DEF Assembly, IndexIsLive, Subscribed
  <2>2. QED BY <1>1, <2>1 DEF NoSub
<1>10. QED BY <1>5, <1>6, <1>7, <1>8, <1>9 DEF Assembly

-----------------------------------------------------------------------------
(* The theorems *)

LEMMA AssemblyInit ==
    ASSUME Init
    PROVE  Assembly
<1>1. /\ slots \in [SlotIds -> Slot] /\ \A j \in SlotIds : slots[j] = FreeSlot
      /\ memory = 0 /\ peak = 0 /\ index = {} /\ pend = Idle
  BY FreeSlotTyped DEF Init
<1>2. MemoryExact
  <2> DEFINE g == [j \in SlotIds |-> slots[j].cap]
  <2>1. \A j \in SlotIds : g[j] = 0
    BY <1>1, FreeSlotTyped
  <2>2. MemoryExact <=> memory = SumFunctionOnSet(g, SlotIds) /\ peak <= MemoryLimit
    BY DEF MemoryExact, MemoryOf, SumFunction
  <2> HIDE DEF g
  <2>3. SumFunctionOnSet(g, SlotIds) = 0
    BY <2>1, SlotIdsFinite, SumZero
  <2>4. QED BY <1>1, <2>2, <2>3, ReceiveAssumption
<1>3. Typed
  <2>1. subs \in [Aliases -> [track: Tracks \cup {NoTrack}, gen: Nat]]
    BY DEF Init, NoSub
  <2>2. window \in 1..MaxSlots
    BY ReceiveAssumption DEF Init
  <2>3. QED BY <1>1, <2>1, <2>2, IdleParts DEF Init, Typed
<1>4. IndexIsLive /\ AssemblersAreCurrent
  BY <1>1, FreeSlotTyped DEF IndexIsLive, AssemblersAreCurrent
<1>5. HeldWasTold /\ CompletedWasGot
  BY <1>1, IdleParts DEF HeldWasTold, CompletedWasGot, Init
<1>6. QED BY <1>2, <1>3, <1>4, <1>5 DEF Assembly

LEMMA AssemblyStep ==
    ASSUME Assembly, [Next]_vars
    PROVE  Assembly' /\ LostLoudly
<1>1. CASE \E t \in Tracks, ok \in BOOLEAN : Subscribe(t, ok)
  BY <1>1, SubscribeKeeps
<1>2. CASE \E t \in Tracks : Unsubscribe(t)
  BY <1>2, UnsubscribeKeeps
<1>3. CASE \E d \in Datagram, ok \in BOOLEAN : ReceiveSymbol(d, ok)
  BY <1>3, ReceiveSymbolKeeps
<1>4. CASE \E d \in Datagram, limit \in SlotIds \cup {MaxSlots}, ok \in BOOLEAN :
             ReceiveFirst(d, limit, ok)
  BY <1>4, ReceiveFirstKeeps
<1>5. CASE \E ok \in BOOLEAN : ResumePlace(ok)
  BY <1>5, ResumePlaceKeeps
<1>6. CASE \/ \E a \in Aliases, o \in Objects : AcknowledgeWindows(a, o)
           \/ Deliver \/ ResumeDelivered \/ ResumeExpire
  BY <1>6, AcknowledgeWindowsKeeps, DeliverKeeps, ResumeDeliveredKeeps, ResumeExpireKeeps
<1>7. CASE Sweep
  BY <1>7, SweepKeeps
<1>8. CASE FreeConnection
  BY <1>8, FreeConnectionKeeps
<1>9. now \in Nat
  BY DEF Assembly, Typed
<1>10. CASE Close \/ (\E d \in Datagram : ReceiveOnReliable(d)) \/ Tick \/ UNCHANGED vars
  <2>1. /\ now' \in Nat
        /\ UNCHANGED <<subs, nextGen, slots, index, cursor, window, memory, peak,
                       completed, pend, got>>
    BY <1>9, <1>10 DEF Close, ReceiveOnReliable, Tick, vars
  <2>2. QED BY <2>1, UntouchedKeeps
<1>11. QED
  BY <1>1, <1>2, <1>3, <1>4, <1>5, <1>6, <1>7, <1>8, <1>10 DEF Next

\* The inductive invariant of the receiving side (the assemblers, the subscription
\* table and the completed_objects ring of transport_protocol.c).
THEOREM AssemblyHolds == Spec => []Assembly
<1>1. Init => Assembly
  BY AssemblyInit
<1>2. Assembly /\ [Next]_vars => Assembly'
  BY AssemblyStep
<1>3. QED BY <1>1, <1>2, PTL DEF Spec

\* Nothing that was collected under an earlier owner of an alias is completed for the
\* next one (the generation test of the datagram handler and the release of the
\* assemblers in unsubscribe_connection).
THEOREM AssemblersStayCurrent == Spec => []AssemblersAreCurrent
<1>1. Assembly => AssemblersAreCurrent
  BY DEF Assembly
<1>2. QED BY <1>1, AssemblyHolds, PTL

\* assembler_memory_bytes equals what the assemblers hold, and the copy of a growing
\* assembler stays within max_assembler_memory_bytes.
THEOREM AssemblerMemoryExact == Spec => []MemoryExact
<1>1. Assembly => MemoryExact
  BY DEF Assembly
<1>2. QED BY <1>1, AssemblyHolds, PTL

\* The completed_objects ring never suppresses an object the present subscription has
\* not been handed.
THEOREM SuppressionIsSound == Spec => []SuppressedWasReceived
<1>1. ASSUME Assembly
      PROVE  SuppressedWasReceived
  <2> SUFFICES ASSUME NEW d \in Datagram, Subscribed(d.alias),
                      IsCompleted(d.alias, subs[d.alias].gen, d.obj)
               PROVE  <<subs[d.alias].gen, d.obj>> \in got
    BY DEF SuppressedWasReceived
  <2>1. PICK i \in DOMAIN completed :
          completed[i] = [alias |-> d.alias, gen |-> subs[d.alias].gen, obj |-> d.obj]
    BY DEF IsCompleted
  <2>2. completed[i] # NoDone
    BY <2>1 DEF Subscribed, NoDone
  <2>3. QED BY <1>1, <2>1, <2>2 DEF Assembly, CompletedWasGot
<1>2. QED BY <1>1, AssemblyHolds, PTL

\* No step of the handlers, of the sweep or of the application takes an object of a
\* live subscription out of its assembler before the application was handed it or told
\* of its loss.
THEOREM NoSilentLoss == Spec => NothingLostSilently
<1>1. ASSUME Assembly, [Next]_vars
      PROVE  [LostLoudly]_vars
  BY <1>1, AssemblyStep
<1>2. Spec => [][LostLoudly]_vars
  BY <1>1, AssemblyHolds, PTL DEF Spec
<1>3. QED BY <1>2 DEF NothingLostSilently, LostLoudly
=============================================================================
