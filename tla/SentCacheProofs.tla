--------------------------- MODULE SentCacheProofs ---------------------------
(***************************************************************************)
(* Theorems about SentCache, for any tracks, sizes, geometries and limits: *)
(* one entry per identity, protected entries survive every store, and      *)
(* rateless repair symbols are never reused.                               *)
(***************************************************************************)
EXTENDS SentCache, FiniteSetLemmas

\* The types of the ring alone: that bytes and count stay natural numbers
\* rests on AccountingExact, below.
EntriesTyped == entries \in [Slots -> Entry \cup {Free}]

-----------------------------------------------------------------------------
(* Lemmas *)

\* Free differs from every entry.
LEMMA FreeIsNoEntry == Free \notin Entry
<1>1. SUFFICES ASSUME Free \in Entry PROVE FALSE
  OBVIOUS
<1>2. DOMAIN Free = {"track"}
  BY DEF Free
<1>3. "id" \in DOMAIN Free
  BY <1>1 DEF Entry
<1>4. QED BY <1>2, <1>3

LEMMA OccupiedTyped ==
    ASSUME EntriesTyped, NEW i \in Occupied
    PROVE  i \in Slots /\ entries[i] \in Entry
BY DEF EntriesTyped, Occupied

LEMMA NewEntryTyped ==
    ASSUME NEW obj \in Object, NEW data \in Geometries, NEW allowEvict \in BOOLEAN
    PROVE  NewEntry(obj, data, allowEvict) \in Entry
BY GeometriesAssumption DEF NewEntry, Object, Entry

LEMMA RetriedTyped ==
    ASSUME NEW e \in Entry, NEW data \in Geometries, NEW allowEvict \in BOOLEAN
    PROVE  /\ Retried(e, data, allowEvict) \in Entry
           /\ SameIdentity(e, Retried(e, data, allowEvict))
           /\ Retried(e, data, allowEvict).repair >= e.repair
           /\ e.protected => Retried(e, data, allowEvict).protected
<1> DEFINE total == IF data > e.total THEN data ELSE e.total
           repair == IF e.repair < total THEN total ELSE e.repair
           protected == e.protected \/ ~allowEvict
<1>1. data \in Nat /\ e.total \in Nat /\ e.repair \in Nat /\ e.protected \in BOOLEAN
  BY GeometriesAssumption DEF Entry
<1>2. total \in Nat /\ repair \in Nat /\ repair >= e.repair
  BY <1>1
<1>3. protected \in BOOLEAN
  BY <1>1
<1>4. Retried(e, data, allowEvict) =
        [e EXCEPT !.total = total, !.repair = repair, !.data = data, !.protected = protected]
  BY DEF Retried
<1> HIDE DEF total, repair, protected
<1>5. Retried(e, data, allowEvict) \in Entry
  BY <1>2, <1>3, <1>4 DEF Entry
<1>6. SameIdentity(e, Retried(e, data, allowEvict))
  BY <1>4 DEF SameIdentity, Entry
<1>7. Retried(e, data, allowEvict).repair >= e.repair
  BY <1>2, <1>4 DEF Entry
<1>8. Retried(e, data, allowEvict).protected = protected
  BY <1>4 DEF Entry
<1>9. QED BY <1>5, <1>6, <1>7, <1>8 DEF protected

-----------------------------------------------------------------------------
(* One step *)

\* The ring once these entries are released
Kept(victims) == [i \in Slots |-> IF i \in victims THEN Free ELSE entries[i]]

\* How a store of a new identity changes the ring: the victims are evictable,
\* the copy goes to a slot that is free once they are gone.
LEMMA StoreNewEffect ==
    ASSUME EntriesTyped, NEW obj \in Object, NEW data \in Geometries,
           NEW allowEvict \in BOOLEAN, NEW alias, NEW allocated \in BOOLEAN,
           StoreNew(obj, data, allowEvict, alias, allocated)
    PROVE  \E victims \in SUBSET Evictable(alias) :
             \/ entries' = Kept(victims)
             \/ \E s \in Slots :
                  /\ Kept(victims)[s] = Free
                  /\ entries' = [Kept(victims) EXCEPT ![s] = NewEntry(obj, data, allowEvict)]
<1> DEFINE stops == Stops(obj.payload.size, allowEvict, alias)
           victims == IF stops = {} THEN Reclaimed(Capacity, allowEvict, alias)
                      ELSE Reclaimed(Min(stops), allowEvict, alias)
           kept == Kept(victims)
           free == {k \in 0 .. Capacity - 1 : kept[SlotAt(k)] = Free}
           s == SlotAt(Min(free))
<1>1. victims \in SUBSET Evictable(alias)
  BY DEF Reclaimed
<1>2. CASE stops = {} \/ free = {} \/ ~allocated
  <2>1. entries' = kept
    BY <1>2, Zenon DEF StoreNew, Kept
  <2>2. QED BY <1>1, <2>1
<1>3. CASE ~(stops = {} \/ free = {} \/ ~allocated)
  <2>1. entries' = [kept EXCEPT ![s] = NewEntry(obj, data, allowEvict)]
    BY <1>3, Zenon DEF StoreNew, Kept
  <2>2. free \subseteq Nat /\ free # {}
    BY <1>3
  <2>3. Min(free) \in free
    BY <2>2, MinOfNaturals
  <2>4. kept[s] = Free
    BY <2>3
  <2>5. CASE s \in Slots
    BY <1>1, <2>1, <2>4, <2>5
  <2>6. CASE s \notin Slots
    <3>1. entries' = kept
      BY <2>1, <2>6 DEF Kept
    <3>2. QED BY <1>1, <3>1
  <2>7. QED BY <2>5, <2>6
<1>4. QED BY <1>2, <1>3

\* Every step moves the ring in one of these ways.
RingStep ==
    \/ UNCHANGED entries
    \/ \E slots \in SUBSET Occupied :
         /\ entries' = Kept(slots)
         /\ Releasing
    \/ \E i \in Occupied, e \in Entry :
         /\ entries' = [entries EXCEPT ![i] = e]
         /\ SameIdentity(entries[i], e)
         /\ e.repair >= entries[i].repair
         /\ entries[i].protected => e.protected
    \/ \E victims \in SUBSET Occupied :
         /\ \A i \in victims : ~entries[i].protected
         /\ \/ entries' = Kept(victims)
            \/ \E s \in Slots, e \in Entry :
                 /\ Kept(victims)[s] = Free
                 /\ entries' = [Kept(victims) EXCEPT ![s] = e]
                 /\ \A i \in Occupied : ~SameIdentity(entries[i], e)

LEMMA NextRing ==
    ASSUME EntriesTyped, [Next]_vars
    PROVE  RingStep
<1>1. ASSUME NEW obj \in Object, NEW data \in Geometries, NEW allowEvict \in BOOLEAN,
             Store(obj, data, allowEvict)
      PROVE  RingStep
  <2>1. CASE StoreAgain(obj, data, allowEvict)
    <3>1. PICK i \in Find(obj.track, obj.id) :
            entries' = [entries EXCEPT ![i] = Retried(entries[i], data, allowEvict)]
      BY <2>1 DEF StoreAgain
    <3>2. i \in Occupied /\ entries[i] \in Entry
      BY OccupiedTyped DEF Find
    <3>3. QED BY <3>1, <3>2, RetriedTyped DEF RingStep
  <2>2. ASSUME NEW alias, NEW allocated \in BOOLEAN,
               StoreNew(obj, data, allowEvict, alias, allocated)
        PROVE  RingStep
    <3> DEFINE e == NewEntry(obj, data, allowEvict)
    <3>1. e \in Entry
      BY NewEntryTyped
    <3>2. \A i \in Occupied : ~SameIdentity(entries[i], e)
      BY <2>2 DEF StoreNew, Find, SameIdentity, NewEntry
    <3>3. Evictable(alias) \subseteq Occupied /\ \A i \in Evictable(alias) : ~entries[i].protected
      BY DEF Evictable
    <3> HIDE DEF e
    <3>4. QED BY <2>2, <3>1, <3>2, <3>3, StoreNewEffect DEF RingStep, e
  <2>3. QED BY <1>1, <2>1, <2>2 DEF Store
<1>2. ASSUME NEW track \in Tracks, NEW id \in ObjectIds, ReleaseThrough(track, id)
      PROVE  RingStep
  <2>1. Releasing
    BY <1>2 DEF Releasing
  <2>2. QED BY <1>2, <2>1 DEF ReleaseThrough, Release, RingStep, Kept
<1>3. ASSUME NEW track \in Tracks, ReleaseTrack(track)
      PROVE  RingStep
  <2>1. Releasing
    BY <1>3 DEF Releasing
  <2>2. QED BY <1>3, <2>1 DEF ReleaseTrack, Release, RingStep, Kept
<1>4. ASSUME NEW i \in Occupied, NEW admitted \in 1 .. MaxBatch, RepairRateless(i, admitted)
      PROVE  RingStep
  <2> DEFINE e == [entries[i] EXCEPT !.repair = @ + admitted]
  <2>1. entries[i] \in Entry /\ admitted \in Nat
    BY OccupiedTyped, LimitsAssumption
  <2>2. /\ e \in Entry /\ SameIdentity(entries[i], e)
        /\ e.repair >= entries[i].repair /\ e.protected = entries[i].protected
    BY <2>1 DEF Entry, SameIdentity
  <2>3. entries' = [entries EXCEPT ![i] = e]
    BY <1>4 DEF RepairRateless
  <2> HIDE DEF e
  <2>4. QED BY <2>2, <2>3 DEF RingStep
<1>5. ASSUME NEW i \in Occupied, NEW admitted \in 1 .. MaxBatch, RepairSystematic(i, admitted)
      PROVE  RingStep
  <2> DEFINE n == AdvanceSystematic(entries[i], admitted)
             e == [entries[i] EXCEPT !.systematic = n]
  <2>1. entries[i] \in Entry /\ admitted \in Nat
    BY OccupiedTyped, LimitsAssumption
  <2>2. n \in Nat
    <3>1. entries[i].systematic \in Nat /\ entries[i].data \in Geometries
      BY <2>1 DEF Entry
    <3>2. entries[i].data \in Nat \ {0}
      BY <3>1, GeometriesAssumption, LimitsAssumption
    <3>3. QED BY <2>1, <3>1, <3>2 DEF AdvanceSystematic
  <2>3. entries' = [entries EXCEPT ![i] = e]
    BY <1>5 DEF RepairSystematic
  <2> HIDE DEF n
  <2>4. /\ e \in Entry /\ SameIdentity(entries[i], e)
        /\ e.repair >= entries[i].repair /\ e.protected = entries[i].protected
    BY <2>1, <2>2 DEF Entry, SameIdentity
  <2> HIDE DEF e
  <2>5. QED BY <2>3, <2>4 DEF RingStep
<1>6. CASE UNCHANGED vars
  BY <1>6 DEF vars, RingStep
<1>7. QED BY <1>1, <1>2, <1>3, <1>4, <1>5, <1>6 DEF Next

\* The inductive invariant of the ring.
Ring == EntriesTyped /\ IdentityUnique

LEMMA RingStepKeeps ==
    ASSUME Ring, RingStep
    PROVE  Ring'
<1>0. EntriesTyped /\ IdentityUnique
  BY DEF Ring
<1>1. CASE UNCHANGED entries
  BY <1>0, <1>1 DEF Ring, EntriesTyped, IdentityUnique, Occupied
<1>2. ASSUME NEW slots \in SUBSET Occupied,
             entries' = Kept(slots)
      PROVE  Ring'
  <2>1. EntriesTyped'
    BY <1>0, <1>2 DEF EntriesTyped, Kept
  <2>2. IdentityUnique'
    BY <1>0, <1>2 DEF IdentityUnique, Occupied, Kept
  <2>3. QED BY <2>1, <2>2 DEF Ring
<1>3. ASSUME NEW i \in Occupied, NEW e \in Entry,
             entries' = [entries EXCEPT ![i] = e], SameIdentity(entries[i], e)
      PROVE  Ring'
  <2>1. EntriesTyped'
    BY <1>0, <1>3 DEF EntriesTyped
  <2>2. IdentityUnique'
    BY <1>0, <1>3 DEF EntriesTyped, IdentityUnique, Occupied, SameIdentity
  <2>3. QED BY <2>1, <2>2 DEF Ring
<1>4. ASSUME NEW victims \in SUBSET Occupied, NEW s \in Slots, NEW e \in Entry,
             entries' = [Kept(victims) EXCEPT ![s] = e],
             \A i \in Occupied : ~SameIdentity(entries[i], e)
      PROVE  Ring'
  <2>1. EntriesTyped'
    BY <1>0, <1>4 DEF Kept, EntriesTyped
  <2>2. IdentityUnique'
    BY <1>0, <1>4 DEF Kept, EntriesTyped, IdentityUnique, Occupied, SameIdentity
  <2>3. QED BY <2>1, <2>2 DEF Ring
<1>5. QED BY <1>1, <1>2, <1>3, <1>4 DEF RingStep

LEMMA InitRing == Init => Ring
BY DEF Init, Ring, EntriesTyped, IdentityUnique, Occupied

-----------------------------------------------------------------------------
(* Theorems *)

\* transport_sent_cache_store never creates a second entry for an identity,
\* although its admission fast path does not look for the first.
THEOREM OneEntryPerIdentity == Spec => []IdentityUnique
<1>1. Ring /\ [Next]_vars => Ring'
  BY NextRing, RingStepKeeps DEF Ring
<1>2. Ring => IdentityUnique
  BY DEF Ring
<1>3. QED BY InitRing, <1>1, <1>2, PTL DEF Spec

LEMMA ProtectedStep ==
    ASSUME Ring, RingStep, NEW i \in Occupied, entries[i].protected, ~Releasing
    PROVE  /\ entries'[i] # Free
           /\ SameIdentity(entries[i], entries'[i])
           /\ entries'[i].protected
<1>1. i \in Slots /\ entries[i] \in Entry /\ entries[i] # Free
  BY OccupiedTyped DEF Ring, Occupied
<1>2. CASE UNCHANGED entries
  BY <1>1, <1>2 DEF SameIdentity
<1>3. ASSUME NEW j \in Occupied, NEW e \in Entry, entries' = [entries EXCEPT ![j] = e],
             SameIdentity(entries[j], e), entries[j].protected => e.protected
      PROVE  /\ entries'[i] # Free
             /\ SameIdentity(entries[i], entries'[i])
             /\ entries'[i].protected
  BY <1>1, <1>3, FreeIsNoEntry DEF SameIdentity, Ring, EntriesTyped
<1>4. ASSUME NEW victims \in SUBSET Occupied, \A j \in victims : ~entries[j].protected,
             \/ entries' = Kept(victims)
             \/ \E s \in Slots, e \in Entry :
                  /\ Kept(victims)[s] = Free
                  /\ entries' = [Kept(victims) EXCEPT ![s] = e]
      PROVE  entries'[i] = entries[i]
  BY <1>1, <1>4 DEF Kept
<1>5. QED BY <1>1, <1>2, <1>3, <1>4 DEF RingStep, SameIdentity

\* Required recovery objects survive pressure: no store, retry, repair or
\* allocation failure takes a protected entry out of the cache.
THEOREM ProtectedEntriesSurvive == Spec => ProtectedSurvives
<1>1. Ring /\ [Next]_vars => Ring'
  BY NextRing, RingStepKeeps DEF Ring
<1>2. Ring /\ [Next]_vars =>
        [\A i \in Occupied : entries[i].protected /\ ~Releasing =>
          /\ entries'[i] # Free
          /\ SameIdentity(entries[i], entries'[i])
          /\ entries'[i].protected]_vars
  BY NextRing, ProtectedStep DEF Ring
<1>3. QED BY InitRing, <1>1, <1>2, PTL DEF Spec, ProtectedSurvives

LEMMA RepairStep ==
    ASSUME Ring, RingStep, NEW i \in Occupied, entries'[i] # Free,
           SameIdentity(entries[i], entries'[i])
    PROVE  entries'[i].repair >= entries[i].repair
<1>1. i \in Slots /\ entries[i] \in Entry /\ entries[i].repair \in Nat
  BY OccupiedTyped DEF Ring, Entry
<1>2. CASE entries'[i] = entries[i]
  BY <1>1, <1>2
<1>3. ASSUME NEW j \in Occupied, NEW e \in Entry, entries' = [entries EXCEPT ![j] = e],
             e.repair >= entries[j].repair
      PROVE  entries'[i].repair >= entries[i].repair
  BY <1>1, <1>3 DEF Ring, EntriesTyped
<1>4. ASSUME NEW victims \in SUBSET Occupied,
             entries' = Kept(victims)
      PROVE  entries'[i] = entries[i]
  BY <1>1, <1>4 DEF Kept
<1>5. ASSUME NEW victims \in SUBSET Occupied, NEW s \in Slots, NEW e \in Entry,
             entries' = [Kept(victims) EXCEPT ![s] = e],
             \A j \in Occupied : ~SameIdentity(entries[j], e)
      PROVE  entries'[i] = entries[i]
  BY <1>1, <1>5 DEF Kept
<1>6. CASE UNCHANGED entries
  BY <1>2, <1>6
<1>7. QED BY <1>2, <1>3, <1>4, <1>5, <1>6 DEF RingStep

\* A rateless repair symbol is never issued twice for a cached object, over
\* any interleaving of repairs and publication retries.
THEOREM RepairSymbolsAreFresh == Spec => RepairNeverRewinds
<1>1. Ring /\ [Next]_vars => Ring'
  BY NextRing, RingStepKeeps DEF Ring
<1>2. Ring /\ [Next]_vars =>
        [\A i \in Occupied : entries'[i] # Free /\ SameIdentity(entries[i], entries'[i])
          => entries'[i].repair >= entries[i].repair]_vars
  BY NextRing, RepairStep DEF Ring
<1>3. QED BY InitRing, <1>1, <1>2, PTL DEF Spec, RepairNeverRewinds

-----------------------------------------------------------------------------
(* The counters *)

\* The invariant of the counters: the search cursor stays in the ring, and
\* AccountingExact.
Accounting == Ring /\ nextEntry \in Slots /\ AccountingExact

LEMMA CapacityPositive == Capacity \in Nat \ {0}
<1> DEFINE slots == (ByteLimit + ObjectLimit - 1) \div ObjectLimit
<1>1. slots \in Int
  BY LimitsAssumption
<1> HIDE DEF slots
<1>2. Capacity = IF slots < MinSlots THEN MinSlots
                 ELSE IF slots > MaxSlots THEN MaxSlots ELSE slots
  BY DEF Capacity, slots
<1>3. QED BY <1>1, <1>2, LimitsAssumption

LEMMA SlotAtInRing ==
    ASSUME nextEntry \in Slots, NEW k \in Nat
    PROVE  SlotAt(k) \in Slots
BY CapacityPositive DEF SlotAt, Slots

LEMMA SlotAfterInRing ==
    ASSUME NEW i \in Slots
    PROVE  SlotAfter(i) \in Slots
BY CapacityPositive DEF SlotAfter, Slots

LEMMA OccupiedFinite ==
    /\ IsFiniteSet(Slots)
    /\ \A T \in SUBSET Slots : IsFiniteSet(T) /\ Cardinality(T) \in Nat
<1>1. IsFiniteSet(Slots)
  BY CapacityPositive, FS_Interval DEF Slots
<1>2. QED BY <1>1, FS_Subset, FS_CardinalityType

\* A payload has at least one byte.
LEMMA PayloadSize ==
    ASSUME NEW p \in Payload
    PROVE  p.size \in Nat \ {0}
<1>1. p.size \in Sizes
  BY DEF Payload
<1>2. p.size \in 1 .. ObjectLimit
  BY <1>1, SizesAssumption
<1>3. ObjectLimit \in Nat
  BY LimitsAssumption
<1>4. QED BY <1>2, <1>3

LEMMA EntrySize ==
    ASSUME NEW e \in Entry
    PROVE  e.payload.size \in Nat \ {0}
<1>1. e.payload \in Payload
  BY DEF Entry
<1>2. QED BY <1>1, PayloadSize

\* The size of a set of entries is the sum of any function that gives theirs.
LEMMA SizeOfIsSum ==
    ASSUME EntriesTyped, NEW T \in SUBSET Occupied, NEW f,
           \A i \in T : f[i] = entries[i].payload.size
    PROVE  SizeOf(T) = SumFunctionOnSet(f, T) /\ SizeOf(T) \in Nat
<1> DEFINE g == [i \in T |-> entries[i].payload.size]
<1>1. IsFiniteSet(T)
  BY OccupiedFinite DEF Occupied
<1>2. \A i \in T : g[i] \in Nat /\ g[i] = f[i]
  <2> TAKE i \in T
  <2>1. entries[i] \in Entry
    BY OccupiedTyped
  <2>2. entries[i].payload.size \in Nat
    BY <2>1, EntrySize
  <2>3. QED BY <2>2
<1>3. SizeOf(T) = SumFunctionOnSet(g, T)
  BY DEF SizeOf, SumFunction
<1> HIDE DEF g
<1>4. SumFunctionOnSet(g, T) = SumFunctionOnSet(f, T)
  BY <1>1, <1>2, SumAgree
<1>5. SumFunctionOnSet(g, T) \in Nat
  BY <1>1, <1>2, SumType
<1>6. QED BY <1>3, <1>4, <1>5

\* What is left when some entries go: their sizes and their number.
LEMMA SizeOfRest ==
    ASSUME EntriesTyped, NEW T \in SUBSET Occupied
    PROVE  /\ SizeOf(Occupied \ T) = SizeOf(Occupied) - SizeOf(T)
           /\ SizeOf(Occupied) \in Nat /\ SizeOf(T) \in Nat
           /\ SizeOf(Occupied \ T) \in Nat
           /\ Cardinality(Occupied \ T) = Cardinality(Occupied) - Cardinality(T)
           /\ Cardinality(Occupied) \in Nat /\ Cardinality(T) \in Nat
<1> DEFINE f == [i \in Occupied |-> entries[i].payload.size]
<1>1. /\ SizeOf(Occupied) = SumFunctionOnSet(f, Occupied)
      /\ SizeOf(Occupied) \in Nat
  BY SizeOfIsSum
<1>2. SizeOf(T) = SumFunctionOnSet(f, T) /\ SizeOf(T) \in Nat
  BY SizeOfIsSum
<1>3. /\ SizeOf(Occupied \ T) = SumFunctionOnSet(f, Occupied \ T)
      /\ SizeOf(Occupied \ T) \in Nat
  BY SizeOfIsSum
<1>4. \A i \in Occupied : f[i] \in Int
  <2> TAKE i \in Occupied
  <2>1. entries[i] \in Entry
    BY OccupiedTyped
  <2>2. QED BY <2>1, EntrySize
<1>5. IsFiniteSet(Occupied) /\ IsFiniteSet(T)
  BY OccupiedFinite DEF Occupied
<1> HIDE DEF f
<1>6. SumFunctionOnSet(f, Occupied) =
        SumFunctionOnSet(f, T) + SumFunctionOnSet(f, Occupied \ T)
  BY <1>4, <1>5, SumSplit
<1>7. Cardinality(Occupied \ T) = Cardinality(Occupied) - Cardinality(T)
  <2>1. Occupied \cap T = T
    OBVIOUS
  <2>2. QED BY <1>5, <2>1, FS_Difference
<1>8. Cardinality(Occupied) \in Nat /\ Cardinality(T) \in Nat
  BY <1>5, FS_CardinalityType
<1>9. QED BY <1>1, <1>2, <1>3, <1>6, <1>7, <1>8

\* How a store of a new identity moves the counters: the victims are given
\* back, and the copy is charged only when it fits.
LEMMA StoreNewCounters ==
    ASSUME Accounting, NEW obj \in Object, NEW data \in Geometries,
           NEW allowEvict \in BOOLEAN, NEW alias, NEW allocated \in BOOLEAN,
           StoreNew(obj, data, allowEvict, alias, allocated)
    PROVE  \E victims \in SUBSET Occupied :
             LET kept == [i \in Slots |-> IF i \in victims THEN Free ELSE entries[i]]
             IN  \/ /\ entries' = kept
                    /\ bytes' = bytes - SizeOf(victims)
                    /\ count' = count - Cardinality(victims)
                    /\ nextEntry' = nextEntry
                 \/ \E s \in Slots :
                      /\ kept[s] = Free
                      /\ entries' = [kept EXCEPT ![s] = NewEntry(obj, data, allowEvict)]
                      /\ bytes' = bytes - SizeOf(victims) + obj.payload.size
                      /\ bytes' <= ByteLimit
                      /\ count' = count - Cardinality(victims) + 1
                      /\ nextEntry' \in Slots
<1> DEFINE size == obj.payload.size
           stops == Stops(size, allowEvict, alias)
           victims == IF stops = {} THEN Reclaimed(Capacity, allowEvict, alias)
                      ELSE Reclaimed(Min(stops), allowEvict, alias)
           kept == [i \in Slots |-> IF i \in victims THEN Free ELSE entries[i]]
           free == {k \in 0 .. Capacity - 1 : kept[SlotAt(k)] = Free}
           s == SlotAt(Min(free))
<1>1. victims \in SUBSET Occupied
  BY DEF Reclaimed, Evictable
<1>2. size \in Nat \ {0}
  BY PayloadSize DEF Object
<1>3. /\ bytes \in Int /\ count \in Int /\ SizeOf(victims) \in Int
      /\ Cardinality(victims) \in Int
  <2>1. EntriesTyped /\ AccountingExact
    BY DEF Accounting, Ring
  <2> HIDE DEF victims
  <2>2. SizeOf(victims) \in Nat /\ Cardinality(victims) \in Nat
    BY <1>1, <2>1, SizeOfRest
  <2>3. SizeOf(Occupied) \in Nat /\ Cardinality(Occupied) \in Nat
    BY <1>1, <2>1, SizeOfRest
  <2>4. QED BY <2>1, <2>2, <2>3 DEF AccountingExact
<1>4. CASE stops = {} \/ free = {} \/ ~allocated
  <2>1. entries' = kept /\ Charge(victims, 0) /\ UNCHANGED nextEntry
    BY <1>4, Zenon DEF StoreNew
  <2> HIDE DEF victims
  <2>2. bytes' = bytes - SizeOf(victims) /\ count' = count - Cardinality(victims)
    BY <1>3, <2>1 DEF Charge
  <2>3. QED BY <1>1, <2>1, <2>2
<1>5. CASE ~(stops = {} \/ free = {} \/ ~allocated)
  <2>1. /\ entries' = [kept EXCEPT ![s] = NewEntry(obj, data, allowEvict)]
        /\ Charge(victims, size) /\ nextEntry' = SlotAfter(s)
    BY <1>5, Zenon DEF StoreNew
  <2>2. free \subseteq Nat /\ free # {}
    BY <1>5
  <2>3. Min(free) \in free
    BY <2>2, MinOfNaturals
  <2>4. s \in Slots /\ kept[s] = Free
    BY <2>2, <2>3, SlotAtInRing DEF Accounting
  <2>5. nextEntry' \in Slots
    BY <2>1, <2>4, SlotAfterInRing
  <2>6. Fits(size, victims)
    <3>1. stops \subseteq Nat /\ stops # {}
      BY <1>5 DEF Stops
    <3>2. Min(stops) \in stops
      BY <3>1, MinOfNaturals
    <3>3. QED BY <1>5, <3>2 DEF Stops
  <2> HIDE DEF victims, s, kept
  <2>7. /\ bytes' = bytes - SizeOf(victims) + size
        /\ count' = count - Cardinality(victims) + 1
    BY <1>2, <2>1 DEF Charge
  <2>8. bytes' <= ByteLimit
    BY <2>6, <2>7 DEF Fits
  <2>9. QED BY <1>1, <2>1, <2>4, <2>5, <2>7, <2>8 DEF kept
<1>6. QED BY <1>4, <1>5

\* Entries leave the ring, and the counters with them.
LEMMA EmptiedCounters ==
    ASSUME Accounting, NEW T \in SUBSET Occupied,
           entries' = [i \in Slots |-> IF i \in T THEN Free ELSE entries[i]],
           bytes' = bytes - SizeOf(T), count' = count - Cardinality(T)
    PROVE  AccountingExact'
<1>1. EntriesTyped /\ AccountingExact
  BY DEF Accounting, Ring
<1>2. Occupied' = Occupied \ T
  BY DEF Occupied
<1>3. SizeOf(Occupied)' = SizeOf(Occupied \ T)
  <2> DEFINE f == [i \in Occupied' |-> entries'[i].payload.size]
             g == [i \in Occupied \ T |-> entries[i].payload.size]
  <2>1. f = g
    BY <1>2 DEF Occupied
  <2>2. QED BY <1>2, <2>1 DEF SizeOf
<1>4. QED BY <1>1, <1>2, <1>3, SizeOfRest, LimitsAssumption DEF AccountingExact

\* An entry is written to a slot that was free.
LEMMA AddedCounters ==
    ASSUME Accounting, NEW T \in SUBSET Occupied, NEW s \in Slots,
           NEW e \in Entry,
           [i \in Slots |-> IF i \in T THEN Free ELSE entries[i]][s] = Free,
           entries' = [[i \in Slots |-> IF i \in T THEN Free ELSE entries[i]]
                         EXCEPT ![s] = e],
           bytes' = bytes - SizeOf(T) + e.payload.size, bytes' <= ByteLimit,
           count' = count - Cardinality(T) + 1
    PROVE  AccountingExact'
<1>1. EntriesTyped /\ AccountingExact
  BY DEF Accounting, Ring
<1>2. s \notin Occupied \ T
  BY DEF Occupied
<1>3. Occupied' = (Occupied \ T) \cup {s}
  BY FreeIsNoEntry DEF Occupied
<1> DEFINE f == [i \in Occupied' |-> entries'[i].payload.size]
<1>4. \A i \in Occupied \ T : f[i] = entries[i].payload.size
  BY <1>2, <1>3 DEF Occupied
<1>5. f[s] = e.payload.size /\ e.payload.size \in Nat
  BY <1>3, EntrySize
<1>6. IsFiniteSet(Occupied \ T)
  BY OccupiedFinite DEF Occupied
<1>7. IsFiniteSet(Occupied') /\ Cardinality(Occupied') = Cardinality(Occupied \ T) + 1
  BY <1>2, <1>3, <1>6, FS_AddElement
<1>8. SizeOf(Occupied)' = SumFunctionOnSet(f, Occupied')
  BY DEF SizeOf, SumFunction
<1> HIDE DEF f
<1>9. SizeOf(Occupied \ T) = SumFunctionOnSet(f, Occupied \ T)
  BY <1>1, <1>4, SizeOfIsSum
<1>10. \A i \in Occupied \ T : f[i] \in Nat
  BY <1>1, <1>4, OccupiedTyped, EntrySize
<1>11. SumFunctionOnSet(f, Occupied') = f[s] + SumFunctionOnSet(f, Occupied' \ {s})
  BY <1>3, <1>5, <1>7, <1>10, SumRemove
<1>12. Occupied' \ {s} = Occupied \ T
  BY <1>2, <1>3
<1>13. SizeOf(Occupied)' = SizeOf(Occupied \ T) + e.payload.size
  <2>1. SizeOf(Occupied \ T) \in Nat
    BY <1>1, SizeOfRest
  <2>2. SumFunctionOnSet(f, Occupied') = e.payload.size + SizeOf(Occupied \ T)
    BY <1>5, <1>9, <1>11, <1>12, Zenon
  <2>3. \A x, y \in Nat : x + y = y + x
    OBVIOUS
  <2>4. e.payload.size + SizeOf(Occupied \ T) = SizeOf(Occupied \ T) + e.payload.size
    BY <1>5, <2>1, <2>3, Zenon
  <2>5. QED BY <1>8, <2>2, <2>4, Zenon
<1>14. QED BY <1>1, <1>5, <1>7, <1>13, SizeOfRest DEF AccountingExact

\* An entry is changed without its payload.
LEMMA ChangedCounters ==
    ASSUME Accounting, NEW i \in Occupied, NEW e \in Entry,
           entries' = [entries EXCEPT ![i] = e],
           e.payload = entries[i].payload, UNCHANGED <<bytes, count>>
    PROVE  AccountingExact'
<1>1. EntriesTyped /\ AccountingExact
  BY DEF Accounting, Ring
<1>2. Occupied' = Occupied
  BY <1>1, FreeIsNoEntry DEF Occupied, EntriesTyped
<1>3. SizeOf(Occupied)' = SizeOf(Occupied)
  <2> DEFINE f == [j \in Occupied' |-> entries'[j].payload.size]
             g == [j \in Occupied |-> entries[j].payload.size]
  <2>1. f = g
    BY <1>1, <1>2 DEF Occupied, EntriesTyped
  <2>2. QED BY <1>2, <2>1 DEF SizeOf
<1>4. QED BY <1>1, <1>2, <1>3 DEF AccountingExact

LEMMA RetriedPayload ==
    ASSUME NEW e \in Entry, NEW data, NEW allowEvict
    PROVE  Retried(e, data, allowEvict).payload = e.payload
BY DEF Retried, Entry

LEMMA NextAccounting ==
    ASSUME Accounting, [Next]_vars
    PROVE  Accounting'
<1>1. EntriesTyped /\ AccountingExact /\ Ring /\ nextEntry \in Slots
  BY DEF Accounting, Ring
<1>2. Ring'
  BY <1>1, NextRing, RingStepKeeps
<1>3. SUFFICES AccountingExact' /\ nextEntry' \in Slots
  BY <1>2 DEF Accounting, Slots
<1>4. ASSUME NEW obj \in Object, NEW data \in Geometries, NEW allowEvict \in BOOLEAN,
             StoreAgain(obj, data, allowEvict)
      PROVE  AccountingExact' /\ nextEntry' \in Slots
  <2>1. PICK i \in Find(obj.track, obj.id) :
          /\ entries' = [entries EXCEPT ![i] = Retried(entries[i], data, allowEvict)]
          /\ UNCHANGED <<nextEntry, bytes, count>>
    BY <1>4 DEF StoreAgain
  <2>2. i \in Occupied /\ entries[i] \in Entry
    BY <1>1, OccupiedTyped DEF Find
  <2>3. /\ Retried(entries[i], data, allowEvict) \in Entry
        /\ Retried(entries[i], data, allowEvict).payload = entries[i].payload
    BY <2>2, RetriedTyped, RetriedPayload
  <2>4. QED BY <1>1, <2>1, <2>2, <2>3, ChangedCounters
<1>5. ASSUME NEW obj \in Object, NEW data \in Geometries, NEW allowEvict \in BOOLEAN,
             NEW alias, NEW allocated \in BOOLEAN,
             StoreNew(obj, data, allowEvict, alias, allocated)
      PROVE  AccountingExact' /\ nextEntry' \in Slots
  <2> DEFINE e == NewEntry(obj, data, allowEvict)
             kept(V) == [i \in Slots |-> IF i \in V THEN Free ELSE entries[i]]
  <2>1. e \in Entry /\ e.payload = obj.payload
    BY NewEntryTyped DEF NewEntry
  <2>2. ASSUME NEW V \in SUBSET Occupied, entries' = kept(V),
               bytes' = bytes - SizeOf(V), count' = count - Cardinality(V),
               nextEntry' = nextEntry
        PROVE  AccountingExact' /\ nextEntry' \in Slots
    BY <1>1, <2>2, EmptiedCounters
  <2>3. ASSUME NEW V \in SUBSET Occupied, NEW s \in Slots, kept(V)[s] = Free,
               entries' = [kept(V) EXCEPT ![s] = e],
               bytes' = bytes - SizeOf(V) + obj.payload.size, bytes' <= ByteLimit,
               count' = count - Cardinality(V) + 1, nextEntry' \in Slots
        PROVE  AccountingExact' /\ nextEntry' \in Slots
    <3>1. bytes' = bytes - SizeOf(V) + e.payload.size
      BY <2>1, <2>3
    <3> HIDE DEF e
    <3>2. QED BY <2>1, <2>3, <3>1, AddedCounters
  <2>4. QED BY <1>5, <2>2, <2>3, StoreNewCounters
<1>6. ASSUME NEW T \in SUBSET Occupied, Release(T)
      PROVE  AccountingExact' /\ nextEntry' \in Slots
  BY <1>1, <1>6, EmptiedCounters DEF Release
<1>7. ASSUME NEW i \in Occupied, NEW admitted \in 1 .. MaxBatch, RepairRateless(i, admitted)
      PROVE  AccountingExact' /\ nextEntry' \in Slots
  <2> DEFINE e == [entries[i] EXCEPT !.repair = @ + admitted]
  <2>1. entries[i] \in Entry /\ admitted \in Nat
    BY <1>1, OccupiedTyped, LimitsAssumption
  <2>2. e \in Entry /\ e.payload = entries[i].payload
    BY <2>1 DEF Entry
  <2>3. entries' = [entries EXCEPT ![i] = e] /\ UNCHANGED <<nextEntry, bytes, count>>
    BY <1>7 DEF RepairRateless
  <2> HIDE DEF e
  <2>4. QED BY <1>1, <2>2, <2>3, ChangedCounters
<1>8. ASSUME NEW i \in Occupied, NEW admitted \in 1 .. MaxBatch, RepairSystematic(i, admitted)
      PROVE  AccountingExact' /\ nextEntry' \in Slots
  <2> DEFINE n == AdvanceSystematic(entries[i], admitted)
             e == [entries[i] EXCEPT !.systematic = n]
  <2>1. entries[i] \in Entry /\ admitted \in Nat
    BY <1>1, OccupiedTyped, LimitsAssumption
  <2>2. entries[i].systematic \in Nat /\ entries[i].data \in Nat \ {0}
    <3>1. entries[i].systematic \in Nat /\ entries[i].data \in Geometries
      BY <2>1 DEF Entry
    <3>2. entries[i].data \in Nat \ {0}
      BY <3>1, GeometriesAssumption, LimitsAssumption
    <3>3. QED BY <3>1, <3>2
  <2>3. n \in Nat
    BY <2>1, <2>2 DEF AdvanceSystematic
  <2>4. entries' = [entries EXCEPT ![i] = e] /\ UNCHANGED <<nextEntry, bytes, count>>
    BY <1>8 DEF RepairSystematic
  <2> HIDE DEF n
  <2>5. e \in Entry /\ e.payload = entries[i].payload
    BY <2>1, <2>3 DEF Entry
  <2> HIDE DEF e
  <2>6. QED BY <1>1, <2>4, <2>5, ChangedCounters
<1>9. CASE UNCHANGED vars
  <2>1. Occupied' = Occupied /\ entries' = entries /\ bytes' = bytes /\ count' = count
    BY <1>9 DEF vars, Occupied
  <2>2. SizeOf(Occupied)' = SizeOf(Occupied)
    BY <2>1 DEF SizeOf
  <2>3. QED BY <1>1, <1>9, <2>1, <2>2 DEF AccountingExact, vars
<1>10. QED
  BY <1>4, <1>5, <1>6, <1>7, <1>8, <1>9 DEF Next, Store, ReleaseThrough, ReleaseTrack

LEMMA InitAccounting == Init => Accounting
<1> SUFFICES ASSUME Init PROVE Accounting
  OBVIOUS
<1>1. Occupied = {}
  BY DEF Init, Occupied
<1>2. SizeOf(Occupied) = 0
  <2>1. DOMAIN [i \in {} |-> entries[i].payload.size] = {}
    OBVIOUS
  <2>2. QED BY <1>1, <2>1, SumEmpty DEF SizeOf, SumFunction
<1>3. nextEntry \in Slots
  BY CapacityPositive DEF Init, Slots
<1>4. QED
  BY <1>1, <1>2, <1>3, InitRing, FS_EmptySet, LimitsAssumption
  DEF Accounting, AccountingExact, Init

\* payload_bytes and count are what the entries hold, and the byte budget is
\* never exceeded: store, its reclaim loop, the releases and a failed
\* allocation agree on the cost of an entry, for any sizes and limits.
THEOREM SentCacheAccounting == Spec => []AccountingExact
<1>1. Accounting /\ [Next]_vars => Accounting'
  BY NextAccounting
<1>2. Accounting => AccountingExact
  BY DEF Accounting
<1>3. QED BY InitAccounting, <1>1, <1>2, PTL DEF Spec

\* TypeOK: every slot of the ring is free or holds a whole entry, the search
\* cursor stays in the ring and the counters never become negative, whatever
\* store, acknowledgements, expiry and repair do.
THEOREM SentCacheTypesHold == Spec => []TypeOK
<1>1. ASSUME Accounting
      PROVE  TypeOK
  <2>1. /\ EntriesTyped /\ nextEntry \in Slots
        /\ bytes = SizeOf(Occupied) /\ count = Cardinality(Occupied)
    BY <1>1 DEF Accounting, Ring, AccountingExact
  <2>2. SizeOf(Occupied) \in Nat /\ Cardinality(Occupied) \in Nat
    BY <2>1, SizeOfRest
  <2>3. QED BY <2>1, <2>2 DEF TypeOK, EntriesTyped
<1>2. Accounting /\ [Next]_vars => Accounting'
  BY NextAccounting
<1>3. QED BY InitAccounting, <1>1, <1>2, PTL DEF Spec

-----------------------------------------------------------------------------
(* Admission *)

\* The reclaim loop visits every slot once.
LEMMA LoopVisitsAll ==
    ASSUME nextEntry \in Slots, NEW i \in Slots
    PROVE  \E k \in 0 .. Capacity - 1 : SlotAt(k) = i
<1>1. Capacity \in Nat \ {0} /\ nextEntry \in 0 .. Capacity - 1 /\ i \in 0 .. Capacity - 1
  BY CapacityPositive DEF Slots
<1>2. CASE i >= nextEntry
  <2>1. i % Capacity = i
    BY <1>1
  <2>2. nextEntry + (i - nextEntry) = i /\ i - nextEntry \in 0 .. Capacity - 1
    BY <1>1, <1>2
  <2>3. SlotAt(i - nextEntry) = i
    BY <2>1, <2>2 DEF SlotAt
  <2>4. QED BY <2>2, <2>3
<1>3. CASE i < nextEntry
  <2>1. (i + Capacity) % Capacity = i
    BY <1>1
  <2>2. /\ nextEntry + (i - nextEntry + Capacity) = i + Capacity
        /\ i - nextEntry + Capacity \in 0 .. Capacity - 1
    BY <1>1, <1>3
  <2>3. SlotAt(i - nextEntry + Capacity) = i
    BY <2>1, <2>2 DEF SlotAt
  <2>4. QED BY <2>2, <2>3
<1>4. QED BY <1>1, <1>2, <1>3

LEMMA AdmittedFits ==
    ASSUME Accounting, NEW obj \in Object, NEW allowEvict \in BOOLEAN, NEW alias,
           Find(obj.track, obj.id) = {}, CanStore(obj, allowEvict, alias)
    PROVE  Stops(obj.payload.size, allowEvict, alias) # {}
<1> DEFINE size == obj.payload.size
           V == IF allowEvict THEN Evictable(alias) ELSE {}
<1>1. EntriesTyped /\ AccountingExact /\ nextEntry \in Slots
  BY DEF Accounting, Ring
<1>2. size \in Nat \ {0} /\ ByteLimit \in Nat /\ Capacity \in Nat \ {0}
  BY PayloadSize, LimitsAssumption, CapacityPositive DEF Object
<1>3. V \in SUBSET Occupied
  BY DEF Evictable
<1>4. /\ SizeOf(V) \in Nat /\ Cardinality(V) \in Nat
      /\ bytes \in Nat /\ count \in Nat /\ count = Cardinality(Occupied)
  <2> HIDE DEF V
  <2>1. /\ SizeOf(V) \in Nat /\ Cardinality(V) \in Nat
        /\ SizeOf(Occupied) \in Nat /\ Cardinality(Occupied) \in Nat
    BY <1>1, <1>3, SizeOfRest
  <2>2. QED BY <1>1, <2>1 DEF AccountingExact
<1>5. CASE count < Capacity /\ bytes + size <= ByteLimit
  <2>1. Reclaimed(0, allowEvict, alias) = {}
    BY DEF Reclaimed
  <2>2. SizeOf({}) = 0 /\ Cardinality({}) = 0
    <3>1. DOMAIN [i \in {} |-> entries[i].payload.size] = {}
      OBVIOUS
    <3>2. QED BY <3>1, SumEmpty, FS_EmptySet DEF SizeOf, SumFunction
  <2>3. Fits(size, {})
    BY <1>2, <1>4, <1>5, <2>2 DEF Fits
  <2>4. 0 \in Stops(size, allowEvict, alias)
    BY <1>2, <2>1, <2>3 DEF Stops
  <2>5. QED BY <2>4
<1>6. CASE (Occupied # Slots \/ V # {}) /\ bytes + size <= ByteLimit + SizeOf(V)
  <2>1. Reclaimed(Capacity, allowEvict, alias) = V
    <3>1. Slots \subseteq {SlotAt(k) : k \in 0 .. Capacity - 1}
      BY <1>1, LoopVisitsAll
    <3>2. QED BY <3>1 DEF Reclaimed, Evictable, Occupied
  <2>2. count - Cardinality(V) < Capacity
    <3>1. /\ IsFiniteSet(Slots) /\ Cardinality(Slots) = Capacity
          /\ Occupied \in SUBSET Slots
      BY <1>2, FS_Interval DEF Slots, Occupied
    <3>2. /\ Cardinality(Occupied) <= Capacity
          /\ Occupied # Slots => Cardinality(Occupied) # Capacity
      BY <3>1, FS_Subset
    <3>3. V # {} => Cardinality(V) # 0
      <4>1. IsFiniteSet(V)
        BY <1>3, OccupiedFinite DEF Occupied
      <4> HIDE DEF V
      <4>2. QED BY <4>1, FS_EmptySet
    <3> HIDE DEF V
    <3>4. QED BY <1>2, <1>4, <1>6, <3>2, <3>3
  <2>3. Fits(size, V)
    <3> HIDE DEF V
    <3> QED BY <1>2, <1>4, <1>6, <2>2 DEF Fits
  <2>4. Capacity \in Stops(size, allowEvict, alias)
    <3>1. Capacity \in 0 .. Capacity
      BY <1>2
    <3>2. QED BY <2>1, <2>3, <3>1, Zenon DEF Stops
  <2>5. QED BY <2>4
<1>7. QED BY <1>5, <1>6 DEF CanStore

\* transport_sent_cache_can_store promises what transport_sent_cache_store
\* keeps: an object that was admitted, and so was sent, finds room for its
\* copy, whatever must be reclaimed and wherever the search starts.
THEOREM AdmissionIsKept == Spec => []AdmittedIsStored
<1>1. Accounting /\ [Next]_vars => Accounting'
  BY NextAccounting
<1>2. Accounting => AdmittedIsStored
  BY AdmittedFits DEF AdmittedIsStored
<1>3. QED BY InitAccounting, <1>1, <1>2, PTL DEF Spec

-----------------------------------------------------------------------------
(* Repair *)

\* Every entry: its rateless symbols start after the data symbols, and the
\* systematic cursor does not move while there are rateless ones.
InOrder(e) == e.data <= e.repair /\ (e.repair < MaxSymbols => e.systematic = 0)

CursorsInOrder == \A i \in Occupied : InOrder(entries[i])

LEMMA GeometryPositive ==
    ASSUME NEW data \in Geometries
    PROVE  data \in Nat \ {0}
BY GeometriesAssumption, LimitsAssumption

LEMMA EntryNumbers ==
    ASSUME NEW e \in Entry
    PROVE  /\ e.data \in Geometries /\ e.data \in Nat \ {0} /\ e.total \in Nat
           /\ e.repair \in Nat /\ e.systematic \in Nat
<1>1. e.data \in Geometries /\ e.total \in Nat /\ e.repair \in Nat /\ e.systematic \in Nat
  BY DEF Entry
<1>2. QED BY <1>1, GeometryPositive

\* What a step may do to one slot: leave it, empty it, or put a repairable
\* entry there, unless a retry shrank the one that was there.
SlotStep(i) ==
    \/ entries'[i] = entries[i]
    \/ entries'[i] = Free
    \/ /\ InOrder(entries'[i])
       /\ \/ Repairable(entries'[i])
          \/ /\ entries[i] # Free /\ SameIdentity(entries[i], entries'[i])
             /\ ~Repairable(entries[i]) \/ ShrunkUnderCursor(entries[i], entries'[i])

\* A step that writes e into one occupied slot
LEMMA WritesOne ==
    ASSUME EntriesTyped, NEW i \in Occupied, NEW e,
           entries' = [entries EXCEPT ![i] = e], InOrder(e),
           \/ Repairable(e)
           \/ SameIdentity(entries[i], e)
              /\ (~Repairable(entries[i]) \/ ShrunkUnderCursor(entries[i], e))
    PROVE  \A j \in Slots : SlotStep(j)
<1> SUFFICES ASSUME NEW j \in Slots PROVE SlotStep(j)
  OBVIOUS
<1>1. entries'[j] = IF j = i THEN e ELSE entries[j]
  BY DEF EntriesTyped
<1>2. entries[i] # Free
  BY DEF Occupied
<1>3. CASE j = i
  <2>1. entries'[i] = e
    BY <1>1, <1>3
  <2>2. QED BY <1>2, <1>3, <2>1, Zenon DEF SlotStep
<1>4. CASE j # i
  BY <1>1, <1>4 DEF SlotStep
<1>5. QED BY <1>3, <1>4

\* The retry: the cursors keep their order, and the systematic one stays.
LEMMA RetryEffect ==
    ASSUME NEW e \in Entry, InOrder(e), NEW data \in Geometries, NEW allowEvict \in BOOLEAN
    PROVE  LET f == Retried(e, data, allowEvict) IN
           /\ InOrder(f) /\ SameIdentity(e, f)
           /\ \/ Repairable(f) \/ ~Repairable(e) \/ ShrunkUnderCursor(e, f)
<1> DEFINE f == Retried(e, data, allowEvict)
           total == IF data > e.total THEN data ELSE e.total
           repair == IF e.repair < total THEN total ELSE e.repair
<1>1. f = [e EXCEPT !.total = total, !.repair = repair, !.data = data,
                    !.protected = e.protected \/ ~allowEvict]
  BY DEF Retried
<1>2. /\ data \in Nat \ {0} /\ e.total \in Nat /\ e.repair \in Nat
      /\ e.systematic \in Nat /\ e.data \in Nat /\ MaxSymbols \in Nat
  BY EntryNumbers, GeometryPositive, LimitsAssumption
<1>3. data <= repair /\ e.repair <= repair /\ repair \in Nat
  BY <1>2
<1> HIDE DEF total, repair
<1>4. /\ f.data = data /\ f.repair = repair /\ f.systematic = e.systematic
      /\ f.track = e.track /\ f.id = e.id
  BY <1>1 DEF Entry
<1> HIDE DEF f
<1>5. InOrder(f)
  BY <1>2, <1>3, <1>4 DEF InOrder
<1>6. SameIdentity(e, f)
  BY <1>4 DEF SameIdentity
<1>7. ASSUME ~Repairable(f), Repairable(e)
      PROVE  ShrunkUnderCursor(e, f)
  <2>1. repair >= MaxSymbols /\ data <= e.systematic
    BY <1>2, <1>3, <1>4, <1>7 DEF Repairable
  <2>2. e.repair >= MaxSymbols
    BY <1>2, <2>1 DEF InOrder
  <2>3. e.systematic < e.data
    BY <1>2, <1>7, <2>2 DEF Repairable
  <2>4. QED BY <1>4, <2>1, <2>3 DEF ShrunkUnderCursor
<1>8. QED BY <1>5, <1>6, <1>7 DEF f

LEMMA NewEntryStep ==
    ASSUME EntriesTyped, NEW obj \in Object, NEW data \in Geometries,
           NEW allowEvict \in BOOLEAN, NEW alias, NEW allocated \in BOOLEAN,
           StoreNew(obj, data, allowEvict, alias, allocated)
    PROVE  \A j \in Slots : SlotStep(j)
<1> DEFINE e == NewEntry(obj, data, allowEvict)
<1>1. InOrder(e) /\ Repairable(e)
  BY GeometryPositive, LimitsAssumption DEF NewEntry, Repairable, InOrder
<1>2. PICK V \in SUBSET Evictable(alias) :
        \/ entries' = Kept(V)
        \/ \E s \in Slots : entries' = [Kept(V) EXCEPT ![s] = e]
  BY StoreNewEffect
<1> HIDE DEF e
<1> SUFFICES ASSUME NEW j \in Slots PROVE SlotStep(j)
  OBVIOUS
<1>3. \/ entries'[j] = e \/ entries'[j] = Free \/ entries'[j] = entries[j]
  BY <1>2 DEF Kept
<1>4. ASSUME entries'[j] = e PROVE SlotStep(j)
  BY <1>1, <1>4 DEF SlotStep
<1>5. QED BY <1>3, <1>4 DEF SlotStep

LEMMA StepOfSlots ==
    ASSUME EntriesTyped, CursorsInOrder, [Next]_vars
    PROVE  \A j \in Slots : SlotStep(j)
<1>1. ASSUME NEW T,
             entries' = [i \in Slots |-> IF i \in T THEN Free ELSE entries[i]]
      PROVE  \A j \in Slots : SlotStep(j)
  BY <1>1 DEF SlotStep
<1>2. ASSUME NEW obj \in Object, NEW data \in Geometries, NEW allowEvict \in BOOLEAN,
             StoreAgain(obj, data, allowEvict)
      PROVE  \A j \in Slots : SlotStep(j)
  <2>1. PICK i \in Find(obj.track, obj.id) :
          entries' = [entries EXCEPT ![i] = Retried(entries[i], data, allowEvict)]
    BY <1>2 DEF StoreAgain
  <2> DEFINE f == Retried(entries[i], data, allowEvict)
  <2>2. i \in Occupied /\ entries[i] \in Entry
    BY OccupiedTyped DEF Find
  <2>3. InOrder(entries[i])
    BY <2>2 DEF CursorsInOrder
  <2>4. /\ InOrder(f) /\ SameIdentity(entries[i], f)
        /\ \/ Repairable(f) \/ ~Repairable(entries[i]) \/ ShrunkUnderCursor(entries[i], f)
    BY <2>2, <2>3, RetryEffect
  <2>5. entries' = [entries EXCEPT ![i] = f]
    BY <2>1
  <2> HIDE DEF f
  <2>6. QED BY <2>2, <2>4, <2>5, WritesOne
<1>3. ASSUME NEW obj \in Object, NEW data \in Geometries, NEW allowEvict \in BOOLEAN,
             NEW alias, NEW allocated \in BOOLEAN,
             StoreNew(obj, data, allowEvict, alias, allocated)
      PROVE  \A j \in Slots : SlotStep(j)
  <2> QED BY <1>3, NewEntryStep
<1>4. ASSUME NEW T \in SUBSET Occupied, Release(T)
      PROVE  \A j \in Slots : SlotStep(j)
  BY <1>1, <1>4 DEF Release
<1>5. ASSUME NEW i \in Occupied, NEW admitted \in 1 .. MaxBatch, RepairRateless(i, admitted)
      PROVE  \A j \in Slots : SlotStep(j)
  <2> DEFINE e == [entries[i] EXCEPT !.repair = @ + admitted]
  <2>1. entries[i] \in Entry /\ admitted \in Nat /\ InOrder(entries[i])
    BY OccupiedTyped, LimitsAssumption DEF CursorsInOrder
  <2>2. e.data = entries[i].data /\ e.systematic = entries[i].systematic
        /\ e.repair = entries[i].repair + admitted
    BY <2>1 DEF Entry
  <2>3. entries[i].repair < MaxSymbols
    BY <1>5 DEF RepairRateless
  <2>4. entries[i].data \in Nat \ {0} /\ entries[i].repair \in Nat /\ MaxSymbols \in Nat
    BY <2>1, EntryNumbers, LimitsAssumption
  <2>5. entries[i].data <= entries[i].repair /\ entries[i].systematic = 0
    BY <2>1, <2>3 DEF InOrder
  <2>6. entries' = [entries EXCEPT ![i] = e]
    BY <1>5 DEF RepairRateless
  <2> HIDE DEF e
  <2>7. InOrder(e) /\ Repairable(e)
    BY <2>1, <2>2, <2>4, <2>5 DEF InOrder, Repairable
  <2>8. QED BY <2>6, <2>7, WritesOne
<1>6. ASSUME NEW i \in Occupied, NEW admitted \in 1 .. MaxBatch, RepairSystematic(i, admitted)
      PROVE  \A j \in Slots : SlotStep(j)
  <2> DEFINE n == AdvanceSystematic(entries[i], admitted)
             e == [entries[i] EXCEPT !.systematic = n]
  <2>1. entries[i] \in Entry /\ admitted \in Nat /\ InOrder(entries[i])
    BY OccupiedTyped, LimitsAssumption DEF CursorsInOrder
  <2>2. /\ entries[i].data \in Nat \ {0} /\ entries[i].systematic \in Nat
        /\ entries[i].repair \in Nat /\ MaxSymbols \in Nat
    BY <2>1, EntryNumbers, LimitsAssumption
  <2>3. n < entries[i].data
    BY <2>1, <2>2 DEF AdvanceSystematic
  <2> HIDE DEF n
  <2>4. e.data = entries[i].data /\ e.systematic = n /\ e.repair = entries[i].repair
    BY <2>1 DEF Entry
  <2>5. entries' = [entries EXCEPT ![i] = e] /\ entries[i].repair >= MaxSymbols
    BY <1>6 DEF RepairSystematic, n
  <2> HIDE DEF e
  <2>6. InOrder(e) /\ Repairable(e)
    BY <2>1, <2>2, <2>3, <2>4, <2>5 DEF InOrder, Repairable
  <2>7. QED BY <2>5, <2>6, WritesOne
<1>7. CASE UNCHANGED vars
  BY <1>7 DEF SlotStep, vars
<1>8. QED
  BY <1>2, <1>3, <1>4, <1>5, <1>6, <1>7 DEF Next, Store, ReleaseThrough, ReleaseTrack

\* Repair never ends for an entry by itself: until the rateless symbols are
\* used up transport_repair_build_rateless accepts it, after that
\* transport_repair_build_systematic_fallback, unless a retry gave it fewer
\* data symbols than its systematic cursor has passed.
THEOREM RepairGoesOn == Spec => RepairEndsOnlyByShrinking
<1>1. Init => Ring /\ CursorsInOrder
  <2>1. Init => CursorsInOrder
    BY DEF Init, CursorsInOrder, Occupied
  <2>2. QED BY <2>1, InitRing
<1>2. Ring /\ CursorsInOrder /\ [Next]_vars => (Ring /\ CursorsInOrder)'
  <2>1. Ring /\ [Next]_vars => Ring'
    BY NextRing, RingStepKeeps DEF Ring
  <2>2. Ring /\ CursorsInOrder /\ [Next]_vars => CursorsInOrder'
    <3> SUFFICES ASSUME Ring, CursorsInOrder, [Next]_vars, NEW i \in Slots, entries'[i] # Free
                 PROVE  InOrder(entries'[i])
      BY DEF CursorsInOrder, Occupied
    <3>1. SlotStep(i)
      BY StepOfSlots DEF Ring
    <3>2. entries[i] # Free => InOrder(entries[i])
      BY DEF CursorsInOrder, Occupied
    <3>3. QED BY <3>1, <3>2 DEF SlotStep
  <2>3. QED BY <2>1, <2>2
<1>3. Ring /\ CursorsInOrder /\ [Next]_vars =>
        [\A i \in Slots : entries'[i] # Free /\ ~Repairable(entries'[i]) =>
            /\ entries[i] # Free /\ SameIdentity(entries[i], entries'[i])
            /\ ~Repairable(entries[i]) \/ ShrunkUnderCursor(entries[i], entries'[i])]_vars
  <2> SUFFICES ASSUME Ring, CursorsInOrder, [Next]_vars,
                      NEW i \in Slots, entries'[i] # Free, ~Repairable(entries'[i])
               PROVE  /\ entries[i] # Free /\ SameIdentity(entries[i], entries'[i])
                      /\ ~Repairable(entries[i]) \/ ShrunkUnderCursor(entries[i], entries'[i])
    OBVIOUS
  <2>1. SlotStep(i)
    BY StepOfSlots DEF Ring
  <2>2. QED BY <2>1 DEF SlotStep, SameIdentity
<1>4. QED BY <1>1, <1>2, <1>3, PTL DEF Spec, RepairEndsOnlyByShrinking
=============================================================================
