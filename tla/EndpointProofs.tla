----------------------------- MODULE EndpointProofs -----------------------------
(***************************************************************************)
(* Theorems about connections.  Endpoint, the application's side: every    *)
(* failure of a service call is reported, and subscriptions follow the     *)
(* peers.  Session, the transport's side: two correct ends never close on  *)
(* each other for a protocol error.  The two modules share no variable.    *)
(***************************************************************************)
EXTENDS Endpoint, Session, FiniteSetLemmas

Event == [type : {"error", "ready", "rejected", "disconnected", "notice", "record", "writable"},
          of : Conns \cup Pubs \cup {"endpoint"}, size : Nat]

-----------------------------------------------------------------------------
(* The queue *)

LEMMA BytesFacts ==
    /\ Bytes(<<>>) = 0
    /\ \A q \in Seq(Event) : Bytes(q) \in Nat
    /\ \A q \in Seq(Event), e \in Event : Bytes(Append(q, e)) = Bytes(q) + e.size
    /\ \A q \in Seq(Event) : q # <<>> => Tail(q) \in Seq(Event) /\ Bytes(Tail(q)) <= Bytes(q)
<1>1. \A q : Bytes(q) = SizeSum(q)
  BY DEF Bytes, SumFunction, SizeSum
<1>2. \A e \in Event : e.size \in Nat
  BY DEF Event
<1>3. \A q \in Seq(Event) : SizeSum(q) \in Nat
  BY <1>2, SizeSumNat
<1>4. \A q \in Seq(Event), e \in Event : SizeSum(Append(q, e)) = SizeSum(q) + e.size
  BY <1>2, SizeSumAppend
<1>5. ASSUME NEW q \in Seq(Event), q # <<>>
      PROVE  Tail(q) \in Seq(Event) /\ SizeSum(Tail(q)) <= SizeSum(q)
  <2> DEFINE u == SubSeq(q, 1, 1)
             v == SubSeq(q, 2, Len(q))
  <2>1. Len(q) \in Nat /\ 1 \in 0 .. Len(q) /\ 1 + 1 = 2
    BY <1>5
  <2>2. u \in Seq(Event) /\ v \in Seq(Event) /\ SizeSum(q) = SizeSum(u) + SizeSum(v)
    BY <1>2, <2>1, SizeSumCut
  <2>3. SizeSum(u) \in Nat /\ SizeSum(v) \in Nat
    BY <1>3, <2>2
  <2>4. Tail(q) = v
    BY <1>5
  <2> HIDE DEF u, v
  <2>5. SizeSum(v) <= SizeSum(q)
    BY <2>2, <2>3
  <2>6. QED BY <2>2, <2>4, <2>5, Zenon
<1>6. QED BY <1>1, <1>3, <1>4, <1>5, SizeSumEmpty

\* queue_event for one event: appended or lost
Add(q, e) ==
    IF Len(q) < MaxEvents /\ Bytes(q) + e.size <= MaxBytes THEN Append(q, e) ELSE q

\* The queue after each subset of the events, in order
After(events) ==
    CHOOSE g : g = [s \in SUBSET DOMAIN events |->
                      IF s = {} THEN queue ELSE Add(g[s \ {Max(s)}], events[Max(s)])]

LEMMA FittingIsAfter ==
    ASSUME NEW events
    PROVE  Fitting(events) = After(events)[DOMAIN events]
BY DEF Fitting, FoldLeft, MapThenFoldSet, After, Add

LEMMA AfterExists ==
    ASSUME NEW events \in Seq(Event), queue \in Seq(Event)
    PROVE  \A s \in SUBSET DOMAIN events : After(events)[s] =
              IF s = {} THEN queue ELSE Add(After(events)[s \ {Max(s)}], events[Max(s)])
<1> DEFINE D == DOMAIN events
           V == Seq(Event)
           pick == [s \in SUBSET D |-> Max(s)]
           step == [p \in D \X V |-> Add(p[2], events[p[1]])]
           Is(g) == g = [s \in SUBSET D |->
                           IF s = {} THEN queue ELSE Add(g[s \ {Max(s)}], events[Max(s)])]
<1>1. D = 1 .. Len(events) /\ Len(events) \in Nat /\ IsFiniteSet(D)
  BY FS_Interval
<1>2. \A s \in SUBSET D : s # {} => pick[s] \in s
  <2> SUFFICES ASSUME NEW s \in SUBSET D, s # {} PROVE Max(s) \in s
    OBVIOUS
  <2>1. s \subseteq 0 .. Len(events)
    BY <1>1
  <2>2. QED BY <1>1, <2>1, MaxOfNaturals
<1>3. \A x \in D, v \in V : Add(v, events[x]) \in V
  <2>1. \A x \in D : events[x] \in Event
    BY <1>1
  <2>2. QED BY <2>1 DEF Add
<1>4. \A x \in D, v \in V : step[<<x, v>>] = Add(v, events[x])
  OBVIOUS
<1>5. \A x \in D, v \in V : step[<<x, v>>] \in V
  BY <1>3, <1>4
<1>6. PICK g \in [SUBSET D -> V] : \A s \in SUBSET D : g[s] = Fold1(queue, pick, step, g, s)
  <2>1. queue \in V /\ IsFiniteSet(D)
    BY <1>1
  <2>2. Folds(D, V, queue, pick, step)
    <3> HIDE DEF D, V, pick, step, Is
    <3> QED BY <1>2, <1>5, <2>1, FoldExists
  <2>3. QED BY <2>2 DEF Folds
<1>7. \A s \in SUBSET D : g[s] =
         IF s = {} THEN queue ELSE Add(g[s \ {Max(s)}], events[Max(s)])
  <2> SUFFICES ASSUME NEW s \in SUBSET D, s # {}
               PROVE  g[s] = Add(g[s \ {Max(s)}], events[Max(s)])
    BY <1>6 DEF Fold1
  <2>1. g[s] = step[<<pick[s], g[s \ {pick[s]}]>>]
    BY <1>6 DEF Fold1
  <2>2. pick[s] = Max(s) /\ Max(s) \in D /\ g[s \ {Max(s)}] \in V
    BY <1>2
  <2> HIDE DEF pick, step, V
  <2>3. QED BY <1>4, <2>1, <2>2
<1>8. Is(g)
  BY <1>7
<1>9. Is(After(events))
  BY <1>8 DEF After
<1>10. QED
  <2> SUFFICES ASSUME NEW s \in SUBSET D
               PROVE  After(events)[s] =
                        IF s = {} THEN queue ELSE Add(After(events)[s \ {Max(s)}], events[Max(s)])
    OBVIOUS
  <2> DEFINE r == [t \in SUBSET D |-> IF t = {} THEN queue
                     ELSE Add(After(events)[t \ {Max(t)}], events[Max(t)])]
  <2>1. After(events) = r
    BY <1>9
  <2>2. r[s] = IF s = {} THEN queue ELSE Add(After(events)[s \ {Max(s)}], events[Max(s)])
    OBVIOUS
  <2> HIDE DEF r
  <2>3. QED BY <2>1, <2>2

Bounded(q) == q \in Seq(Event) /\ Len(q) <= MaxEvents /\ Bytes(q) <= MaxBytes

\* Whatever does not fit is lost: the queue stays within its limits.  It stays
\* empty only if no event would fit an empty queue.
LEMMA FittingFacts ==
    ASSUME NEW events \in Seq(Event), Bounded(queue)
    PROVE  /\ Bounded(Fitting(events))
           /\ Fitting(events) = <<>> =>
                queue = <<>> /\ \A i \in 1 .. Len(events) : events[i].size > MaxBytes
<1> DEFINE D == DOMAIN events
           Kept(q, s) == /\ Bounded(q)
                         /\ q = <<>> => queue = <<>> /\ \A i \in s : events[i].size > MaxBytes
           Good == {s \in SUBSET D : Kept(After(events)[s], s)}
<1>1. D = 1 .. Len(events) /\ Len(events) \in Nat /\ IsFiniteSet(D)
  BY FS_Interval
<1>2. queue \in Seq(Event)
  BY DEF Bounded
<1>3. ASSUME NEW s \in SUBSET D, \A x \in s : s \ {x} \in Good
      PROVE  Kept(After(events)[s], s)
  <2>1. CASE s = {}
    <3>1. After(events)[s] = queue
      BY <1>2, <2>1, AfterExists
    <3>2. QED BY <2>1, <3>1
  <2>2. CASE s # {}
    <3> DEFINE x == Max(s)
               q == After(events)[s \ {x}]
               e == events[x]
    <3>1. x \in s
      <4>1. s \subseteq 0 .. Len(events)
        BY <1>1
      <4>2. QED BY <1>1, <2>2, <4>1, MaxOfNaturals
    <3>2. After(events)[s] = Add(q, e)
      BY <1>2, <2>2, AfterExists
    <3>3. Kept(q, s \ {x}) /\ e \in Event
      BY <1>1, <1>3, <3>1
    <3> HIDE DEF x, q
    <3>4. q \in Seq(Event) /\ Len(q) \in Nat /\ Bytes(q) \in Nat /\ e.size \in Nat
      <4>1. q \in Seq(Event)
        BY <3>3 DEF Bounded
      <4>2. e.size \in Nat
        BY <3>3 DEF Event
      <4>3. QED BY <4>1, <4>2, BytesFacts
    <3>5. MaxEvents \in Nat \ {0} /\ MaxBytes \in Nat \ {0}
      BY EndpointAssumption
    <3>6. CASE Len(q) < MaxEvents /\ Bytes(q) + e.size <= MaxBytes
      <4>1. Add(q, e) = Append(q, e)
        BY <3>6 DEF Add
      <4>2. Bytes(Append(q, e)) = Bytes(q) + e.size
        BY <3>3, <3>4, BytesFacts
      <4>3. Append(q, e) \in Seq(Event) /\ Len(Append(q, e)) = Len(q) + 1 /\ Append(q, e) # <<>>
        BY <3>3, <3>4
      <4>4. Len(Append(q, e)) <= MaxEvents
        BY <3>4, <3>5, <3>6, <4>3
      <4>5. QED BY <3>2, <3>6, <4>1, <4>2, <4>3, <4>4 DEF Bounded
    <3>7. CASE ~(Len(q) < MaxEvents /\ Bytes(q) + e.size <= MaxBytes)
      <4>1. Add(q, e) = q
        BY <3>7 DEF Add
      <4>2. ASSUME q = <<>> PROVE e.size > MaxBytes
        <5>1. Len(q) = 0 /\ Bytes(q) = 0
          BY <4>2, BytesFacts
        <5>2. QED BY <3>4, <3>5, <3>7, <5>1
      <4>3. q = <<>> => \A i \in s : events[i].size > MaxBytes
        <5> SUFFICES ASSUME q = <<>>, NEW i \in s PROVE events[i].size > MaxBytes
          OBVIOUS
        <5>1. CASE i = x
          BY <4>2, <5>1
        <5>2. CASE i # x
          BY <3>3, <5>2
        <5>3. QED BY <5>1, <5>2
      <4>4. QED BY <3>2, <3>3, <4>1, <4>3
    <3>8. QED BY <3>6, <3>7
  <2>3. QED BY <2>1, <2>2
<1>4. \A s \in SUBSET D : (\A x \in s : s \ {x} \in Good) => s \in Good
  <2> HIDE DEF Kept
  <2> QED BY <1>3
<1>5. D \in Good
  <2> HIDE DEF Good, D
  <2>1. \A s \in SUBSET D : s \in Good
    BY <1>1, <1>4, SubsetInduction
  <2>2. QED BY <2>1
<1>6. QED BY <1>1, <1>5, FittingIsAfter

-----------------------------------------------------------------------------
(* The inductive invariant *)

\* While a call runs, what was lost shows in the status, and in the queue an
\* event tells the application to look: the call does not end in AGAIN.
Reported ==
    /\ FailuresAreReported
    /\ phase # "app" /\ lost => status = "error" /\ queue # <<>>

Followed ==
    /\ IsFiniteSet(open) /\ IsFiniteSet(ReadyConns)
    /\ SubscriptionsFollowPeers

Serving ==
    /\ TypeOK
    /\ queue \in Seq(Event)
    /\ Reported
    /\ Followed

LEMMA ServingInit == Init => Serving
<1> SUFFICES ASSUME Init PROVE Serving
  OBVIOUS
<1>1. ReadyConns = {}
  BY DEF Init, ReadyConns
<1>2. IsFiniteSet({}) /\ Cardinality({}) = 0
  BY FS_EmptySet
<1>3. queue \in Seq(Event) /\ Len(queue) = 0 /\ Bytes(queue) = 0
  BY BytesFacts DEF Init
<1>4. TypeOK
  <2>1. /\ 0 <= MaxEvents /\ 0 <= MaxBytes /\ 0 \in 0 .. MaxTraffic
    BY EndpointAssumption
  <2>2. Len(queue) <= MaxEvents /\ Bytes(queue) <= MaxBytes
    BY <1>3, <2>1
  <2>3. /\ active \in BOOLEAN /\ lost \in BOOLEAN
        /\ link \in [Conns -> {"down", "live", "closing"}]
        /\ peers \in [Conns -> {"absent", "known", "ready"}]
        /\ status \in {"ok", "again", "error"} /\ ret \in {"ok", "again", "error"}
        /\ phase \in {"app", "tick", "refresh"}
    BY DEF Init
  <2>4. readyPeers \in Nat /\ round \in 1 .. 2 /\ traffic \in 0 .. MaxTraffic
    BY <2>1 DEF Init
  <2>5. /\ open \subseteq Pubs \cup Subs
        /\ wired \subseteq Conns \X Subs /\ refused \subseteq Conns \X Subs
        /\ known \subseteq Pubs /\ writable \subseteq Pubs /\ ready \subseteq Pubs
        /\ todo \subseteq Pubs /\ waiting \subseteq Pubs
    BY DEF Init
  <2>6. QED BY <2>2, <2>3, <2>4, <2>5 DEF TypeOK
<1>5. Followed
  BY <1>1, <1>2 DEF Init, Followed, SubscriptionsFollowPeers
<1>6. QED BY <1>3, <1>4, <1>5 DEF Init, Serving, Reported, FailuresAreReported

\* What the steps of the transport and of refresh have in common
Context ==
    /\ Bounded(queue) /\ lost \in BOOLEAN
    /\ status \in {"ok", "again", "error"} /\ ret \in {"ok", "again", "error"}
    /\ Len(queue) \in Nat /\ Bytes(queue) \in Nat

LEMMA ServingContext == Serving => Context
BY BytesFacts DEF Serving, Context, Bounded, TypeOK

\* queue_event and queue_error: a handler that fails queues an event about it,
\* and one that would fit an empty queue.
LEMMA QueueReports ==
    ASSUME Context, Reported, phase # "app",
           NEW events \in Seq(Event), NEW failure \in BOOLEAN,
           Queue(events, failure),
           failure => events # <<>>,
           queue = <<>> /\ events # <<>> =>
              \E i \in 1 .. Len(events) : events[i].size <= MaxBytes
    PROVE  /\ Bounded(queue') /\ lost' \in BOOLEAN /\ status' \in {"ok", "again", "error"}
           /\ lost' => status' = "error" /\ queue' # <<>>
<1>1. queue' = Fitting(events) /\ Bounded(queue')
  BY FittingFacts DEF Queue, Context
<1> DEFINE complete == Len(queue') = Len(queue) + Len(events)
<1>2. /\ status' = IF complete /\ ~failure THEN status ELSE "error"
      /\ lost' = (lost \/ (phase # "app" /\ (failure \/ ~complete)))
  BY DEF Queue
<1>3. status' \in {"ok", "again", "error"} /\ lost' \in BOOLEAN
  BY <1>2 DEF Context
<1>4. ASSUME lost' PROVE status' = "error"
  BY <1>2, <1>4 DEF Reported
<1>5. ASSUME lost', queue' = <<>> PROVE FALSE
  <2>1. queue = <<>> /\ \A i \in 1 .. Len(events) : events[i].size > MaxBytes
    BY <1>1, <1>5, FittingFacts DEF Context
  <2>2. ~lost
    BY <2>1 DEF Reported
  <2>3. events # <<>>
    <3>1. SUFFICES ASSUME events = <<>> PROVE FALSE
      OBVIOUS
    <3>2. complete /\ ~failure
      BY <1>5, <2>1, <3>1
    <3>3. QED BY <1>2, <1>5, <2>2, <3>2
  <2>4. PICK i \in 1 .. Len(events) : events[i].size <= MaxBytes
    BY <2>1, <2>3
  <2>5. events[i].size \in Nat /\ MaxBytes \in Nat
    <3>1. events[i] \in Event
      OBVIOUS
    <3>2. QED BY <3>1, EndpointAssumption DEF Event
  <2>6. QED BY <2>1, <2>4, <2>5
<1>6. QED BY <1>1, <1>3, <1>4, <1>5

\* Steps that leave the peers, the streams and their subscriptions alone
LEMMA SameFollowed ==
    ASSUME Followed, UNCHANGED <<peers, readyPeers, open, wired, refused>>
    PROVE  Followed'
<1>1. ReadyConns' = ReadyConns
  BY DEF ReadyConns
<1>2. QED BY <1>1 DEF Followed, SubscriptionsFollowPeers

LEMMA OneEvent ==
    ASSUME NEW e \in Event, e.size = 1
    PROVE  /\ <<e>> \in Seq(Event) /\ <<e>> # <<>> /\ <<>> \in Seq(Event)
           /\ \E i \in 1 .. Len(<<e>>) : <<e>>[i].size <= MaxBytes
<1>1. Len(<<e>>) = 1 /\ <<e>>[1] = e /\ 1 <= MaxBytes
  BY EndpointAssumption
<1>2. QED BY <1>1

LEMMA ErrorsTyped ==
    /\ Error \in Event /\ Error.size = 1
    /\ \A n \in Nat : Errors(n) \in Seq(Event)
    /\ \A c \in Conns, t \in {"ready", "rejected", "disconnected", "notice"} :
          Ev(t, c, 1) \in Event /\ Ev(t, c, 1).size = 1
    /\ \A s \in Pubs : Ev("writable", s, 1) \in Event /\ Ev("writable", s, 1).size = 1
    /\ \A c \in Conns, size \in Nat : Ev("record", c, size) \in Event
                                      /\ Ev("record", c, size).size = size
BY DEF Error, Errors, Ev, Event

\* The last of some events would fit an empty queue.
LEMMA LastEvent ==
    ASSUME NEW p \in Seq(Event), NEW e \in Event, e.size = 1
    PROVE  /\ p \o <<e>> \in Seq(Event) /\ p \o <<e>> # <<>>
           /\ \E i \in 1 .. Len(p \o <<e>>) : (p \o <<e>>)[i].size <= MaxBytes
<1> DEFINE q == p \o <<e>>
<1>1. q \in Seq(Event) /\ Len(q) = Len(p) + 1 /\ Len(p) \in Nat /\ q[Len(p) + 1] = e
  OBVIOUS
<1>2. 1 <= MaxBytes
  BY EndpointAssumption
<1>3. q # <<>> /\ Len(p) + 1 \in 1 .. Len(q)
  BY <1>1
<1>4. QED BY <1>1, <1>2, <1>3

-----------------------------------------------------------------------------
(* Steps *)

\* The types of everything but the queue and the statuses
Shape ==
    /\ active \in BOOLEAN
    /\ link \in [Conns -> {"down", "live", "closing"}]
    /\ peers \in [Conns -> {"absent", "known", "ready"}]
    /\ readyPeers \in Nat
    /\ open \subseteq Pubs \cup Subs
    /\ wired \subseteq Conns \X Subs /\ refused \subseteq Conns \X Subs
    /\ known \subseteq Pubs /\ writable \subseteq Pubs /\ ready \subseteq Pubs
    /\ todo \subseteq Pubs /\ waiting \subseteq Pubs
    /\ phase \in {"app", "tick", "refresh"} /\ round \in 1..2
    /\ traffic \in 0..MaxTraffic

LEMMA TypeShape == TypeOK => Shape
BY DEF TypeOK, Shape

\* A handler that queues events
LEMMA Served ==
    ASSUME Serving, phase # "app", phase' = phase, ret' = ret, Shape', Followed',
           NEW events \in Seq(Event), NEW failure \in BOOLEAN,
           Queue(events, failure),
           failure => events # <<>>,
           queue = <<>> /\ events # <<>> =>
              \E i \in 1 .. Len(events) : events[i].size <= MaxBytes
    PROVE  Serving'
<1>1. Context /\ Reported
  BY ServingContext DEF Serving
<1>2. /\ Bounded(queue') /\ lost' \in BOOLEAN /\ status' \in {"ok", "again", "error"}
      /\ lost' => status' = "error" /\ queue' # <<>>
  BY <1>1, QueueReports
<1>3. TypeOK'
  BY <1>1, <1>2 DEF TypeOK, Shape, Bounded, Context
<1>4. QED BY <1>2, <1>3 DEF Serving, Reported, FailuresAreReported, Bounded

\* Steps that leave the queue and the statuses alone
LEMMA Undisturbed ==
    ASSUME Serving, UNCHANGED <<queue, status, lost, ret, phase>>, Shape', Followed'
    PROVE  Serving'
<1>1. TypeOK'
  BY DEF Serving, TypeOK, Shape
<1>2. QED BY <1>1 DEF Serving, Reported, FailuresAreReported

LEMMA HandlingFacts ==
    ASSUME Serving, Handling
    PROVE  phase = "tick" /\ phase # "app" /\ traffic' \in 0 .. MaxTraffic /\ Shape
BY TypeShape, EndpointAssumption DEF Serving, Handling, Shape

LEMMA OnConnectedServes ==
    ASSUME Serving, NEW c \in Conns, NEW written \in BOOLEAN, OnConnected(c, written)
    PROVE  Serving'
<1> DEFINE failed == ~Listener /\ ~written
           events == IF failed THEN <<Error>> ELSE <<>>
<1>1. Handling /\ phase' = phase /\ ret' = ret
  BY DEF OnConnected
<1>2. /\ link' = [link EXCEPT ![c] = "live"]
      /\ peers' = [peers EXCEPT ![c] = IF @ = "absent" THEN "known" ELSE @]
      /\ Queue(events, failed)
      /\ UNCHANGED <<active, readyPeers, open, wired, known, writable, ready, round, todo,
                     waiting, refused>>
  BY DEF OnConnected
<1>3. Shape'
  BY <1>1, <1>2, HandlingFacts DEF Shape
<1>4. ReadyConns' = ReadyConns
  BY <1>1, <1>2, HandlingFacts DEF ReadyConns, Shape
<1>5. Followed'
  BY <1>2, <1>4 DEF Serving, Followed, SubscriptionsFollowPeers
<1>6. /\ events \in Seq(Event) /\ failed \in BOOLEAN /\ (failed => events # <<>>)
      /\ events # <<>> => \E i \in 1 .. Len(events) : events[i].size <= MaxBytes
  BY EndpointAssumption, ErrorsTyped, OneEvent
<1> HIDE DEF failed, events
<1>7. QED BY <1>1, <1>2, <1>3, <1>5, <1>6, HandlingFacts, Served

LEMMA MarkPeerReadyFollows ==
    ASSUME Shape, Followed, NEW c \in Conns, NEW fails, MarkPeerReady(c, fails),
           open' = open
    PROVE  /\ Followed'
           /\ peers' \in [Conns -> {"absent", "known", "ready"}] /\ readyPeers' \in Nat
           /\ wired' \subseteq Conns \X Subs /\ refused' \subseteq Conns \X Subs
<1>1. CASE peers[c] = "ready"
  BY <1>1, SameFollowed DEF MarkPeerReady, Shape
<1>2. CASE peers[c] # "ready"
  <2>1. /\ fails \subseteq open \cap Subs
        /\ peers' = [peers EXCEPT ![c] = "ready"] /\ readyPeers' = readyPeers + 1
        /\ wired' = wired \cup {<<c, s>> : s \in (open \cap Subs) \ fails}
        /\ refused' = refused \cup {<<c, s>> : s \in fails}
    BY <1>2 DEF MarkPeerReady
  <2>2. ReadyConns' = ReadyConns \cup {c} /\ c \notin ReadyConns
    BY <1>2, <2>1 DEF ReadyConns, Shape
  <2>3. IsFiniteSet(ReadyConns) /\ readyPeers = Cardinality(ReadyConns)
    BY DEF Followed, SubscriptionsFollowPeers
  <2>4. IsFiniteSet(ReadyConns \cup {c})
        /\ Cardinality(ReadyConns \cup {c}) = Cardinality(ReadyConns) + 1
    BY <2>2, <2>3, FS_AddElement
  <2>5. ASSUME NEW d \in ReadyConns', NEW s \in open' \cap Subs
        PROVE  <<d, s>> \in wired' \cup refused'
    <3>1. CASE d = c
      BY <2>1, <3>1
    <3>2. CASE d # c
      <4>1. d \in ReadyConns /\ s \in open \cap Subs
        BY <2>2, <2>5, <3>2
      <4>2. <<d, s>> \in wired \cup refused
        BY <4>1 DEF Followed, SubscriptionsFollowPeers
      <4>3. QED BY <2>1, <4>2
    <3>3. QED BY <3>1, <3>2
  <2>6. Followed'
    BY <2>1, <2>2, <2>3, <2>4, <2>5 DEF Followed, SubscriptionsFollowPeers
  <2>7. wired' \subseteq Conns \X Subs /\ refused' \subseteq Conns \X Subs
    BY <2>1 DEF Shape
  <2>8. QED BY <2>1, <2>6, <2>7 DEF Shape
<1>3. QED BY <1>1, <1>2

LEMMA OnAuthAcceptedServes ==
    ASSUME Serving, NEW c \in Conns, NEW fails \in SUBSET Subs, OnAuthAccepted(c, fails)
    PROVE  Serving'
<1>1. /\ Handling /\ phase' = phase /\ ret' = ret /\ MarkPeerReady(c, fails)
      /\ UNCHANGED <<active, link, open, known, writable, ready, round, todo, waiting>>
  BY DEF OnAuthAccepted
<1>2. Shape /\ Followed
  BY <1>1, HandlingFacts DEF Serving
<1>3. /\ Followed'
      /\ peers' \in [Conns -> {"absent", "known", "ready"}] /\ readyPeers' \in Nat
      /\ wired' \subseteq Conns \X Subs /\ refused' \subseteq Conns \X Subs
  BY <1>1, <1>2, MarkPeerReadyFollows
<1>4. Shape'
  BY <1>1, <1>2, <1>3, HandlingFacts DEF Shape
<1>5. CASE peers[c] = "ready"
  <2>1. Queue(<<>>, FALSE)
    BY <1>1, <1>5 DEF MarkPeerReady
  <2>2. <<>> \in Seq(Event) /\ ~(<<>> # <<>>) /\ FALSE \in BOOLEAN
    OBVIOUS
  <2>3. QED BY <1>1, <1>3, <1>4, <2>1, <2>2, HandlingFacts, Served
<1>6. CASE peers[c] # "ready"
  <2> DEFINE p == Errors(Cardinality(fails))
             e == Ev("ready", c, 1)
             failed == fails # {}
  <2>1. Queue(p \o <<e>>, failed) /\ fails \subseteq open
    BY <1>1, <1>6 DEF MarkPeerReady
  <2>2. Cardinality(fails) \in Nat
    BY <1>2, <2>1, FS_Subset, FS_CardinalityType DEF Followed
  <2>3. p \in Seq(Event) /\ e \in Event /\ e.size = 1 /\ failed \in BOOLEAN
    BY <2>2, ErrorsTyped
  <2> HIDE DEF p, e, failed
  <2>4. /\ p \o <<e>> \in Seq(Event) /\ p \o <<e>> # <<>>
        /\ \E i \in 1 .. Len(p \o <<e>>) : (p \o <<e>>)[i].size <= MaxBytes
    BY <2>3, LastEvent
  <2> DEFINE q == p \o <<e>>
  <2> HIDE DEF q
  <2>5. Queue(q, failed) /\ q \in Seq(Event) /\ q # <<>>
        /\ \E i \in 1 .. Len(q) : q[i].size <= MaxBytes
    BY <2>1, <2>4 DEF q
  <2>6. QED BY <1>1, <1>3, <1>4, <2>3, <2>5, HandlingFacts, Served
<1>7. QED BY <1>5, <1>6

LEMMA OnAuthRejectedServes ==
    ASSUME Serving, NEW c \in Conns, NEW answered \in BOOLEAN, OnAuthRejected(c, answered)
    PROVE  Serving'
<1> DEFINE e == IF answered THEN Ev("rejected", c, 1) ELSE Error
           events == IF answered THEN <<Ev("rejected", c, 1)>> ELSE <<Error>>
<1>1. /\ Handling /\ phase' = phase /\ ret' = ret
      /\ link' = IF answered /\ Listener THEN [link EXCEPT ![c] = "closing"] ELSE link
      /\ Queue(events, ~answered)
      /\ UNCHANGED <<active, peers, readyPeers, open, wired, known, writable, ready, round,
                     todo, waiting, refused>>
  BY DEF OnAuthRejected
<1>2. Shape'
  BY <1>1, HandlingFacts DEF Shape
<1>3. Followed'
  BY <1>1, SameFollowed DEF Serving
<1>4. e \in Event /\ e.size = 1 /\ events = <<e>>
  BY ErrorsTyped
<1> HIDE DEF e, events
<1>5. /\ events \in Seq(Event) /\ events # <<>> /\ (~answered) \in BOOLEAN
      /\ \E i \in 1 .. Len(events) : events[i].size <= MaxBytes
  BY <1>4, OneEvent
<1>6. QED BY <1>1, <1>2, <1>3, <1>5, HandlingFacts, Served

LEMMA OnDisconnectedServes ==
    ASSUME Serving, NEW c \in Conns, OnDisconnected(c)
    PROVE  Serving'
<1> DEFINE e == Ev("disconnected", c, 1)
           events == <<e>>
<1>1. /\ Handling /\ phase' = phase /\ ret' = ret
      /\ link' = [link EXCEPT ![c] = "down"]
      /\ peers' = [peers EXCEPT ![c] = "absent"]
      /\ readyPeers' = IF peers[c] = "ready" THEN readyPeers - 1 ELSE readyPeers
      /\ wired' = {w \in wired : w[1] # c} /\ refused' = {w \in refused : w[1] # c}
      /\ Queue(events, FALSE)
      /\ UNCHANGED <<active, open, known, writable, ready, round, todo, waiting>>
  BY DEF OnDisconnected
<1>2. Shape /\ Followed
  BY <1>1, HandlingFacts DEF Serving
<1>3. ReadyConns' = ReadyConns \ {c}
  BY <1>1, <1>2 DEF ReadyConns, Shape
<1>4. IsFiniteSet(ReadyConns) /\ readyPeers = Cardinality(ReadyConns)
  BY <1>2 DEF Followed, SubscriptionsFollowPeers
<1>5. IsFiniteSet(ReadyConns') /\ readyPeers' = Cardinality(ReadyConns') /\ readyPeers' \in Nat
  <2>1. CASE peers[c] = "ready"
    <3>1. c \in ReadyConns
      BY <2>1 DEF ReadyConns
    <3>2. IsFiniteSet(ReadyConns \ {c})
          /\ Cardinality(ReadyConns \ {c}) = Cardinality(ReadyConns) - 1
      BY <1>4, <3>1, FS_RemoveElement
    <3>3. Cardinality(ReadyConns \ {c}) \in Nat
      BY <3>2, FS_CardinalityType
    <3>4. QED BY <1>1, <1>3, <1>4, <2>1, <3>2, <3>3
  <2>2. CASE peers[c] # "ready"
    <3>1. ReadyConns' = ReadyConns
      BY <1>3, <2>2 DEF ReadyConns
    <3>2. QED BY <1>1, <1>2, <1>4, <2>2, <3>1 DEF Shape
  <2>3. QED BY <2>1, <2>2
<1>6. ASSUME NEW d \in ReadyConns', NEW s \in open' \cap Subs
      PROVE  <<d, s>> \in wired' \cup refused'
  <2>1. d \in ReadyConns /\ d # c /\ s \in open \cap Subs
    BY <1>1, <1>3, <1>6
  <2>2. <<d, s>> \in wired \cup refused /\ <<d, s>>[1] # c
    BY <1>2, <2>1 DEF Followed, SubscriptionsFollowPeers
  <2>3. QED BY <1>1, <2>2
<1>7. Followed'
  BY <1>1, <1>2, <1>5, <1>6 DEF Followed, SubscriptionsFollowPeers
<1>8. Shape'
  BY <1>1, <1>2, <1>5, HandlingFacts DEF Shape
<1>9. e \in Event /\ e.size = 1
  BY ErrorsTyped
<1> HIDE DEF e
<1>10. /\ events \in Seq(Event) /\ events # <<>>
       /\ \E i \in 1 .. Len(events) : events[i].size <= MaxBytes
  BY <1>9, OneEvent
<1> HIDE DEF events
<1>11. QED BY <1>1, <1>7, <1>8, <1>10, HandlingFacts, Served

LEMMA OnNoticeServes ==
    ASSUME Serving, NEW c \in Conns, OnNotice(c)
    PROVE  Serving'
<1> DEFINE e == Ev("notice", c, 1)
           events == <<e>>
<1>1. /\ Handling /\ phase' = phase /\ ret' = ret /\ Queue(events, FALSE)
      /\ UNCHANGED <<active, link, peers, readyPeers, open, wired, known, writable, ready,
                     round, todo, waiting, refused>>
  BY DEF OnNotice
<1>2. Shape'
  BY <1>1, HandlingFacts DEF Shape
<1>3. Followed'
  BY <1>1, SameFollowed DEF Serving
<1>4. e \in Event /\ e.size = 1
  BY ErrorsTyped
<1> HIDE DEF e
<1>5. /\ events \in Seq(Event) /\ events # <<>>
      /\ \E i \in 1 .. Len(events) : events[i].size <= MaxBytes
  BY <1>4, OneEvent
<1> HIDE DEF events
<1>6. QED BY <1>1, <1>2, <1>3, <1>5, HandlingFacts, Served

\* The records of an object that are queued fit, and fit an empty queue.
LEMMA RoomFacts ==
    ASSUME Context, NEW size \in Nat \ {0}, NEW m \in Nat
    PROVE  /\ Min({m, Room(size)}) \in 0 .. m
           /\ queue = <<>> /\ Min({m, Room(size)}) # 0 => size <= MaxBytes
<1> DEFINE slots == MaxEvents - Len(queue)
           space == (MaxBytes - Bytes(queue)) \div size
<1>1. MaxEvents \in Nat /\ MaxBytes \in Nat /\ Len(queue) \in Nat /\ Bytes(queue) \in Nat
  BY EndpointAssumption DEF Context
<1>2. Len(queue) <= MaxEvents /\ Bytes(queue) <= MaxBytes
  BY DEF Context, Bounded
<1>3. slots \in Nat /\ MaxBytes - Bytes(queue) \in Nat
  BY <1>1, <1>2
<1>4. \A a \in Nat, b \in Nat \ {0} : a \div b \in Nat /\ (a < b => a \div b = 0)
  OBVIOUS
<1>5. space \in Nat
  BY <1>3, <1>4
<1>6. Room(size) = IF slots < space THEN slots ELSE space
  BY DEF Room
<1>7. ASSUME queue = <<>>, MaxBytes < size PROVE Room(size) = 0
  <2>1. Bytes(queue) = 0
    BY <1>7, BytesFacts
  <2>2. space = 0
    BY <1>1, <1>4, <1>7, <2>1
  <2>3. QED BY <1>3, <1>6, <2>2
<1>8. Room(size) \in Nat
  BY <1>3, <1>5, <1>6
<1> HIDE DEF slots, space
<1>9. \A a, b \in Nat : Min({a, b}) \in 0 .. a /\ Min({a, b}) <= b
  <2> SUFFICES ASSUME NEW a \in Nat, NEW b \in Nat
               PROVE  Min({a, b}) \in 0 .. a /\ Min({a, b}) <= b
    OBVIOUS
  <2>1. \E x \in {a, b} : \A y \in {a, b} : x <= y
    BY (IF a <= b THEN a ELSE b) \in {a, b}
  <2>2. Min({a, b}) \in {a, b} /\ \A y \in {a, b} : Min({a, b}) <= y
    BY <2>1 DEF Min
  <2>3. QED BY <2>2
<1>10. Min({m, Room(size)}) \in 0 .. m /\ Min({m, Room(size)}) <= Room(size)
  BY <1>8, <1>9
<1>11. ASSUME queue = <<>>, Min({m, Room(size)}) # 0 PROVE size <= MaxBytes
  <2>1. Room(size) # 0
    BY <1>8, <1>10, <1>11
  <2>2. QED BY <1>1, <1>7, <1>11, <2>1
<1>12. QED BY <1>10, <1>11

LEMMA OnObjectServes ==
    ASSUME Serving, NEW c \in Conns, NEW s \in Subs, NEW n \in 1 .. MaxGroup,
           NEW size \in Payloads, NEW malformed \in BOOLEAN,
           OnObject(c, s, n, size, malformed)
    PROVE  Serving'
<1> DEFINE records == IF s \in open THEN [i \in 1 .. n |-> Ev("record", c, size)] ELSE <<>>
           fits == Min({Len(records), Room(size)})
           rejected == fits < Len(records)
           failed == rejected \/ malformed
           p == SubSeq(records, 1, fits)
           events == p \o (IF failed THEN <<Error>> ELSE <<>>)
<1>1. /\ Handling /\ phase' = phase /\ ret' = ret /\ Queue(events, failed)
      /\ link' = IF rejected /\ s \notin Lossy THEN [link EXCEPT ![c] = "closing"] ELSE link
      /\ UNCHANGED <<active, peers, readyPeers, open, wired, known, writable, ready, round,
                     todo, waiting, refused>>
  BY DEF OnObject
<1>2. Shape'
  <2>1. link' \in [Conns -> {"down", "live", "closing"}]
    BY <1>1, HandlingFacts DEF Shape
  <2>2. QED BY <1>1, <2>1, HandlingFacts DEF Shape
<1>3. Followed'
  BY <1>1, SameFollowed DEF Serving
<1>4. Context
  BY ServingContext
<1>5. n \in Nat /\ size \in Nat \ {0} /\ size \in Nat
  BY EndpointAssumption
<1>6. /\ records \in Seq(Event) /\ Len(records) \in Nat
      /\ \A i \in 1 .. Len(records) : records[i].size = size
  <2>1. Ev("record", c, size) \in Event /\ Ev("record", c, size).size = size
    BY <1>5, ErrorsTyped
  <2>2. [i \in 1 .. n |-> Ev("record", c, size)] \in Seq(Event)
    BY <1>5, <2>1
  <2>3. QED BY <1>5, <2>1, <2>2
<1> HIDE DEF records
<1>7. fits \in 0 .. Len(records) /\ (queue = <<>> /\ fits # 0 => size <= MaxBytes)
  BY <1>4, <1>5, <1>6, RoomFacts
<1> HIDE DEF fits
<1>8. /\ p \in Seq(Event) /\ Len(p) = fits
      /\ \A i \in 1 .. Len(p) : p[i] = records[i]
  BY <1>6, <1>7
<1>9. \A i \in 1 .. Len(p) : p[i].size = size
  BY <1>6, <1>7, <1>8
<1> HIDE DEF p
<1>10. failed \in BOOLEAN
  OBVIOUS
<1> HIDE DEF rejected
<1>11. CASE failed
  <2>1. events = p \o <<Error>>
    BY <1>11
  <2>2. Error \in Event /\ Error.size = 1
    BY ErrorsTyped
  <2>3. events \in Seq(Event) /\ events # <<>>
        /\ \E i \in 1 .. Len(events) : events[i].size <= MaxBytes
    BY <1>8, <2>1, <2>2, LastEvent
  <2> HIDE DEF events, failed
  <2>4. QED BY <1>1, <1>2, <1>3, <1>10, <2>3, HandlingFacts, Served
<1>12. CASE ~failed
  <2>1. events = p
    BY <1>8, <1>12
  <2>2. ASSUME queue = <<>>, events # <<>>
        PROVE  \E i \in 1 .. Len(events) : events[i].size <= MaxBytes
    <3>1. fits # 0 /\ 1 \in 1 .. Len(p)
      BY <1>7, <1>8, <2>1, <2>2
    <3>2. p[1].size <= MaxBytes
      BY <1>7, <1>9, <2>2, <3>1
    <3>3. QED BY <2>1, <3>1, <3>2
  <2>3. events \in Seq(Event)
    BY <1>8, <2>1
  <2> HIDE DEF events, failed
  <2>4. QED BY <1>1, <1>2, <1>3, <1>10, <1>12, <2>2, <2>3, HandlingFacts, Served
<1>13. QED BY <1>11, <1>12

LEMMA RefreshServes ==
    ASSUME Serving, NEW s \in Pubs, Refresh(s)
    PROVE  Serving'
<1> DEFINE became == s \in ready /\ ~(s \in known /\ s \in writable)
           e == Ev("writable", s, 1)
           events == IF became THEN <<e>> ELSE <<>>
<1>1. /\ phase = "refresh" /\ phase' = phase /\ ret' = ret /\ Queue(events, FALSE)
      /\ todo' = todo \ {s}
      /\ known' = IF became /\ Room(1) = 0 THEN known \ {s} ELSE known \cup {s}
      /\ writable' = IF s \in ready THEN writable \cup {s} ELSE writable \ {s}
      /\ UNCHANGED <<active, link, peers, readyPeers, open, wired, ready, round, traffic,
                     waiting, refused>>
  BY DEF Refresh
<1>2. Shape
  BY TypeShape DEF Serving
<1>3. Shape'
  <2>1. known' \subseteq Pubs /\ writable' \subseteq Pubs /\ todo' \subseteq Pubs
    BY <1>1, <1>2 DEF Shape
  <2>2. QED BY <1>1, <1>2, <2>1 DEF Shape
<1>4. Followed'
  BY <1>1, SameFollowed DEF Serving
<1>5. e \in Event /\ e.size = 1
  BY ErrorsTyped
<1> HIDE DEF became, e
<1>6. /\ events \in Seq(Event)
      /\ events # <<>> => \E i \in 1 .. Len(events) : events[i].size <= MaxBytes
  BY <1>5, OneEvent
<1>7. phase # "app"
  BY <1>1
<1> HIDE DEF events
<1>8. QED BY <1>1, <1>3, <1>4, <1>6, <1>7, Served

\* Outside a service call only the status of the last one counts.
LEMMA BetweenCalls ==
    ASSUME Serving, phase = "app", phase' = "app", ret' = ret, lost' = lost,
           status' \in {"ok", "again", "error"}, Bounded(queue'), Shape', Followed'
    PROVE  Serving'
<1>1. Context
  BY ServingContext
<1>2. TypeOK'
  BY <1>1 DEF Context, TypeOK, Shape, Bounded
<1>3. QED BY <1>2 DEF Serving, Reported, FailuresAreReported, Bounded

LEMMA OpenStreamServes ==
    ASSUME Serving, NEW s \in Pubs \cup Subs, NEW fails \in SUBSET Conns,
           OpenStream(s, fails)
    PROVE  Serving'
<1> DEFINE events == Errors(Cardinality(fails))
<1>1. /\ phase = "app" /\ phase' = phase /\ ret' = ret /\ lost' = lost /\ s \notin open
      /\ traffic < MaxTraffic /\ traffic' = traffic + 1
      /\ fails \subseteq (IF s \in Subs THEN ReadyConns ELSE {})
      /\ open' = open \cup {s}
      /\ queue' = Fitting(events)
      /\ status' = IF fails = {} THEN "ok" ELSE "error"
      /\ known' = known \ {s} /\ writable' = writable \ {s} /\ waiting' = waiting \ {s}
      /\ UNCHANGED <<active, link, peers, readyPeers, ready, round, todo>>
  BY DEF OpenStream, Calling
<1>2. IF s \in Subs
      THEN /\ wired' = wired \cup {<<c, s>> : c \in ReadyConns \ fails}
           /\ refused' = (refused \ {<<c, s>> : c \in ReadyConns \ fails})
                           \cup {<<c, s>> : c \in fails}
      ELSE wired' = wired /\ refused' = refused
  BY DEF OpenStream
<1>3. Shape /\ Followed /\ Context
  BY TypeShape, ServingContext DEF Serving
<1>4. ReadyConns \subseteq Conns /\ IsFiniteSet(ReadyConns) /\ ReadyConns' = ReadyConns
  BY <1>1, <1>3 DEF ReadyConns, Followed
<1>5. Cardinality(fails) \in Nat
  BY <1>1, <1>4, FS_Subset, FS_EmptySet, FS_CardinalityType
<1>6. Bounded(queue')
  <2>1. events \in Seq(Event)
    BY <1>5, ErrorsTyped
  <2>2. QED BY <1>1, <1>3, <2>1, FittingFacts DEF Context
<1>7. wired' \subseteq Conns \X Subs /\ refused' \subseteq Conns \X Subs
  BY <1>1, <1>2, <1>3, <1>4 DEF Shape
<1>8. Shape'
  <2>1. traffic' \in 0 .. MaxTraffic
    BY <1>1, <1>3, EndpointAssumption DEF Shape
  <2>2. open' \subseteq Pubs \cup Subs
    BY <1>1, <1>3 DEF Shape
  <2>3. known' \subseteq Pubs /\ writable' \subseteq Pubs /\ waiting' \subseteq Pubs
    BY <1>1, <1>3 DEF Shape
  <2>4. QED BY <1>1, <1>3, <1>7, <2>1, <2>2, <2>3 DEF Shape
<1>9. ASSUME NEW d \in ReadyConns', NEW t \in open' \cap Subs
      PROVE  <<d, t>> \in wired' \cup refused'
  <2>1. CASE t = s
    BY <1>1, <1>2, <1>4, <2>1
  <2>2. CASE t # s
    <3>1. <<d, t>> \in wired \cup refused
      BY <1>1, <1>3, <1>4, <2>2 DEF Followed, SubscriptionsFollowPeers
    <3>2. QED BY <1>2, <2>2, <3>1
  <2>3. QED BY <2>1, <2>2
<1>10. IsFiniteSet(open')
  BY <1>1, <1>3, FS_AddElement DEF Followed
<1>11. Followed'
  BY <1>1, <1>3, <1>4, <1>9, <1>10 DEF Followed, SubscriptionsFollowPeers
<1>12. status' \in {"ok", "again", "error"} /\ phase' = "app"
  BY <1>1
<1>13. QED BY <1>1, <1>6, <1>8, <1>11, <1>12, BetweenCalls

LEMMA CloseStreamServes ==
    ASSUME Serving, NEW s \in Pubs \cup Subs, NEW kept \in SUBSET (Conns \X Subs),
           CloseStream(s, kept)
    PROVE  Serving'
<1>1. /\ UNCHANGED <<queue, status, lost, ret, phase>>
      /\ kept \subseteq {w \in wired : w[2] = s}
      /\ open' = open \ {s}
      /\ wired' = {w \in wired : w[2] # s} \cup kept
      /\ refused' = {w \in refused : w[2] # s}
      /\ waiting' = waiting \ {s}
      /\ UNCHANGED <<active, link, peers, readyPeers, known, writable, ready, round, todo,
                     traffic>>
  BY DEF CloseStream
<1>2. Shape /\ Followed
  BY TypeShape DEF Serving
<1>3. Shape'
  BY <1>1, <1>2 DEF Shape
<1>4. ReadyConns' = ReadyConns
  BY <1>1 DEF ReadyConns
<1>5. ASSUME NEW d \in ReadyConns', NEW t \in open' \cap Subs
      PROVE  <<d, t>> \in wired' \cup refused'
  <2>1. t # s /\ t \in open \cap Subs /\ <<d, t>>[2] = t
    BY <1>1
  <2>2. <<d, t>> \in wired \cup refused
    BY <1>2, <1>4, <2>1 DEF Followed, SubscriptionsFollowPeers
  <2>3. QED BY <1>1, <2>1, <2>2
<1>6. IsFiniteSet(open')
  BY <1>1, <1>2, FS_Subset DEF Followed
<1>7. Followed'
  BY <1>1, <1>2, <1>4, <1>5, <1>6 DEF Followed, SubscriptionsFollowPeers
<1>8. QED BY <1>1, <1>3, <1>7, Undisturbed

LEMMA CloseEndpointServes ==
    ASSUME Serving, CloseEndpoint
    PROVE  Serving'
<1>1. /\ UNCHANGED <<queue, status, lost, ret, phase>>
      /\ active' = FALSE /\ open' = {}
      /\ link' = [c \in Conns |-> "down"] /\ wired' = {} /\ refused' = {}
      /\ peers' = [c \in Conns |-> "absent"] /\ readyPeers' = 0
      /\ waiting' = {}
      /\ UNCHANGED <<known, writable, ready, round, todo, traffic>>
  BY DEF CloseEndpoint
<1>2. Shape
  BY TypeShape DEF Serving
<1>3. Shape'
  BY <1>1, <1>2 DEF Shape
<1>4. ReadyConns' = {} /\ IsFiniteSet({}) /\ Cardinality({}) = 0
  BY <1>1, FS_EmptySet DEF ReadyConns
<1>5. Followed'
  BY <1>1, <1>4 DEF Followed, SubscriptionsFollowPeers
<1>6. QED BY <1>1, <1>3, <1>5, Undisturbed

LEMMA NextEventServes ==
    ASSUME Serving, NextEvent
    PROVE  Serving'
<1>1. /\ phase = "app" /\ queue # <<>> /\ queue' = Tail(queue)
      /\ waiting' = IF Head(queue).type = "writable" THEN waiting \ {Head(queue).of} ELSE waiting
      /\ UNCHANGED <<active, link, peers, readyPeers, open, wired, known, writable, ready,
                     status, phase, round, todo, traffic, refused, lost, ret>>
  BY DEF NextEvent
<1>2. Shape /\ Context
  BY TypeShape, ServingContext DEF Serving
<1>3. Shape'
  BY <1>1, <1>2 DEF Shape
<1>4. Followed'
  BY <1>1, SameFollowed DEF Serving
<1>5. Bounded(queue')
  <2>1. queue \in Seq(Event) /\ Len(queue) <= MaxEvents /\ Bytes(queue) <= MaxBytes
    BY <1>2 DEF Context, Bounded
  <2>2. Tail(queue) \in Seq(Event) /\ Bytes(Tail(queue)) <= Bytes(queue)
    BY <1>1, <2>1, BytesFacts
  <2>3. Bytes(Tail(queue)) \in Nat /\ Bytes(queue) \in Nat /\ MaxBytes \in Nat
        /\ MaxEvents \in Nat
    BY <2>1, <2>2, BytesFacts, EndpointAssumption
  <2>4. Len(Tail(queue)) <= MaxEvents
    BY <1>1, <2>1, <2>3
  <2>5. Bytes(Tail(queue)) <= MaxBytes
    BY <2>1, <2>2, <2>3
  <2>6. QED BY <1>1, <2>2, <2>4, <2>5 DEF Bounded
<1>6. status' \in {"ok", "again", "error"} /\ phase' = "app"
  BY <1>1, <1>2 DEF Context
<1>7. QED BY <1>1, <1>3, <1>4, <1>5, <1>6, BetweenCalls

\* A service call starts without a failure of its own.  It ends in AGAIN only
\* with an empty queue, so without one.
LEMMA ServiceServes ==
    ASSUME Serving,
           \/ ServicePending \/ ServiceBegin \/ TickEnd
           \/ \E wakes \in BOOLEAN : ServiceEnd(wakes)
    PROVE  Serving'
<1>1. UNCHANGED <<active, link, peers, readyPeers, open, wired, known, writable, ready,
                  queue, traffic, waiting, refused>>
  BY DEF ServicePending, ServiceBegin, TickEnd, ServiceEnd
<1>2. Shape /\ Context /\ Reported /\ queue \in Seq(Event)
  BY TypeShape, ServingContext DEF Serving
<1>3. Shape'
  <2>1. phase' \in {"app", "tick", "refresh"} /\ round' \in 1 .. 2 /\ todo' \subseteq Pubs
    BY <1>2 DEF ServicePending, ServiceBegin, TickEnd, ServiceEnd, Shape
  <2>2. QED BY <1>1, <1>2, <2>1 DEF Shape
<1>4. Followed'
  BY <1>1, SameFollowed DEF Serving
<1>5. /\ status' \in {"ok", "again", "error"} /\ ret' \in {"ok", "again", "error"}
      /\ lost' \in BOOLEAN
  BY <1>2 DEF ServicePending, ServiceBegin, TickEnd, ServiceEnd, Context
<1>6. Reported'
  <2>1. CASE ServicePending \/ ServiceBegin
    BY <2>1 DEF ServicePending, ServiceBegin, Reported, FailuresAreReported
  <2>2. CASE TickEnd
    BY <1>2, <2>2 DEF TickEnd, Reported, FailuresAreReported
  <2>3. CASE \E wakes \in BOOLEAN : ServiceEnd(wakes)
    BY <1>2, <2>3 DEF ServiceEnd, Reported, FailuresAreReported
  <2>4. QED BY <2>1, <2>2, <2>3
<1>7. TypeOK'
  BY <1>1, <1>2, <1>3, <1>5 DEF TypeOK, Shape, Context, Bounded
<1>8. QED BY <1>1, <1>2, <1>4, <1>6, <1>7 DEF Serving

LEMMA ServingStep == Serving /\ [Next]_vars => Serving'
<1> SUFFICES ASSUME Serving, [Next]_vars PROVE Serving'
  OBVIOUS
<1>1. Shape /\ Followed
  BY TypeShape DEF Serving
<1>2. ASSUME NEW c \in Conns, TransportEvent(c) PROVE Serving'
  BY <1>2, OnConnectedServes, OnAuthRejectedServes, OnAuthAcceptedServes,
     OnDisconnectedServes, OnNoticeServes, OnObjectServes DEF TransportEvent
<1>3. ASSUME NEW s \in Pubs, Readiness(s) \/ SendBlocked(s) PROVE Serving'
  <2>1. UNCHANGED <<queue, status, lost, ret, phase>>
    BY <1>3 DEF Readiness, SendBlocked
  <2>2. Shape'
    BY <1>1, <1>3 DEF Shape, Readiness, SendBlocked
  <2>3. Followed'
    BY <1>1, <1>3, SameFollowed DEF Readiness, SendBlocked
  <2>4. QED BY <2>1, <2>2, <2>3, Undisturbed
<1>4. CASE UNCHANGED vars
  <2>1. UNCHANGED <<queue, status, lost, ret, phase>> /\ Shape'
    BY <1>1, <1>4 DEF vars, Shape
  <2>2. Followed'
    BY <1>1, <1>4, SameFollowed DEF vars
  <2>3. QED BY <2>1, <2>2, Undisturbed
<1>5. QED
  BY <1>2, <1>3, <1>4, RefreshServes, OpenStreamServes, CloseStreamServes,
     CloseEndpointServes, NextEventServes, ServiceServes DEF Next

-----------------------------------------------------------------------------
(* Theorems *)

\* The inductive invariant holds for every size of the queue, every set of
\* peers and streams.
THEOREM ServingHolds == Spec => []Serving
<1>1. Init => Serving
  BY ServingInit
<1>2. Serving /\ [Next]_vars => Serving'
  BY ServingStep
<1>3. QED BY <1>1, <1>2, PTL DEF Spec

\* A service call returns an error whenever something in it failed or an event
\* was lost, whatever else it returns: on_transport_event keeps last_status, and
\* the handler that fails queues an error event, so that the call does not go on
\* to wait and end in AGAIN.
THEOREM FailuresAlwaysReported == Spec => []FailuresAreReported
<1>1. Serving => FailuresAreReported
  BY DEF Serving, Reported
<1>2. QED BY <1>1, ServingHolds, PTL

\* Peers and streams come and go in any order: every ready peer carries every
\* open subscription that the transport did not refuse (mark_peer_ready and
\* qlinq_stream_open each cover what the other found), and ready_peers counts
\* the ready peers.
THEOREM SubscriptionsAlwaysFollow == Spec => []SubscriptionsFollowPeers
<1>1. Serving => SubscriptionsFollowPeers
  BY DEF Serving, Followed
<1>2. QED BY <1>1, ServingHolds, PTL

\* TypeOK: whatever calls, peers and failures come in, queue_event keeps the
\* events and their bytes within max_events and max_event_bytes, and the other
\* state of the endpoint stays in its sets.
THEOREM EndpointTypesHold == Spec => []TypeOK
<1>1. Serving => TypeOK
  BY DEF Serving
<1>2. QED BY <1>1, ServingHolds, PTL

-----------------------------------------------------------------------------
(* Session: what the two ends have said *)

\* One end of a connection
End == [st: {"none", "open", "closing"}, quic: BOOLEAN, sent: BOOLEAN, rcvd: BOOLEAN,
        connected: BOOLEAN, auth: BOOLEAN]

\* Without faults, a client says HELLO when QUIC is ready and asks for
\* authentication when it has the server's HELLO.
ClientInStep(c) ==
    /\ c \in End
    /\ c.quic = c.sent /\ c.connected = c.rcvd
    /\ c.rcvd => c.sent
    /\ c.auth => c.rcvd

\* A server answers the client's HELLO first.
ServerInStep(s) == (s.rcvd => s.sent) /\ (s.auth => s.rcvd)

\* What the client said before it subscribes, and the server has not taken yet
Unheard(c, s) ==
    IF c.sent /\ ~s.rcvd
    THEN IF c.rcvd THEN <<"HELLO", "AUTH_REQUEST">> ELSE <<"HELLO">>
    ELSE IF c.rcvd /\ ~s.auth THEN <<"AUTH_REQUEST">> ELSE <<>>

\* ... and the other way round
Unseen(s, c) ==
    IF s.sent /\ ~c.rcvd THEN <<"HELLO">>
    ELSE IF s.auth /\ ~c.auth THEN <<"ACCEPTED">> ELSE <<>>

\* The two ends of the client's connection
Agree(c, s, up, down) ==
    /\ s.sent => c.sent
    /\ c.rcvd => s.sent
    /\ s.auth => c.rcvd
    /\ c.auth => s.auth
    /\ ~c.auth => up = Unheard(c, s)
    /\ down = Unseen(s, c)

\* What may still reach a connection of the server, whatever became of its client
Expected(s) ==
    IF ~s.rcvd THEN {<<>>, <<"HELLO">>, <<"HELLO", "AUTH_REQUEST">>}
    ELSE IF ~s.auth THEN {<<>>, <<"AUTH_REQUEST">>}
    ELSE {<<>>, <<"SUBSCRIBE">>}

\* ... and a client, whatever became of the server's end
ExpectedBack(c) ==
    IF c.sent /\ ~c.rcvd THEN {<<>>, <<"HELLO">>}
    ELSE IF c.rcvd /\ ~c.auth THEN {<<>>, <<"ACCEPTED">>} ELSE {<<>>}

\* One connection: whether it is the client's, the client, the server's end and
\* the two channels
Fits(mine, c, s, up, down) ==
    /\ s.st = "open" => ServerInStep(s) /\ up \in Expected(s)
    /\ s.st = "none" /\ (~mine \/ ~c.sent) => up = <<>> /\ down = <<>>
    /\ mine => down \in ExpectedBack(c)
    /\ mine /\ s.st = "open" => Agree(c, s, up, down)

\* The variables have their types.
Ends ==
    /\ cid \in Ids \cup {0} /\ (cid = 0) = (client.st = "none")
    /\ ClientInStep(client) /\ server \in [Ids -> End]
    /\ DOMAIN toServer = Ids /\ DOMAIN toClient = Ids

\* What holds while nothing went wrong around the two programs
Orderly ==
    /\ errors = {}
    /\ Ends
    /\ Cardinality(Held) <= MaxConnections
    /\ \A i \in Ids : Fits(cid = i, client, server[i], toServer[i], toClient[i])

\* The inductive invariant: faults are counted for good.
OrderlyUntilFault == faults \in Nat /\ (faults = 0 => Orderly)

\* Orderly of the next state, spelled out
LEMMA OrderlyNext ==
    Orderly' <=>
      /\ errors' = {}
      /\ /\ cid' \in Ids \cup {0} /\ (cid' = 0) = (client'.st = "none")
         /\ ClientInStep(client') /\ server' \in [Ids -> End]
         /\ DOMAIN toServer' = Ids /\ DOMAIN toClient' = Ids
      /\ Cardinality(Held') <= MaxConnections
      /\ \A i \in Ids : Fits(cid' = i, client', server'[i], toServer'[i], toClient'[i])
BY DEF Orderly, Ends, Ids, End, ClientInStep, Fits, Agree, Unheard, Unseen, Expected,
       ExpectedBack, ServerInStep

-----------------------------------------------------------------------------
(* Session: one connection *)

\* Frames on an empty or short channel
LEMMA Words ==
    /\ <<>> \o <<"HELLO">> \o <<>> = <<"HELLO">>
    /\ <<>> \o <<>> \o <<"AUTH_REQUEST">> = <<"AUTH_REQUEST">>
    /\ <<"HELLO">> \o <<>> \o <<"AUTH_REQUEST">> = <<"HELLO", "AUTH_REQUEST">>
    /\ Append(<<>>, "HELLO") = <<"HELLO">>
    /\ Append(<<>>, "ACCEPTED") = <<"ACCEPTED">>
    /\ Append(<<>>, "SUBSCRIBE") = <<"SUBSCRIBE">>
    /\ \A f : Tail(<<f>>) = <<>> /\ Head(<<f>>) = f /\ <<f>> # <<>>
    /\ Tail(<<"HELLO", "AUTH_REQUEST">>) = <<"AUTH_REQUEST">>
    /\ Head(<<"HELLO", "AUTH_REQUEST">>) = "HELLO"
<1>1. <<>> \o <<"HELLO">> \o <<>> = <<"HELLO">>
  OBVIOUS
<1>2. <<>> \o <<>> \o <<"AUTH_REQUEST">> = <<"AUTH_REQUEST">>
  OBVIOUS
<1>3. <<"HELLO">> \o <<>> \o <<"AUTH_REQUEST">> = <<"HELLO", "AUTH_REQUEST">>
  <2>1. <<"HELLO">> \in Seq(Frames)
    BY DEF Frames
  <2>2. <<"HELLO">> \o <<>> = <<"HELLO">>
    BY <2>1, ConcatEmptySeq
  <2>3. <<"HELLO">> \o <<"AUTH_REQUEST">> = <<"HELLO", "AUTH_REQUEST">>
    <3> PICK p, q, both : /\ p = <<"HELLO">> /\ q = <<"AUTH_REQUEST">>
                          /\ both = <<"HELLO", "AUTH_REQUEST">>
      OBVIOUS
    <3>1. /\ p \in Seq(Frames) /\ Len(p) = 1 /\ p[1] = "HELLO"
          /\ q \in Seq(Frames) /\ Len(q) = 1 /\ q[1] = "AUTH_REQUEST"
      BY DEF Frames
    <3>2. /\ both \in Seq(Frames) /\ Len(both) = 2
          /\ both[1] = "HELLO" /\ both[2] = "AUTH_REQUEST"
      BY DEF Frames
    <3>3. /\ p \o q \in Seq(Frames) /\ Len(p \o q) = Len(p) + Len(q)
          /\ \A i \in 1..Len(p) + Len(q) :
               (p \o q)[i] = IF i <= Len(p) THEN p[i] ELSE q[i - Len(p)]
      BY <3>1, ConcatProperties
    <3>4. Len(p \o q) = Len(both) /\ \A i \in 1..Len(p \o q) : (p \o q)[i] = both[i]
      <4>1. 1 \in 1..2 /\ 2 \in 1..2 /\ \A i \in 1..2 : i = 1 \/ i = 2
        OBVIOUS
      <4>2. (p \o q)[1] = both[1] /\ (p \o q)[2] = both[2]
        BY <3>1, <3>2, <3>3, <4>1
      <4>3. Len(p \o q) = 2
        BY <3>1, <3>3
      <4>4. QED BY <3>2, <4>1, <4>2, <4>3
    <3>5. p \o q = both
      BY <3>2, <3>3, <3>4, SeqEqual
    <3>6. QED BY <3>5
  <2>4. QED BY <2>2, <2>3
<1>4. /\ Append(<<>>, "HELLO") = <<"HELLO">>
      /\ Append(<<>>, "ACCEPTED") = <<"ACCEPTED">>
      /\ Append(<<>>, "SUBSCRIBE") = <<"SUBSCRIBE">>
  OBVIOUS
<1>5. \A f : Tail(<<f>>) = <<>>
  OBVIOUS
<1>6. \A f : Head(<<f>>) = f /\ <<f>> # <<>>
  OBVIOUS
<1>7. Tail(<<"HELLO", "AUTH_REQUEST">>) = <<"AUTH_REQUEST">>
  OBVIOUS
<1>8. Head(<<"HELLO", "AUTH_REQUEST">>) = "HELLO"
  OBVIOUS
<1>9. QED BY <1>1, <1>2, <1>3, <1>4, <1>5, <1>6, <1>7, <1>8

\* The client sends HELLO.
LEMMA SaysHello ==
    ASSUME NEW c, NEW s \in End, NEW up, NEW down, ClientInStep(c),
           s.st = "open", ~c.sent, Fits(TRUE, c, s, up, down)
    PROVE  /\ ClientInStep([c EXCEPT !.quic = TRUE, !.sent = TRUE])
           /\ Fits(TRUE, [c EXCEPT !.quic = TRUE, !.sent = TRUE], s,
                   up \o <<"HELLO">> \o <<>>, down)
<1> DEFINE d == [c EXCEPT !.quic = TRUE, !.sent = TRUE]
<1>1. /\ d.sent /\ d.quic /\ d.rcvd = c.rcvd /\ d.auth = c.auth /\ d.connected = c.connected
      /\ d \in End
  BY DEF ClientInStep, End
<1>2. ~c.rcvd /\ ~c.auth
  BY DEF ClientInStep
<1>3. up = <<>> /\ down = <<>> /\ ~s.rcvd /\ ~s.auth /\ ~s.sent /\ ServerInStep(s)
  BY <1>2 DEF Fits, Agree, Unheard, Unseen, ServerInStep
<1>4. up \o <<"HELLO">> \o <<>> = <<"HELLO">>
  BY <1>3, Words
<1> HIDE DEF d
<1>5. ClientInStep(d)
  BY <1>1, <1>2 DEF ClientInStep
<1>6. Fits(TRUE, d, s, <<"HELLO">>, down)
  BY <1>1, <1>2, <1>3 DEF Fits, Agree, Unheard, Unseen, Expected, ExpectedBack
<1>7. QED BY <1>4, <1>5, <1>6 DEF d

\* The client takes HELLO and asks for authentication.
LEMMA TakesHelloBack ==
    ASSUME NEW c, NEW s \in End, NEW up, NEW down, ClientInStep(c),
           down # <<>>, Head(down) = "HELLO", Fits(TRUE, c, s, up, down)
    PROVE  /\ ~c.rcvd /\ c.sent /\ c.quic /\ ~c.connected
           /\ ClientInStep([c EXCEPT !.rcvd = TRUE, !.sent = TRUE, !.connected = TRUE])
           /\ Fits(TRUE, [c EXCEPT !.rcvd = TRUE, !.sent = TRUE, !.connected = TRUE], s,
                   up \o <<>> \o <<"AUTH_REQUEST">>, Tail(down))
<1> DEFINE d == [c EXCEPT !.rcvd = TRUE, !.sent = TRUE, !.connected = TRUE]
<1>1. /\ d.sent /\ d.rcvd /\ d.connected /\ d.auth = c.auth /\ d.quic = c.quic
      /\ d \in End
  BY DEF ClientInStep, End
<1>2. ~c.rcvd /\ c.sent /\ down = <<"HELLO">>
  BY Words DEF Fits, ExpectedBack, ClientInStep
<1>3. c.quic /\ ~c.connected /\ ~c.auth /\ Tail(down) = <<>>
  BY <1>2, Words DEF ClientInStep
<1> HIDE DEF d
<1>4. ClientInStep(d)
  BY <1>1, <1>2, <1>3 DEF ClientInStep
<1>5. Fits(TRUE, d, s, up \o <<>> \o <<"AUTH_REQUEST">>, <<>>)
  <2>1. s.st # "open" => Fits(TRUE, d, s, up \o <<>> \o <<"AUTH_REQUEST">>, <<>>)
    BY <1>1, <1>3 DEF Fits, ExpectedBack
  <2>2. CASE s.st = "open"
    <3>1. ServerInStep(s) /\ Agree(c, s, up, down)
      BY <2>2 DEF Fits
    <3>2. s.sent /\ ~s.auth /\ up = IF s.rcvd THEN <<>> ELSE <<"HELLO">>
      BY <1>2, <1>3, <3>1 DEF Agree, Unheard, Unseen
    <3>3. up \o <<>> \o <<"AUTH_REQUEST">> =
            IF s.rcvd THEN <<"AUTH_REQUEST">> ELSE <<"HELLO", "AUTH_REQUEST">>
      BY <3>2, Words
    <3>4. Agree(d, s, up \o <<>> \o <<"AUTH_REQUEST">>, <<>>)
      BY <1>1, <1>3, <3>2, <3>3 DEF Agree, Unheard, Unseen
    <3>5. up \o <<>> \o <<"AUTH_REQUEST">> \in Expected(s)
      BY <3>2, <3>3 DEF Expected
    <3>6. QED BY <1>1, <1>3, <2>2, <3>1, <3>4, <3>5 DEF Fits, ExpectedBack
  <2>3. QED BY <2>1, <2>2
<1>6. QED BY <1>2, <1>3, <1>4, <1>5 DEF d

\* The client is accepted and subscribes.
LEMMA TakesAccepted ==
    ASSUME NEW c, NEW s \in End, NEW up, NEW down, ClientInStep(c),
           down # <<>>, Head(down) = "ACCEPTED", Fits(TRUE, c, s, up, down)
    PROVE  /\ c.rcvd
           /\ ClientInStep([c EXCEPT !.auth = TRUE])
           /\ Fits(TRUE, [c EXCEPT !.auth = TRUE], s, Append(up, "SUBSCRIBE"), Tail(down))
<1> DEFINE d == [c EXCEPT !.auth = TRUE]
<1>1. /\ d.auth /\ d.sent = c.sent /\ d.rcvd = c.rcvd /\ d.connected = c.connected
      /\ d.quic = c.quic /\ d \in End
  BY DEF ClientInStep, End
<1>2. c.rcvd /\ ~c.auth /\ down = <<"ACCEPTED">>
  BY Words DEF Fits, ExpectedBack
<1>3. Tail(down) = <<>> /\ c.sent
  BY <1>2, Words DEF ClientInStep
<1> HIDE DEF d
<1>4. ClientInStep(d)
  BY <1>1, <1>2, <1>3 DEF ClientInStep
<1>5. Fits(TRUE, d, s, Append(up, "SUBSCRIBE"), <<>>)
  <2>1. s.st # "open" => Fits(TRUE, d, s, Append(up, "SUBSCRIBE"), <<>>)
    BY <1>1, <1>3 DEF Fits, ExpectedBack
  <2>2. CASE s.st = "open"
    <3>1. ServerInStep(s) /\ Agree(c, s, up, down)
      BY <2>2 DEF Fits
    <3>2. s.sent /\ s.auth /\ s.rcvd
      BY <1>2, <3>1 DEF Agree, Unseen, ServerInStep
    <3>3. up = <<>>
      BY <1>2, <3>1, <3>2 DEF Agree, Unheard
    <3>4. Append(up, "SUBSCRIBE") = <<"SUBSCRIBE">>
      BY <3>3, Words
    <3>5. Agree(d, s, Append(up, "SUBSCRIBE"), <<>>)
      BY <1>1, <1>2, <1>3, <3>2, <3>1 DEF Agree, Unseen
    <3>6. QED BY <1>1, <1>3, <2>2, <3>1, <3>2, <3>4, <3>5 DEF Fits, ExpectedBack, Expected
  <2>3. QED BY <2>1, <2>2
<1>6. QED BY <1>2, <1>3, <1>4, <1>5 DEF d

\* Without faults nothing is refused.
LEMMA NeverRefused ==
    ASSUME NEW c, NEW s, NEW up, NEW down, down # <<>>, Fits(TRUE, c, s, up, down)
    PROVE  Head(down) # "REFUSED"
BY Words DEF Fits, ExpectedBack

\* The server sends its HELLO before it has taken the client's.
LEMMA AnswersEarly ==
    ASSUME NEW c, NEW s \in End, NEW up, NEW down, ClientInStep(c),
           NEW t \in End, t.st = s.st, t.sent, t.rcvd = s.rcvd, t.auth = s.auth,
           s.st = "open", ~s.sent, up # <<>>, Fits(TRUE, c, s, up, down)
    PROVE  Fits(TRUE, c, t, up, Append(down, "HELLO"))
<1>1. ServerInStep(s) /\ Agree(c, s, up, down) /\ up \in Expected(s)
  BY DEF Fits
<1>2. ~s.rcvd /\ ~s.auth /\ ~c.rcvd /\ ~c.auth /\ down = <<>>
  BY <1>1 DEF ServerInStep, Agree, Unseen
<1>3. c.sent
  BY <1>1, <1>2 DEF Agree, Unheard
<1>4. Append(down, "HELLO") = <<"HELLO">>
  BY <1>2, Words
<1>5. Agree(c, t, up, <<"HELLO">>)
  BY <1>1, <1>2, <1>3 DEF Agree, Unheard, Unseen
<1>6. QED BY <1>1, <1>2, <1>3, <1>4, <1>5 DEF Fits, Expected, ExpectedBack, ServerInStep

\* What a connection says does not depend on quic_ready and connected_emitted.
LEMMA SameFlags ==
    ASSUME NEW mine \in BOOLEAN, NEW c, NEW s, NEW up, NEW down, NEW d, NEW t,
           t.st = s.st, t.sent = s.sent, t.rcvd = s.rcvd, t.auth = s.auth,
           d.sent = c.sent, d.rcvd = c.rcvd, d.auth = c.auth,
           Fits(mine, c, s, up, down)
    PROVE  Fits(mine, d, t, up, down)
BY DEF Fits, Agree, Unheard, Unseen, Expected, ExpectedBack, ServerInStep

\* The server takes HELLO, and answers it unless it did: t is its end then.
LEMMA TookHello ==
    ASSUME NEW mine \in BOOLEAN, NEW c, NEW s \in End, NEW up, NEW down, ClientInStep(c),
           NEW t \in End, t.st = s.st, t.sent, t.rcvd, t.auth = s.auth,
           s.st = "open", up # <<>>, Head(up) = "HELLO", Fits(mine, c, s, up, down)
    PROVE  /\ ~s.rcvd
           /\ Fits(mine, c, t, Tail(up), IF s.sent THEN down ELSE Append(down, "HELLO"))
<1>1. ServerInStep(s) /\ up \in Expected(s) /\ (mine => Agree(c, s, up, down))
  BY DEF Fits
<1>2. ~s.rcvd /\ ~s.auth /\ up \in {<<"HELLO">>, <<"HELLO", "AUTH_REQUEST">>}
  BY <1>1, Words DEF Expected, ServerInStep
<1>3. Tail(up) = (IF up = <<"HELLO">> THEN <<>> ELSE <<"AUTH_REQUEST">>) /\ Tail(up) \in Expected(t)
  BY <1>2, Words DEF Expected
<1>4. ServerInStep(t)
  BY <1>2 DEF ServerInStep
<1>5. CASE ~mine
  BY <1>3, <1>4, <1>2, <1>5 DEF Fits
<1>6. CASE mine
  <2>1. Agree(c, s, up, down)
    BY <1>1, <1>6
  <2>2. c.sent /\ ~c.auth
    BY <1>2, <2>1, Words DEF Agree, Unheard
  <2>3. up = IF c.rcvd THEN <<"HELLO", "AUTH_REQUEST">> ELSE <<"HELLO">>
    BY <1>2, <2>1, <2>2 DEF Agree, Unheard
  <2>4. Tail(up) = IF c.rcvd THEN <<"AUTH_REQUEST">> ELSE <<>>
    BY <2>3, Words
  <2>5. (IF s.sent THEN down ELSE Append(down, "HELLO")) = IF c.rcvd THEN <<>> ELSE <<"HELLO">>
    <3>1. CASE s.sent
      BY <1>2, <2>1, <3>1 DEF Agree, Unseen
    <3>2. CASE ~s.sent
      <4>1. ~c.rcvd /\ down = <<>>
        BY <1>2, <2>1, <3>2 DEF Agree, Unseen
      <4>2. QED BY <3>2, <4>1, Words
    <3>3. QED BY <3>1, <3>2
  <2> PICK back : back = IF s.sent THEN down ELSE Append(down, "HELLO")
    OBVIOUS
  <2>6. Agree(c, t, Tail(up), back)
    BY <1>2, <2>2, <2>4, <2>5 DEF Agree, Unheard, Unseen
  <2>7. back \in ExpectedBack(c)
    BY <2>2, <2>5 DEF ExpectedBack
  <2>8. QED BY <1>2, <1>3, <1>4, <1>6, <2>6, <2>7 DEF Fits
<1>7. QED BY <1>5, <1>6

\* The server takes the request and accepts it: t is its end then.
LEMMA TookRequest ==
    ASSUME NEW mine \in BOOLEAN, NEW c, NEW s \in End, NEW up, NEW down, ClientInStep(c),
           NEW t \in End, t.st = s.st, t.sent = s.sent, t.rcvd = s.rcvd, t.auth,
           s.st = "open", up # <<>>, Head(up) = "AUTH_REQUEST", Fits(mine, c, s, up, down)
    PROVE  /\ s.rcvd
           /\ Fits(mine, c, t, Tail(up), Append(down, "ACCEPTED"))
<1>1. ServerInStep(s) /\ up \in Expected(s) /\ (mine => Agree(c, s, up, down))
  BY DEF Fits
<1>2. s.rcvd /\ ~s.auth /\ up = <<"AUTH_REQUEST">>
  BY <1>1, Words DEF Expected
<1>3. Tail(up) = <<>> /\ Tail(up) \in Expected(t) /\ ServerInStep(t) /\ s.sent
  BY <1>1, <1>2, Words DEF Expected, ServerInStep
<1>0. t.st = "open" /\ t.st # "none"
  OBVIOUS
<1>4. CASE ~mine
  <2> PICK rest, back : rest = Tail(up) /\ back = Append(down, "ACCEPTED")
    OBVIOUS
  <2>1. rest \in Expected(t) /\ ServerInStep(t)
    BY <1>3
  <2>2. Fits(mine, c, t, rest, back)
    BY <1>0, <1>4, <2>1 DEF Fits
  <2>3. QED BY <1>2, <2>2
<1>5. CASE mine
  <2>1. Agree(c, s, up, down)
    BY <1>1, <1>5
  <2>2. ~c.auth
    BY <1>2, <2>1 DEF Agree
  <2>3. c.rcvd
    BY <1>2, <2>1, <2>2, Words DEF Agree, Unheard
  <2>4. down = <<>>
    BY <1>2, <2>1, <2>3 DEF Agree, Unseen
  <2>5. Append(down, "ACCEPTED") = <<"ACCEPTED">>
    BY <2>4, Words
  <2>6. c.sent
    BY <2>3 DEF ClientInStep
  <2>7. Agree(c, t, <<>>, <<"ACCEPTED">>)
    BY <1>2, <1>3, <2>2, <2>3, <2>6 DEF Agree, Unheard, Unseen
  <2>8. <<"ACCEPTED">> \in ExpectedBack(c)
    BY <2>2, <2>3 DEF ExpectedBack
  <2>9. Fits(mine, c, t, <<>>, <<"ACCEPTED">>)
    BY <1>3, <1>0, <1>5, <2>7, <2>8 DEF Fits
  <2>10. QED BY <1>2, <1>3, <2>5, <2>9
<1>6. QED BY <1>2, <1>4, <1>5

\* What transport_protocol_maybe_emit_connected changes at the server's end
LEMMA EmittedEnd ==
    ASSUME NEW t \in End
    PROVE  /\ Emitted(t) \in End /\ Emitted(t).st = t.st /\ Emitted(t).sent = t.sent
           /\ Emitted(t).rcvd = t.rcvd /\ Emitted(t).auth = t.auth
BY DEF Emitted, End

\* ... t as ServerHello makes it
LEMMA TakesHello ==
    ASSUME NEW mine \in BOOLEAN, NEW c, NEW s \in End, NEW up, NEW down, ClientInStep(c),
           s.st = "open", up # <<>>, Head(up) = "HELLO", Fits(mine, c, s, up, down)
    PROVE  /\ ~s.rcvd /\ Emitted([s EXCEPT !.rcvd = TRUE, !.sent = TRUE]) \in End
           /\ Fits(mine, c, Emitted([s EXCEPT !.rcvd = TRUE, !.sent = TRUE]), Tail(up),
                   IF s.sent THEN down ELSE Append(down, "HELLO"))
<1> PICK t : t = [s EXCEPT !.rcvd = TRUE, !.sent = TRUE]
  OBVIOUS
<1> PICK u : u = Emitted(t)
  OBVIOUS
<1>1. t \in End /\ t.st = s.st /\ t.rcvd /\ t.sent /\ t.auth = s.auth
  BY DEF End
<1>2. u \in End /\ u.st = s.st /\ u.rcvd /\ u.sent /\ u.auth = s.auth
  BY <1>1, EmittedEnd
<1>3. ~s.rcvd /\ Fits(mine, c, u, Tail(up), IF s.sent THEN down ELSE Append(down, "HELLO"))
  BY <1>2, TookHello
<1>4. QED BY <1>2, <1>3

\* ... t as RespondAuth makes it
LEMMA TakesRequest ==
    ASSUME NEW mine \in BOOLEAN, NEW c, NEW s \in End, NEW up, NEW down, ClientInStep(c),
           s.st = "open", up # <<>>, Head(up) = "AUTH_REQUEST", Fits(mine, c, s, up, down)
    PROVE  /\ s.rcvd /\ [s EXCEPT !.auth = TRUE] \in End
           /\ Fits(mine, c, [s EXCEPT !.auth = TRUE], Tail(up), Append(down, "ACCEPTED"))
<1> PICK t : t = [s EXCEPT !.auth = TRUE]
  OBVIOUS
<1>1. t \in End /\ t.st = s.st /\ t.rcvd = s.rcvd /\ t.sent = s.sent /\ t.auth
  BY DEF End
<1>2. s.rcvd /\ Fits(mine, c, t, Tail(up), Append(down, "ACCEPTED"))
  BY <1>1, TookRequest
<1>3. QED BY <1>1, <1>2

\* The server takes SUBSCRIBE.
LEMMA TakesSubscribe ==
    ASSUME NEW mine \in BOOLEAN, NEW c, NEW s \in End, NEW up, NEW down,
           s.st = "open", up # <<>>, Head(up) = "SUBSCRIBE", Fits(mine, c, s, up, down)
    PROVE  s.rcvd /\ s.auth /\ Fits(mine, c, s, Tail(up), down)
<1>1. ServerInStep(s) /\ up \in Expected(s) /\ (mine => Agree(c, s, up, down))
  BY DEF Fits
<1>2. s.rcvd /\ s.auth /\ up = <<"SUBSCRIBE">>
  BY <1>1, Words DEF Expected
<1>3. Tail(up) = <<>> /\ Tail(up) \in Expected(s)
  BY <1>2, Words DEF Expected
<1>4. mine => c.auth
  BY <1>1, <1>2, Words DEF Agree, Unheard
<1>5. mine => Agree(c, s, <<>>, down)
  BY <1>1, <1>4 DEF Agree
<1>6. QED BY <1>1, <1>2, <1>3, <1>5 DEF Fits

-----------------------------------------------------------------------------
(* Session: the table of connections *)

\* g is f with x at i.
Written(f, g, i, x) == DOMAIN g = Ids /\ g[i] = x /\ \A j \in Ids \ {i} : g[j] = f[j]

\* Assigning one entry, or none
LEMMA Writes ==
    ASSUME NEW f, DOMAIN f = Ids, NEW i \in Ids
    PROVE  /\ Written(f, f, i, f[i])
           /\ \A x : Written(f, [f EXCEPT ![i] = x], i, x)
BY DEF Written

\* There is one identity more than the server holds connections.
LEMMA IdsFinite == IsFiniteSet(Ids) /\ Cardinality(Ids) = MaxConnections + 1 /\ Ids \subseteq Nat \ {0}
<1>1. 1 \in Int /\ MaxConnections + 1 \in Int /\ ~(1 > MaxConnections + 1)
      /\ MaxConnections + 1 - 1 + 1 = MaxConnections + 1
  BY SessionAssumption
<1>2. /\ IsFiniteSet(1..MaxConnections + 1)
      /\ Cardinality(1..MaxConnections + 1) = IF 1 > MaxConnections + 1 THEN 0
                                              ELSE MaxConnections + 1 - 1 + 1
  BY <1>1, FS_Interval
<1>3. Ids = 1..MaxConnections + 1 /\ Ids \subseteq Nat \ {0}
  BY DEF Ids
<1>4. QED BY <1>1, <1>2, <1>3

LEMMA HeldFinite ==
    /\ IsFiniteSet(Held) /\ Cardinality(Held) \in Nat
    /\ IsFiniteSet(Held') /\ Cardinality(Held') \in Nat
<1>1. Held \subseteq Ids /\ Held' \subseteq Ids
  BY DEF Held, Ids
<1>2. QED BY <1>1, IdsFinite, FS_Subset, FS_CardinalityType

\* A step of the client on its connection
LEMMA ClientMoves ==
    ASSUME Orderly, cid # 0, errors' = errors, server' = server,
           NEW c, client' = c, cid' = cid \/ cid' = 0, (cid' = 0) = (c.st = "none"),
           ClientInStep(c),
           NEW up, Written(toServer, toServer', cid, up),
           NEW down, Written(toClient, toClient', cid, down),
           Fits(cid' = cid, c, server[cid], up, down)
    PROVE  Orderly'
<1>1. Held' = Held
  BY DEF Held
<1>2. /\ cid \in Ids /\ 0 \notin Ids
  BY IdsFinite DEF Orderly, Ends
<1>3. ASSUME NEW i \in Ids
      PROVE  Fits(cid' = i, client', server'[i], toServer'[i], toClient'[i])
  <2>1. CASE i = cid
    BY <2>1 DEF Written
  <2>2. CASE i # cid
    <3>1. (cid' = i) = FALSE /\ (cid = i) = FALSE
      BY <1>2, <2>2
    <3>2. Fits(FALSE, client, server[i], toServer[i], toClient[i])
      BY <3>1 DEF Orderly
    <3>3. toServer'[i] = toServer[i] /\ toClient'[i] = toClient[i] /\ server'[i] = server[i]
      BY <2>2 DEF Written
    <3>4. Fits(FALSE, client', server'[i], toServer'[i], toClient'[i])
      BY <3>2, <3>3 DEF Fits
    <3>5. QED BY <3>1, <3>4
  <2>3. QED BY <2>1, <2>2
<1>4. QED BY <1>1, <1>2, <1>3, OrderlyNext DEF Orderly, Ends, Written

\* The server's table stays within its limit when an entry changes, unless a
\* connection starts there without room.
LEMMA TableStays ==
    ASSUME server \in [Ids -> End], Cardinality(Held) <= MaxConnections,
           NEW i \in Ids, NEW s \in End, server' = [server EXCEPT ![i] = s],
           s.st = "none" \/ server[i].st # "none" \/ Cardinality(Held) < MaxConnections
    PROVE  /\ server' \in [Ids -> End] /\ Cardinality(Held') <= MaxConnections
           /\ Written(server, server', i, s)
<1>1. Written(server, server', i, s)
  BY DEF Written
<1>2. Cardinality(Held') <= MaxConnections
  <2>1. Held' \subseteq Held \cup {i}
    BY <1>1 DEF Held, Written
  <2>2. CASE s.st = "none" \/ server[i].st # "none"
    <3>1. Held' \subseteq Held
      BY <1>1, <2>1, <2>2 DEF Held, Written
    <3>2. Cardinality(Held') <= Cardinality(Held)
      BY <3>1, HeldFinite, FS_Subset
    <3>3. QED BY <3>2, HeldFinite, SessionAssumption
  <2>3. CASE Cardinality(Held) < MaxConnections
    <3>1. /\ IsFiniteSet(Held \cup {i})
          /\ Cardinality(Held \cup {i}) = IF i \in Held THEN Cardinality(Held)
                                          ELSE Cardinality(Held) + 1
      BY HeldFinite, FS_AddElement
    <3>2. Cardinality(Held') <= Cardinality(Held \cup {i})
      BY <2>1, <3>1, FS_Subset
    <3>3. QED BY <2>3, <3>1, <3>2, HeldFinite, SessionAssumption
  <2>4. QED BY <2>2, <2>3
<1>3. server' \in [Ids -> End]
  OBVIOUS
<1>4. QED BY <1>1, <1>2, <1>3

\* A step of the server on one of its connections
LEMMA ServerMoves ==
    ASSUME Orderly, NEW i \in Ids, errors' = errors, cid' = cid, client' = client,
           NEW s \in End, server' = [server EXCEPT ![i] = s],
           s.st = "none" \/ server[i].st # "none" \/ Cardinality(Held) < MaxConnections,
           NEW up, Written(toServer, toServer', i, up),
           NEW down, Written(toClient, toClient', i, down),
           Fits(cid = i, client, s, up, down)
    PROVE  Orderly'
<1>1. server \in [Ids -> End] /\ Cardinality(Held) <= MaxConnections
  BY DEF Orderly, Ends
<1>2. /\ server' \in [Ids -> End] /\ Cardinality(Held') <= MaxConnections
      /\ Written(server, server', i, s)
  BY <1>1, TableStays
<1>3. ASSUME NEW j \in Ids
      PROVE  Fits(cid' = j, client', server'[j], toServer'[j], toClient'[j])
  <2>1. CASE j = i
    BY <1>2, <2>1 DEF Written
  <2>2. CASE j # i
    <3>1. Fits(cid = j, client, server[j], toServer[j], toClient[j])
      BY DEF Orderly
    <3>2. toServer'[j] = toServer[j] /\ toClient'[j] = toClient[j] /\ server'[j] = server[j]
      BY <1>2, <2>2 DEF Written
    <3>3. QED BY <3>1, <3>2
  <2>3. QED BY <2>1, <2>2
<1>4. QED BY <1>2, <1>3, OrderlyNext DEF Orderly, Ends, Written

\* What holds of a connection before the step
LEMMA Before ==
    ASSUME Orderly
    PROVE  /\ errors = {} /\ ClientInStep(client) /\ client \in End
           /\ cid # 0 => /\ cid \in Ids /\ server[cid] \in End
                         /\ Fits(TRUE, client, server[cid], toServer[cid], toClient[cid])
           /\ client.st # "none" => cid # 0
           /\ cid # 0 => client.st # "none"
           /\ \A i \in Ids : server[i] \in End
           /\ \A i \in Ids : Fits(cid = i, client, server[i], toServer[i], toClient[i])
           /\ DOMAIN toServer = Ids /\ DOMAIN toClient = Ids /\ DOMAIN server = Ids
<1>1. /\ errors = {} /\ ClientInStep(client) /\ cid \in Ids \cup {0}
      /\ (cid = 0) = (client.st = "none")
      /\ server \in [Ids -> End] /\ DOMAIN toServer = Ids /\ DOMAIN toClient = Ids
      /\ \A i \in Ids : Fits(cid = i, client, server[i], toServer[i], toClient[i])
  BY DEF Orderly, Ends
<1>2. client \in End
  BY <1>1 DEF ClientInStep
<1>3. cid # 0 => Fits(cid = cid, client, server[cid], toServer[cid], toClient[cid])
  BY <1>1
<1>4. (cid = cid) = TRUE
  OBVIOUS
<1>5. QED BY <1>1, <1>2, <1>3, <1>4

\* The two ends of no connection, and of one that starts
LEMMA NoneFits ==
    /\ None \in End /\ ClientInStep(None) /\ None.st = "none" /\ ~None.sent
    /\ Started \in End /\ ClientInStep(Started) /\ Started.st = "open" /\ ~Started.sent
    /\ ~Started.rcvd /\ ~Started.auth
BY DEF None, Started, End, ClientInStep

-----------------------------------------------------------------------------
(* Session: the steps *)

\* A step that leaves faults at 0 fails at nothing.
LEMMA NoFault ==
    ASSUME NEW happens, faults \in Nat, Fault(happens), faults' = 0
    PROVE  ~happens
BY DEF Fault

\* A connection is freed, at the client
LEMMA DropClientOrderly ==
    ASSUME Orderly, client.st # "none", DropClient, server' = server, errors' = errors
    PROVE  Orderly'
<1> DEFINE up == IF server[cid].st = "none" THEN <<>> ELSE toServer[cid]
<1>1. cid \in Ids /\ cid # 0 /\ 0 \notin Ids
  BY Before, IdsFinite
<1>2. Written(toClient, toClient', cid, <<>>)
  BY <1>1, Before, Writes DEF DropClient
<1>3. Written(toServer, toServer', cid, up)
  <2>1. CASE server[cid].st = "none"
    BY <1>1, <2>1, Before, Writes DEF DropClient
  <2>2. CASE server[cid].st # "none"
    BY <1>1, <2>2, Before, Writes DEF DropClient
  <2>3. QED BY <2>1, <2>2
<1>4. Fits(FALSE, None, server[cid], up, <<>>)
  <2>1. Fits(TRUE, client, server[cid], toServer[cid], toClient[cid])
    BY <1>1, Before
  <2>2. QED BY <2>1 DEF Fits
<1>5. cid' = 0 /\ client' = None /\ (cid' = cid) = FALSE
  BY <1>1 DEF DropClient
<1> HIDE DEF up
<1>6. (cid' = 0) = (None.st = "none") /\ Fits(cid' = cid, None, server[cid], up, <<>>)
  BY <1>4, <1>5, NoneFits
<1>7. QED BY <1>1, <1>2, <1>3, <1>5, <1>6, NoneFits, ClientMoves

\* ... at the server
LEMMA DropServerOrderly ==
    ASSUME Orderly, NEW i \in Ids, DropServer(i), cid' = cid, client' = client,
           errors' = errors
    PROVE  Orderly'
<1> DEFINE down == IF cid # i THEN <<>> ELSE toClient[i]
<1>1. server' = [server EXCEPT ![i] = None] /\ Written(toServer, toServer', i, <<>>)
  BY Before, Writes DEF DropServer
<1>2. Written(toClient, toClient', i, down)
  <2>1. CASE cid # i
    BY <2>1, Before, Writes DEF DropServer
  <2>2. CASE cid = i
    BY <2>2, Before, Writes DEF DropServer
  <2>3. QED BY <2>1, <2>2
<1>3. Fits(cid = i, client, None, <<>>, down)
  <2>1. Fits(cid = i, client, server[i], toServer[i], toClient[i])
    BY Before
  <2>2. client.rcvd => client.sent
    BY Before DEF ClientInStep
  <2>3. CASE cid # i
    BY <2>3, NoneFits DEF Fits
  <2>4. CASE cid = i
    BY <2>1, <2>2, <2>4, NoneFits DEF Fits, ExpectedBack
  <2>5. QED BY <2>3, <2>4
<1> HIDE DEF down
<1>4. QED BY <1>1, <1>2, <1>3, NoneFits, ServerMoves

\* A connection starts to close, at the client
LEMMA CloseClientOrderly ==
    ASSUME Orderly, client.st # "none", client' = [client EXCEPT !.st = "closing"],
           UNCHANGED <<cid, server, toServer, toClient, errors>>
    PROVE  Orderly'
<1> PICK c : c = [client EXCEPT !.st = "closing"]
  OBVIOUS
<1>1. client \in End /\ ClientInStep(client) /\ cid \in Ids /\ cid # 0
  BY Before
<1>2. /\ c \in End /\ c.st = "closing" /\ c.quic = client.quic /\ c.sent = client.sent
      /\ c.rcvd = client.rcvd /\ c.connected = client.connected /\ c.auth = client.auth
  BY <1>1 DEF End
<1>3. ClientInStep(c)
  BY <1>1, <1>2 DEF ClientInStep
<1>4. Fits(TRUE, c, server[cid], toServer[cid], toClient[cid])
  <2> PICK s : s = server[cid]
    OBVIOUS
  <2> PICK up : up = toServer[cid]
    OBVIOUS
  <2> PICK down : down = toClient[cid]
    OBVIOUS
  <2>1. Fits(TRUE, client, s, up, down)
    BY <1>1, Before
  <2>2. c.sent = client.sent /\ c.rcvd = client.rcvd /\ c.auth = client.auth
    BY <1>2
  <2>3. Fits(TRUE, c, s, up, down)
    BY <2>1, <2>2 DEF Fits, Agree, Unheard, Unseen, ExpectedBack
  <2>4. QED BY <2>3
<1>5. (cid' = cid) = TRUE /\ (cid' = 0) = (c.st = "none")
  BY <1>1, <1>2
<1>6. /\ Written(toServer, toServer', cid, toServer[cid])
      /\ Written(toClient, toClient', cid, toClient[cid])
  BY <1>1, Before, Writes
<1>7. Fits(cid' = cid, c, server[cid], toServer[cid], toClient[cid])
  BY <1>4, <1>5
<1>8. client' = c
  OBVIOUS
<1>9. QED BY <1>1, <1>3, <1>5, <1>6, <1>7, <1>8, ClientMoves

\* ... at the server
LEMMA ClosingFits ==
    ASSUME NEW mine \in BOOLEAN, NEW c, NEW s \in End, NEW up, NEW down,
           Fits(mine, c, s, up, down)
    PROVE  /\ [s EXCEPT !.st = "closing"] \in End
           /\ Fits(mine, c, [s EXCEPT !.st = "closing"], up, down)
<1>1. [s EXCEPT !.st = "closing"] \in End /\ [s EXCEPT !.st = "closing"].st = "closing"
  BY DEF End
<1>2. QED BY <1>1 DEF Fits

LEMMA CloseServerOrderly ==
    ASSUME Orderly, NEW i \in Ids, server[i].st # "none",
           server' = [server EXCEPT ![i].st = "closing"],
           UNCHANGED <<cid, client, toServer, toClient, errors>>
    PROVE  Orderly'
<1> PICK s : s = [server[i] EXCEPT !.st = "closing"]
  OBVIOUS
<1>1. server[i] \in End /\ (cid = i) \in BOOLEAN
      /\ Fits(cid = i, client, server[i], toServer[i], toClient[i])
  BY Before
<1>2. s \in End /\ Fits(cid = i, client, s, toServer[i], toClient[i])
  BY <1>1, ClosingFits
<1>3. server' = [server EXCEPT ![i] = s]
  OBVIOUS
<1>4. /\ Written(toServer, toServer', i, toServer[i])
      /\ Written(toClient, toClient', i, toClient[i])
  BY Before, Writes
<1>5. QED BY <1>2, <1>3, <1>4, ServerMoves

\* ... and all those of the server
LEMMA ShutdownServerOrderly ==
    ASSUME Orderly, ShutdownServer
    PROVE  Orderly'
<1>1. /\ UNCHANGED <<cid, client, toServer, toClient, errors>>
      /\ server' = [i \in Ids |-> IF server[i].st = "open"
                                  THEN [server[i] EXCEPT !.st = "closing"] ELSE server[i]]
  BY DEF ShutdownServer
<1>2. ASSUME NEW i \in Ids
      PROVE  /\ server'[i] \in End
             /\ server'[i].st = "none" => server[i].st = "none"
             /\ server[i].st = "none" => server'[i].st = "none"
             /\ Fits(cid = i, client, server'[i], toServer[i], toClient[i])
  <2>1. server[i] \in End /\ (cid = i) \in BOOLEAN
        /\ Fits(cid = i, client, server[i], toServer[i], toClient[i])
    BY Before
  <2> PICK s : s = [server[i] EXCEPT !.st = "closing"]
    OBVIOUS
  <2>2. s \in End /\ Fits(cid = i, client, s, toServer[i], toClient[i]) /\ s.st = "closing"
    BY <2>1, ClosingFits DEF End
  <2>3. server'[i] = IF server[i].st = "open" THEN s ELSE server[i]
    BY <1>1
  <2>4. QED BY <2>1, <2>2, <2>3
<1>3. Held' = Held
  BY <1>2 DEF Held
<1>4. server' \in [Ids -> End]
  <2>1. \A i \in Ids : server'[i] \in End
    BY <1>2
  <2>2. server' = [i \in Ids |-> server'[i]]
    BY <1>1
  <2>3. QED BY <2>1, <2>2
<1>5. QED BY <1>1, <1>2, <1>3, <1>4, OrderlyNext DEF Orderly, Ends

\* There is always an identity the server does not know,
LEMMA IdentityIsFree ==
    ASSUME Cardinality(Held) <= MaxConnections
    PROVE  Min(Ids \ Held) \in Ids \ Held
<1>1. Ids \ Held # {}
  <2>1. Cardinality(Ids) = MaxConnections + 1
    BY IdsFinite
  <2>2. Held \subseteq Ids
    BY DEF Held
  <2>3. Held # Ids
    BY <2>1, HeldFinite, SessionAssumption
  <2>4. QED BY <2>2, <2>3
<1>2. Ids \ Held \subseteq Nat
  BY IdsFinite
<1>3. QED BY <1>1, <1>2, MinOfNaturals

\* ... and a reconnect takes it.
LEMMA AttemptOrderly ==
    ASSUME Orderly, cid = 0, cid' = Min(Ids \ Held), client' = Started,
           UNCHANGED <<server, toServer, toClient, errors>>
    PROVE  Orderly'
<1>1. Cardinality(Held) <= MaxConnections
  BY DEF Orderly
<1> PICK k : k = Min(Ids \ Held)
  OBVIOUS
<1>2. k \in Ids /\ k \notin Held /\ k # 0 /\ 0 \notin Ids
  BY <1>1, IdentityIsFree, IdsFinite
<1>3. server[k].st = "none"
  BY <1>2 DEF Held
<1>4. Held' = Held
  BY DEF Held
<1>5. ASSUME NEW i \in Ids
      PROVE  Fits(cid' = i, client', server'[i], toServer'[i], toClient'[i])
  <2>1. (cid = i) = FALSE
    BY <1>2
  <2>2. Fits(FALSE, client, server[i], toServer[i], toClient[i])
    BY <2>1 DEF Orderly
  <2>3. CASE i = k
    BY <1>3, <2>2, <2>3, NoneFits DEF Fits, ExpectedBack
  <2>4. CASE i # k
    <3>1. Fits(FALSE, Started, server[i], toServer[i], toClient[i])
      BY <2>2 DEF Fits
    <3>2. (cid' = i) = FALSE
      BY <2>4
    <3>3. QED BY <3>1, <3>2
  <2>5. QED BY <2>3, <2>4
<1>6. cid' \in Ids \cup {0} /\ (cid' = 0) = (client'.st = "none")
  BY <1>2, NoneFits
<1>7. QED BY <1>4, <1>5, <1>6, NoneFits, OrderlyNext DEF Orderly, Ends

\* A connection starts only before its client said anything on it.
LEMMA AcceptOrderly ==
    ASSUME Orderly, Accept
    PROVE  Orderly'
<1>1. /\ client.st = "open" /\ ~client.quic /\ server[cid].st = "none"
      /\ Cardinality(Held) < MaxConnections
      /\ server' = [server EXCEPT ![cid] = Started]
      /\ UNCHANGED <<cid, client, toServer, toClient, errors>>
  BY DEF Accept
<1>2. /\ cid \in Ids /\ ClientInStep(client)
      /\ Fits(TRUE, client, server[cid], toServer[cid], toClient[cid])
  BY <1>1, Before
<1>3. ~client.sent /\ ~client.rcvd /\ ~client.auth
  BY <1>1, <1>2 DEF ClientInStep
<1>4. toServer[cid] = <<>> /\ toClient[cid] = <<>>
  BY <1>1, <1>2, <1>3 DEF Fits
<1>5. Fits(TRUE, client, Started, <<>>, <<>>)
  BY <1>3, NoneFits DEF Fits, ServerInStep, Expected, ExpectedBack, Agree, Unheard, Unseen
<1>6. /\ Written(toServer, toServer', cid, <<>>)
      /\ Written(toClient, toClient', cid, <<>>)
  BY <1>1, <1>2, <1>4, Before, Writes
<1>7. Fits(cid = cid, client, Started, <<>>, <<>>)
  <2>1. (cid = cid) = TRUE
    OBVIOUS
  <2>2. QED BY <1>5, <2>1
<1>8. QED BY <1>1, <1>2, <1>6, <1>7, NoneFits, ServerMoves

\* The ticks and the frames, each by the lemma on its connection
LEMMA TickClientOrderly ==
    ASSUME Orderly, NEW written \in BOOLEAN, faults \in Nat, faults' = 0, TickClient(written)
    PROVE  Orderly'
<1> DEFINE e == [client EXCEPT !.quic = TRUE, !.sent = written]
<1>1. /\ client.st = "open" /\ server[cid].st = "open" /\ ~client.sent /\ Fault(~written)
      /\ client' = Emitted(e)
      /\ toServer' = [toServer EXCEPT ![cid] =
             @ \o (IF written THEN <<"HELLO">> ELSE <<>>) \o AuthFrames(e, TRUE)]
      /\ UNCHANGED <<cid, server, toClient, errors>>
  BY DEF TickClient
<1>2. written = TRUE
  BY <1>1, NoFault
<1>3. /\ cid \in Ids /\ cid # 0 /\ ClientInStep(client) /\ client \in End
      /\ server[cid] \in End /\ DOMAIN toServer = Ids /\ DOMAIN toClient = Ids
      /\ Fits(TRUE, client, server[cid], toServer[cid], toClient[cid])
  BY <1>1, Before
<1> PICK c : c = [client EXCEPT !.quic = TRUE, !.sent = TRUE]
  OBVIOUS
<1> PICK up : up = toServer[cid] \o <<"HELLO">> \o <<>>
  OBVIOUS
<1>4. e = c /\ c.rcvd = client.rcvd /\ c.st = client.st
  BY <1>2, <1>3 DEF End
<1>5. ~client.rcvd
  BY <1>1, <1>3 DEF ClientInStep
<1>6. Emitted(e) = c /\ AuthFrames(e, TRUE) = <<>>
  BY <1>4, <1>5 DEF Emitted, Emits, AuthFrames
<1>7. toServer' = [toServer EXCEPT ![cid] = up]
  BY <1>1, <1>2, <1>6
<1>8. ClientInStep(c) /\ Fits(TRUE, c, server[cid], up, toClient[cid])
  BY <1>1, <1>3, SaysHello
<1>9. Written(toServer, toServer', cid, up) /\ Written(toClient, toClient', cid, toClient[cid])
  <2>1. Written(toServer, [toServer EXCEPT ![cid] = up], cid, up)
    BY <1>3, Writes
  <2>2. Written(toClient, toClient, cid, toClient[cid])
    BY <1>3, Writes
  <2>3. toClient' = toClient
    BY <1>1
  <2>4. QED BY <1>7, <2>1, <2>2, <2>3
<1>10. (cid' = cid) = TRUE /\ (cid' = 0) = (c.st = "none") /\ client' = c
  BY <1>1, <1>3, <1>4, <1>6
<1>11. Fits(cid' = cid, c, server[cid], up, toClient[cid])
  BY <1>8, <1>10
<1> HIDE DEF e
<1>12. QED BY <1>1, <1>3, <1>8, <1>9, <1>10, <1>11, ClientMoves

LEMMA ClientHelloOrderly ==
    ASSUME Orderly, NEW written \in BOOLEAN, faults \in Nat, faults' = 0, ClientHello(written)
    PROVE  Orderly'
<1> DEFINE e == [client EXCEPT !.rcvd = TRUE, !.sent = TRUE]
<1> PICK down : down = toClient[cid]
  OBVIOUS
<1>1. /\ client.st = "open" /\ down # <<>> /\ Head(down) = "HELLO"
      /\ toClient' = [toClient EXCEPT ![cid] = Tail(@)]
      /\ UNCHANGED <<cid, server>> /\ Fault(~written)
  BY DEF ClientHello, ReadClient, Takes
<1>2. written = TRUE
  BY <1>1, NoFault
<1>3. /\ cid \in Ids /\ cid # 0 /\ ClientInStep(client) /\ client \in End
      /\ server[cid] \in End /\ DOMAIN toServer = Ids /\ DOMAIN toClient = Ids
      /\ Fits(TRUE, client, server[cid], toServer[cid], down)
  BY <1>1, Before
<1> PICK c : c = [client EXCEPT !.rcvd = TRUE, !.sent = TRUE, !.connected = TRUE]
  OBVIOUS
<1> PICK up : up = toServer[cid] \o <<>> \o <<"AUTH_REQUEST">>
  OBVIOUS
<1>4. /\ ~client.rcvd /\ client.sent /\ client.quic /\ ~client.connected
      /\ ClientInStep(c) /\ Fits(TRUE, c, server[cid], up, Tail(down))
  BY <1>1, <1>3, TakesHelloBack
<1>5. /\ client' = Emitted(e) /\ UNCHANGED errors
      /\ toServer' = [toServer EXCEPT ![cid] =
            @ \o (IF client.sent THEN <<>> ELSE <<"HELLO">>) \o AuthFrames(e, written)]
  BY <1>2, <1>4 DEF ClientHello
<1>6. /\ e.quic /\ e.rcvd /\ ~e.connected /\ [e EXCEPT !.connected = TRUE] = c
      /\ c.st = client.st
  BY <1>3, <1>4 DEF End
<1>7. Emitted(e) = c /\ AuthFrames(e, written) = <<"AUTH_REQUEST">>
  BY <1>2, <1>6 DEF Emitted, Emits, AuthFrames
<1>8. toServer' = [toServer EXCEPT ![cid] = up]
  BY <1>4, <1>5, <1>7
<1>9. Written(toServer, toServer', cid, up) /\ Written(toClient, toClient', cid, Tail(down))
  BY <1>1, <1>3, <1>8, Writes
<1>10. (cid' = cid) = TRUE /\ (cid' = 0) = (c.st = "none") /\ client' = c
  BY <1>1, <1>3, <1>5, <1>6, <1>7
<1>11. Fits(cid' = cid, c, server[cid], up, Tail(down))
  BY <1>4, <1>10
<1> HIDE DEF e
<1>12. QED BY <1>1, <1>3, <1>4, <1>5, <1>9, <1>10, <1>11, ClientMoves

LEMMA ClientAcceptedOrderly ==
    ASSUME Orderly, ClientAccepted
    PROVE  Orderly'
<1> PICK down : down = toClient[cid]
  OBVIOUS
<1>1. /\ client.st = "open" /\ down # <<>> /\ Head(down) = "ACCEPTED"
      /\ toClient' = [toClient EXCEPT ![cid] = Tail(@)]
      /\ UNCHANGED <<cid, server>>
  BY DEF ClientAccepted, ReadClient, Takes
<1>3. /\ cid \in Ids /\ cid # 0 /\ ClientInStep(client) /\ client \in End
      /\ server[cid] \in End /\ DOMAIN toServer = Ids /\ DOMAIN toClient = Ids
      /\ Fits(TRUE, client, server[cid], toServer[cid], down)
  BY <1>1, Before
<1> PICK c : c = [client EXCEPT !.auth = TRUE]
  OBVIOUS
<1> PICK up : up = Append(toServer[cid], "SUBSCRIBE")
  OBVIOUS
<1>4. /\ client.rcvd /\ ClientInStep(c) /\ Fits(TRUE, c, server[cid], up, Tail(down))
  BY <1>1, <1>3, TakesAccepted
<1>5. /\ client' = c /\ UNCHANGED errors /\ c.st = client.st
      /\ toServer' = [toServer EXCEPT ![cid] = up]
  BY <1>3, <1>4 DEF ClientAccepted, End
<1>9. Written(toServer, toServer', cid, up) /\ Written(toClient, toClient', cid, Tail(down))
  BY <1>1, <1>3, <1>5, Writes
<1>10. (cid' = cid) = TRUE /\ (cid' = 0) = (c.st = "none")
  BY <1>1, <1>3, <1>5
<1>11. Fits(cid' = cid, c, server[cid], up, Tail(down))
  BY <1>4, <1>10
<1>12. QED BY <1>1, <1>3, <1>4, <1>5, <1>9, <1>10, <1>11, ClientMoves

LEMMA TickServerOrderly ==
    ASSUME Orderly, NEW i \in Ids, NEW written \in BOOLEAN, faults \in Nat, faults' = 0,
           TickServer(i, written)
    PROVE  Orderly'
<1> PICK s : s = server[i]
  OBVIOUS
<1> DEFINE hello == ~s.sent /\ toServer[i] # <<>>
<1> DEFINE t == [s EXCEPT !.quic = TRUE, !.sent = s.sent \/ (hello /\ written)]
<1>1. /\ s.st = "open" /\ cid = i
      /\ Fault(hello /\ ~written)
      /\ server' = [server EXCEPT ![i] = Emitted(t)]
      /\ toClient' = IF hello /\ written
                     THEN [toClient EXCEPT ![i] = Append(@, "HELLO")] ELSE toClient
      /\ UNCHANGED <<cid, client, toServer, errors>>
  <2>1. s.st = "open" /\ cid = i /\ UNCHANGED <<cid, client, toServer, errors>>
    BY DEF TickServer
  <2>2. Fault(hello /\ ~written)
    BY DEF TickServer
  <2>3. server' = [server EXCEPT ![i] = Emitted(t)]
    BY Zenon DEF TickServer
  <2>4. toClient' = IF hello /\ written
                   THEN [toClient EXCEPT ![i] = Append(@, "HELLO")] ELSE toClient
    BY DEF TickServer
  <2>5. QED BY <2>1, <2>2, <2>3, <2>4
<1>2. hello => written
  BY <1>1, NoFault
<1>3. /\ s \in End /\ ClientInStep(client)
      /\ DOMAIN toServer = Ids /\ DOMAIN toClient = Ids /\ DOMAIN server = Ids
      /\ Fits(cid = i, client, s, toServer[i], toClient[i])
  BY Before
<1>4. /\ t \in End /\ t.st = s.st /\ t.rcvd = s.rcvd /\ t.auth = s.auth
      /\ t.sent = (s.sent \/ hello)
  BY <1>2, <1>3 DEF End
<1> HIDE DEF t
<1> PICK u : u = Emitted(t)
  OBVIOUS
<1>5. /\ u \in End /\ u.st = s.st /\ u.rcvd = s.rcvd /\ u.auth = s.auth
      /\ u.sent = (s.sent \/ hello)
  BY <1>4, EmittedEnd
<1> PICK down : down = IF hello THEN Append(toClient[i], "HELLO") ELSE toClient[i]
  OBVIOUS
<1>6. Fits(cid = i, client, u, toServer[i], down)
  <2>1. (cid = i) = TRUE
    BY <1>1
  <2>2. CASE hello
    <3>1. u.sent /\ ~s.sent /\ toServer[i] # <<>>
      BY <1>5, <2>2
    <3>2. Fits(TRUE, client, s, toServer[i], toClient[i])
      BY <1>3, <2>1
    <3>3. Fits(TRUE, client, u, toServer[i], Append(toClient[i], "HELLO"))
      BY <1>1, <1>3, <1>5, <3>1, <3>2, AnswersEarly
    <3>4. QED BY <2>1, <2>2, <3>3
  <2>3. CASE ~hello
    <3>1. u.sent = s.sent /\ TRUE \in BOOLEAN
      BY <1>3, <1>5, <2>3 DEF End
    <3>2. Fits(TRUE, client, s, toServer[i], toClient[i])
      BY <1>3, <2>1
    <3>3. Fits(TRUE, client, u, toServer[i], toClient[i])
      BY <1>5, <3>1, <3>2, SameFlags
    <3>4. QED BY <2>1, <2>3, <3>3
  <2>4. QED BY <2>2, <2>3
<1>7. Written(toServer, toServer', i, toServer[i])
  BY <1>1, <1>3, Writes
<1>8. Written(toClient, toClient', i, down)
  <2>1. CASE hello
    BY <1>1, <1>2, <1>3, <2>1, Writes
  <2>2. CASE ~hello
    BY <1>1, <1>3, <2>2, Writes
  <2>3. QED BY <2>1, <2>2
<1>9. server[i].st # "none" /\ server' = [server EXCEPT ![i] = u]
  BY <1>1
<1>10. QED BY <1>1, <1>5, <1>6, <1>7, <1>8, <1>9, ServerMoves

LEMMA ServerHelloOrderly ==
    ASSUME Orderly, NEW i \in Ids, NEW written \in BOOLEAN, faults \in Nat, faults' = 0,
           ServerHello(i, written)
    PROVE  Orderly'
<1> PICK s : s = server[i]
  OBVIOUS
<1> PICK up : up = toServer[i]
  OBVIOUS
<1> PICK t : t = [s EXCEPT !.rcvd = TRUE, !.sent = TRUE]
  OBVIOUS
<1> PICK u : u = Emitted(t)
  OBVIOUS
<1> PICK down : down = IF s.sent THEN toClient[i] ELSE Append(toClient[i], "HELLO")
  OBVIOUS
<1>1. /\ s.st = "open" /\ up # <<>> /\ Head(up) = "HELLO" /\ Fault(~s.sent /\ ~written)
      /\ toServer' = [toServer EXCEPT ![i] = Tail(@)]
      /\ UNCHANGED <<cid, client>>
  BY DEF ServerHello, ReadServer, Takes
<1>2. s.sent \/ written
  BY <1>1, NoFault
<1>3. /\ s \in End /\ ClientInStep(client) /\ (cid = i) \in BOOLEAN
      /\ DOMAIN toServer = Ids /\ DOMAIN toClient = Ids /\ DOMAIN server = Ids
      /\ Fits(cid = i, client, s, up, toClient[i])
  BY Before
<1>4. ~s.rcvd /\ u \in End /\ Fits(cid = i, client, u, Tail(up), down)
  BY <1>1, <1>3, TakesHello
<1>7. /\ server' = [server EXCEPT ![i] = u] /\ UNCHANGED errors
      /\ toClient' = IF s.sent THEN toClient
                     ELSE [toClient EXCEPT ![i] = Append(@, "HELLO")]
  BY <1>2, <1>4 DEF ServerHello
<1>8. Written(toServer, toServer', i, Tail(up))
  BY <1>1, <1>3, Writes
<1>9. Written(toClient, toClient', i, down)
  <2>1. CASE s.sent
    BY <1>3, <1>7, <2>1, Writes
  <2>2. CASE ~s.sent
    BY <1>3, <1>7, <2>2, Writes
  <2>3. QED BY <2>1, <2>2
<1>10. server[i].st # "none"
  BY <1>1
<1>11. QED BY <1>1, <1>4, <1>7, <1>8, <1>9, <1>10, ServerMoves

LEMMA ServerAuthRequestOrderly ==
    ASSUME Orderly, NEW i \in Ids, NEW accepted \in BOOLEAN, NEW written \in BOOLEAN,
           faults \in Nat, faults' = 0, ServerAuthRequest(i, accepted, written)
    PROVE  Orderly'
<1> PICK s : s = server[i]
  OBVIOUS
<1> PICK up : up = toServer[i]
  OBVIOUS
<1> PICK t : t = [s EXCEPT !.auth = TRUE]
  OBVIOUS
<1> PICK down : down = Append(toClient[i], "ACCEPTED")
  OBVIOUS
<1>1. /\ s.st = "open" /\ up # <<>> /\ Head(up) = "AUTH_REQUEST"
      /\ Fault(~accepted \/ ~written)
      /\ toServer' = [toServer EXCEPT ![i] = Tail(@)]
      /\ UNCHANGED <<cid, client>>
  BY DEF ServerAuthRequest, ReadServer, Takes
<1>2. accepted /\ written
  BY <1>1, NoFault
<1>3. /\ s \in End /\ ClientInStep(client) /\ (cid = i) \in BOOLEAN
      /\ DOMAIN toServer = Ids /\ DOMAIN toClient = Ids /\ DOMAIN server = Ids
      /\ Fits(cid = i, client, s, up, toClient[i])
  BY Before
<1>4. s.rcvd /\ t \in End /\ Fits(cid = i, client, t, Tail(up), down)
  BY <1>1, <1>3, TakesRequest
<1>6. /\ server' = [server EXCEPT ![i] = t] /\ UNCHANGED errors
      /\ toClient' = [toClient EXCEPT ![i] = Append(@, "ACCEPTED")]
  BY <1>2, <1>4 DEF ServerAuthRequest, RespondAuth
<1>7. Written(toServer, toServer', i, Tail(up)) /\ Written(toClient, toClient', i, down)
  BY <1>1, <1>3, <1>6, Writes
<1>8. server[i].st # "none"
  BY <1>1
<1>9. QED BY <1>1, <1>4, <1>6, <1>7, <1>8, ServerMoves

LEMMA ServerSubscribeOrderly ==
    ASSUME Orderly, NEW i \in Ids, ServerSubscribe(i)
    PROVE  Orderly'
<1> PICK s : s = server[i]
  OBVIOUS
<1> PICK up : up = toServer[i]
  OBVIOUS
<1>1. /\ s.st = "open" /\ up # <<>> /\ Head(up) = "SUBSCRIBE"
      /\ toServer' = [toServer EXCEPT ![i] = Tail(@)]
      /\ UNCHANGED <<cid, client>>
  BY DEF ServerSubscribe, ReadServer, Takes
<1>2. /\ s \in End /\ (cid = i) \in BOOLEAN /\ server \in [Ids -> End]
      /\ DOMAIN toServer = Ids /\ DOMAIN toClient = Ids
      /\ Fits(cid = i, client, s, up, toClient[i])
  BY Before DEF Orderly, Ends
<1>3. s.rcvd /\ s.auth /\ Fits(cid = i, client, s, Tail(up), toClient[i])
  BY <1>1, <1>2, TakesSubscribe
<1>4. UNCHANGED <<server, toClient, errors>>
  BY <1>3 DEF ServerSubscribe
<1>5. server' = [server EXCEPT ![i] = s]
  BY <1>2, <1>4
<1>6. /\ Written(toServer, toServer', i, Tail(up))
      /\ Written(toClient, toClient', i, toClient[i])
  BY <1>1, <1>2, <1>4, Writes
<1>7. server[i].st # "none"
  BY <1>1
<1>8. QED BY <1>1, <1>2, <1>3, <1>4, <1>5, <1>6, <1>7, ServerMoves

\* Clocks and flags of the reconnect do not matter.
LEMMA SameOrderly ==
    ASSUME Orderly, UNCHANGED <<cid, client, server, toServer, toClient, errors>>
    PROVE  Orderly'
<1>1. Held' = Held
  BY DEF Held
<1>2. QED BY <1>1, OrderlyNext DEF Orderly, Ends

\* faults only grows.
LEMMA FaultsGrow ==
    ASSUME faults \in Nat, [SessionNext]_sessionVars
    PROVE  faults' \in Nat /\ (faults' = 0 => faults = 0)
<1>1. CASE UNCHANGED faults
  BY <1>1
<1>2. ASSUME NEW happens, Fault(happens)
      PROVE  faults' \in Nat /\ (faults' = 0 => faults = 0)
  BY <1>2 DEF Fault
<1>3. CASE ClientStep
  BY <1>1, <1>2, <1>3 DEF ClientStep, FreeClient, NoticeClient, TimeoutClient, CloseClient,
     ShutdownClient, Elapse, Attempt, TickClient, ClientHello, ClientAccepted, ClientRefused
<1>4. CASE ServerStep
  BY <1>1, <1>2, <1>4 DEF ServerStep, ShutdownServer, Accept, FreeServer, NoticeServer,
     TimeoutServer, CloseServer, ServerSubscribe, TickServer, ServerHello, ServerAuthRequest
<1>5. CASE UNCHANGED sessionVars
  BY <1>1, <1>5 DEF sessionVars
<1>6. QED BY <1>3, <1>4, <1>5 DEF SessionNext

\* The first connection of the client
LEMMA InitOrderly == SessionInit => OrderlyUntilFault
<1> SUFFICES ASSUME SessionInit PROVE OrderlyUntilFault
  OBVIOUS
<1>1. Held = {}
  BY NoneFits DEF SessionInit, Held
<1>2. Cardinality(Held) <= MaxConnections
  BY <1>1, FS_EmptySet, SessionAssumption
<1>3. 1 \in Ids /\ 1 # 0
  BY SessionAssumption DEF Ids
<1>4. Ends
  BY <1>3, NoneFits DEF SessionInit, Ends
<1>5. ASSUME NEW i \in Ids
      PROVE  Fits(cid = i, client, server[i], toServer[i], toClient[i])
  <2>1. client = Started /\ server[i] = None /\ toServer[i] = <<>> /\ toClient[i] = <<>>
    BY DEF SessionInit
  <2>2. QED BY <2>1, NoneFits DEF Fits, ExpectedBack
<1>6. QED BY <1>2, <1>4, <1>5 DEF SessionInit, Orderly, OrderlyUntilFault

\* Every step of the client
LEMMA ClientOrderly ==
    ASSUME Orderly, faults \in Nat, faults' = 0, ClientStep
    PROVE  Orderly'
<1>1. CASE FreeClient
  <2>1. client.st # "none" /\ DropClient /\ server' = server /\ errors' = errors
    BY <1>1 DEF FreeClient
  <2>2. QED BY <2>1, DropClientOrderly
<1>2. CASE NoticeClient
  <2>1. /\ client.st # "none" /\ client' = [client EXCEPT !.st = "closing"]
        /\ UNCHANGED <<cid, server, toServer, toClient, errors>>
    BY <1>2 DEF NoticeClient
  <2>2. QED BY <2>1, CloseClientOrderly
<1>3. CASE TimeoutClient
  <2>1. client.st # "none" /\ DropClient /\ server' = server /\ errors' = errors
    BY <1>3 DEF TimeoutClient
  <2>2. QED BY <2>1, DropClientOrderly
<1>4. CASE CloseClient
  <2>1. /\ client.st # "none" /\ client' = [client EXCEPT !.st = "closing"]
        /\ UNCHANGED <<cid, server, toServer, toClient, errors>>
    BY <1>4 DEF CloseClient
  <2>2. QED BY <2>1, CloseClientOrderly
<1>5. CASE ShutdownClient
  <2>1. /\ client' = IF client.st = "open" THEN [client EXCEPT !.st = "closing"] ELSE client
        /\ UNCHANGED <<cid, server, toServer, toClient, errors>>
    BY <1>5 DEF ShutdownClient
  <2>2. CASE client.st = "open"
    BY <2>1, <2>2, CloseClientOrderly
  <2>3. CASE client.st # "open"
    BY <2>1, <2>3, SameOrderly
  <2>4. QED BY <2>2, <2>3
<1>6. CASE Elapse
  BY <1>6, SameOrderly DEF Elapse
<1>7. ASSUME NEW ok \in BOOLEAN, Attempt(ok)
      PROVE  Orderly'
  <2>1. /\ cid = 0 /\ UNCHANGED <<server, toServer, toClient, errors>>
        /\ IF ok THEN cid' = Min(Ids \ Held) /\ client' = Started
                 ELSE UNCHANGED <<cid, client>>
    BY <1>7 DEF Attempt
  <2>2. CASE ok
    BY <2>1, <2>2, AttemptOrderly
  <2>3. CASE ~ok
    BY <2>1, <2>3, SameOrderly
  <2>4. QED BY <2>2, <2>3
<1>8. ASSUME NEW ok \in BOOLEAN, TickClient(ok)
      PROVE  Orderly'
  BY <1>8, TickClientOrderly
<1>9. ASSUME NEW ok \in BOOLEAN, ClientHello(ok)
      PROVE  Orderly'
  BY <1>9, ClientHelloOrderly
<1>10. CASE ClientAccepted
  BY <1>10, ClientAcceptedOrderly
<1>11. CASE ClientRefused
  <2>1. client.st = "open" /\ toClient[cid] # <<>> /\ Head(toClient[cid]) = "REFUSED"
    BY <1>11 DEF ClientRefused, ReadClient, Takes
  <2>2. Fits(TRUE, client, server[cid], toServer[cid], toClient[cid])
    BY <2>1, Before
  <2>3. QED BY <2>1, <2>2, NeverRefused
<1>12. QED
  BY <1>1, <1>2, <1>3, <1>4, <1>5, <1>6, <1>7, <1>8, <1>9, <1>10, <1>11 DEF ClientStep

\* Every step of the server
LEMMA ServerOrderly ==
    ASSUME Orderly, faults \in Nat, faults' = 0, ServerStep
    PROVE  Orderly'
<1>1. CASE ShutdownServer
  BY <1>1, ShutdownServerOrderly
<1>2. CASE Accept
  BY <1>2, AcceptOrderly
<1>3. ASSUME NEW i \in Ids, FreeServer(i)
      PROVE  Orderly'
  BY <1>3, DropServerOrderly DEF FreeServer
<1>4. ASSUME NEW i \in Ids, NoticeServer(i)
      PROVE  Orderly'
  <2>1. /\ server[i].st # "none" /\ server' = [server EXCEPT ![i].st = "closing"]
        /\ UNCHANGED <<cid, client, toServer, toClient, errors>>
    BY <1>4 DEF NoticeServer
  <2>2. QED BY <2>1, CloseServerOrderly
<1>5. ASSUME NEW i \in Ids, TimeoutServer(i)
      PROVE  Orderly'
  BY <1>5, DropServerOrderly DEF TimeoutServer
<1>6. ASSUME NEW i \in Ids, CloseServer(i)
      PROVE  Orderly'
  <2>1. /\ server[i].st # "none" /\ server' = [server EXCEPT ![i].st = "closing"]
        /\ UNCHANGED <<cid, client, toServer, toClient, errors>>
    BY <1>6 DEF CloseServer
  <2>2. QED BY <2>1, CloseServerOrderly
<1>7. ASSUME NEW i \in Ids, ServerSubscribe(i)
      PROVE  Orderly'
  BY <1>7, ServerSubscribeOrderly
<1>8. ASSUME NEW i \in Ids, NEW ok \in BOOLEAN, TickServer(i, ok)
      PROVE  Orderly'
  BY <1>8, TickServerOrderly
<1>9. ASSUME NEW i \in Ids, NEW ok \in BOOLEAN, ServerHello(i, ok)
      PROVE  Orderly'
  BY <1>9, ServerHelloOrderly
<1>10. ASSUME NEW i \in Ids, NEW yes \in BOOLEAN, NEW ok \in BOOLEAN,
              ServerAuthRequest(i, yes, ok)
       PROVE  Orderly'
  BY <1>10, ServerAuthRequestOrderly
<1>11. QED
  BY <1>1, <1>2, <1>3, <1>4, <1>5, <1>6, <1>7, <1>8, <1>9, <1>10 DEF ServerStep

\* OrderlyUntilFault is inductive.
LEMMA NextOrderly == OrderlyUntilFault /\ [SessionNext]_sessionVars => OrderlyUntilFault'
<1> SUFFICES ASSUME OrderlyUntilFault, [SessionNext]_sessionVars PROVE OrderlyUntilFault'
  OBVIOUS
<1>1. faults \in Nat /\ faults' \in Nat /\ (faults' = 0 => faults = 0)
  BY FaultsGrow DEF OrderlyUntilFault
<1>2. ASSUME faults' = 0
      PROVE  Orderly'
  <2>1. Orderly
    BY <1>1, <1>2 DEF OrderlyUntilFault
  <2>2. CASE ClientStep
    BY <1>1, <1>2, <2>1, <2>2, ClientOrderly
  <2>3. CASE ServerStep
    BY <1>1, <1>2, <2>1, <2>3, ServerOrderly
  <2>4. CASE UNCHANGED sessionVars
    BY <2>1, <2>4, SameOrderly DEF sessionVars
  <2>5. QED BY <2>2, <2>3, <2>4 DEF SessionNext
<1>3. QED BY <1>1, <1>2 DEF OrderlyUntilFault

\* NoHandshakeError, for any number of connections: while no write, start or
\* answer fails and no end is closed or lost, receive_hello, the answer to an
\* AUTH_REQUEST and the check of SUBSCRIBE never close a connection for a
\* protocol error, however the steps of the two threads interleave.
THEOREM NoErrorWithoutFaults == SessionSpec => []NoHandshakeError
<1>1. OrderlyUntilFault => NoHandshakeError
  BY DEF OrderlyUntilFault, Orderly, NoHandshakeError
<1>2. QED BY InitOrderly, NextOrderly, <1>1, PTL DEF SessionSpec

-----------------------------------------------------------------------------
\* Type correctness of Session: one conjunct for each group of variables that the
\* same steps write.

\* The parts of SessionTypeOK that steps change together, and the size of the table.
EndsTyped == client \in End /\ server \in [Ids -> End]
ClientNamed == cid \in Ids \cup {0} /\ (cid = 0) = (client.st = "none")
ChannelsTyped == toServer \in [Ids -> Seq(Frames)] /\ toClient \in [Ids -> Seq(Frames)]
ClocksTyped ==
    /\ wait \in 0..MaxDelay /\ delay \in InitialDelay..MaxDelay /\ inProgress \in BOOLEAN
    /\ shut \subseteq {"client", "server"} /\ errors \subseteq {"client", "server"}
    /\ faults \in 0..MaxFaults
TableBounded == Cardinality(Held) <= MaxConnections

SessionTyped == EndsTyped /\ ClientNamed /\ ChannelsTyped /\ ClocksTyped /\ TableBounded

\* A step that may fail keeps the count of faults within its bound.
LEMMA FaultTyped ==
    ASSUME NEW happens, faults \in 0..MaxFaults, Fault(happens)
    PROVE  faults' \in 0..MaxFaults
BY SessionAssumption DEF Fault

\* schedule_reconnect keeps both delays within the reconnection limits.
LEMMA ReconnectTyped ==
    ASSUME ClocksTyped, ScheduleReconnect
    PROVE  wait' \in 0..MaxDelay /\ delay' \in InitialDelay..MaxDelay
<1>1. /\ delay \in Nat /\ InitialDelay \in Nat \ {0} /\ MaxDelay \in Nat /\ InitialDelay <= MaxDelay
      /\ InitialDelay <= delay /\ delay <= MaxDelay
  BY SessionAssumption DEF ClocksTyped
<1>2. Min({2 * delay, MaxDelay}) \in {2 * delay, MaxDelay}
      /\ \A x \in {2 * delay, MaxDelay} : Min({2 * delay, MaxDelay}) <= x
  <2>1. {2 * delay, MaxDelay} \subseteq Nat /\ {2 * delay, MaxDelay} # {}
    BY <1>1
  <2>2. QED BY <2>1, MinOfNaturals
<1>3. Backoff(delay) \in InitialDelay..MaxDelay
  <2> PICK b : b = Backoff(delay)
    OBVIOUS
  <2>1. b \in {2 * delay, MaxDelay} /\ b <= MaxDelay
    BY <1>2 DEF Backoff
  <2>2. b \in InitialDelay..MaxDelay
    BY <1>1, <2>1
  <2>3. QED BY <2>2
<1>4. QED BY <1>1, <1>3 DEF ScheduleReconnect, ClocksTyped

\* Every step keeps the clocks, the flags of the two threads and the count of
\* faults in their sets.
LEMMA ClocksNext ==
    ASSUME SessionTyped, [SessionNext]_sessionVars
    PROVE  ClocksTyped'
<1> USE DEF SessionTyped
<1>1. CASE UNCHANGED <<wait, delay, inProgress, shut, errors, faults>>
  BY <1>1 DEF ClocksTyped
<1>2. CASE ClientStep
  <2>1. ASSUME DropClient, UNCHANGED <<inProgress, shut, errors>>, faults' \in 0..MaxFaults
        PROVE  ClocksTyped'
    BY <2>1, ReconnectTyped DEF DropClient, ClocksTyped
  <2>2. CASE FreeClient
    BY <2>1, <2>2 DEF FreeClient, ClocksTyped
  <2>3. CASE TimeoutClient
    BY <2>1, <2>3, FaultTyped DEF TimeoutClient, ClocksTyped
  <2>4. CASE NoticeClient
    BY <1>1, <2>4 DEF NoticeClient
  <2>5. CASE CloseClient
    BY <2>5, FaultTyped DEF CloseClient, ClocksTyped
  <2>6. CASE ShutdownClient
    BY <2>6 DEF ShutdownClient, ClocksTyped
  <2>7. CASE Elapse
    <3>1. wait \in 0..MaxDelay /\ wait > 0 /\ wait' = wait - 1 /\ MaxDelay \in Nat
      BY <2>7, SessionAssumption DEF Elapse, ClocksTyped
    <3>2. wait' \in 0..MaxDelay
      BY <3>1
    <3>3. UNCHANGED <<delay, inProgress, shut, errors, faults>>
      BY <2>7 DEF Elapse
    <3>4. QED BY <3>2, <3>3 DEF ClocksTyped
  <2>8. ASSUME NEW ok \in BOOLEAN, Attempt(ok) PROVE ClocksTyped'
    <3>1. /\ Fault(~ok) /\ inProgress' = ok /\ UNCHANGED <<shut, errors>>
          /\ UNCHANGED <<wait, delay>> \/ ScheduleReconnect
      BY <2>8 DEF Attempt
    <3>2. QED BY <3>1, ReconnectTyped, FaultTyped DEF ClocksTyped
  <2>9. ASSUME NEW e, Reconnected(e)
        PROVE  inProgress' \in BOOLEAN /\ delay' \in InitialDelay..MaxDelay
    <3>1. InitialDelay \in InitialDelay..MaxDelay
      BY SessionAssumption
    <3>2. \/ inProgress' = FALSE /\ delay' = InitialDelay
          \/ UNCHANGED <<inProgress, delay>>
      BY <2>9 DEF Reconnected
    <3>3. QED BY <3>1, <3>2 DEF ClocksTyped
  <2>10. ASSUME NEW ok \in BOOLEAN, TickClient(ok) PROVE ClocksTyped'
    <3>1. PICK e : Reconnected(e)
      BY <2>10 DEF TickClient
    <3>2. Fault(~ok) /\ UNCHANGED <<wait, shut, errors>>
      BY <2>10 DEF TickClient
    <3>3. QED BY <2>9, <3>1, <3>2, FaultTyped DEF ClocksTyped
  <2>11. ASSUME NEW ok \in BOOLEAN, ClientHello(ok) PROVE ClocksTyped'
    <3>1. Fault(~ok) /\ UNCHANGED <<wait, shut>>
      BY <2>11 DEF ClientHello, ReadClient
    <3>2. CASE ErrClient
      BY <3>1, <3>2, FaultTyped DEF ErrClient, ClocksTyped
    <3>3. CASE ~ErrClient
      <4>1. PICK e : Reconnected(e)
        BY <2>11, <3>3 DEF ClientHello
      <4>2. UNCHANGED errors
        BY <2>11, <3>3 DEF ClientHello
      <4>3. QED BY <2>9, <3>1, <4>1, <4>2, FaultTyped DEF ClocksTyped
    <3>4. QED BY <3>2, <3>3
  <2>12. CASE ClientAccepted
    BY <2>12 DEF ClientAccepted, ReadClient, ErrClient, ClocksTyped
  <2>13. CASE ClientRefused
    BY <2>13 DEF ClientRefused, ReadClient, ErrClient, ClocksTyped
  <2>14. QED
    BY <1>2, <2>2, <2>3, <2>4, <2>5, <2>6, <2>7, <2>8, <2>10, <2>11, <2>12, <2>13 DEF ClientStep
<1>3. CASE ServerStep
  <2>1. ASSUME NEW h, Fault(h), UNCHANGED <<wait, delay, inProgress, shut>>,
               errors' = errors \/ errors' = errors \cup {"server"}
        PROVE  ClocksTyped'
    BY <2>1, FaultTyped DEF ClocksTyped
  <2>2. ASSUME UNCHANGED <<wait, delay, inProgress, shut, faults>>,
               errors' = errors \/ errors' = errors \cup {"server"}
        PROVE  ClocksTyped'
    BY <2>2 DEF ClocksTyped
  <2>3. CASE ShutdownServer
    BY <2>3 DEF ShutdownServer, ClocksTyped
  <2>4. CASE Accept
    BY <1>1, <2>4 DEF Accept
  <2>5. ASSUME NEW i \in Ids, FreeServer(i) \/ NoticeServer(i) PROVE ClocksTyped'
    BY <1>1, <2>5 DEF FreeServer, NoticeServer
  <2>6. ASSUME NEW i \in Ids, TimeoutServer(i) PROVE ClocksTyped'
    BY <2>1, <2>6 DEF TimeoutServer
  <2>7. ASSUME NEW i \in Ids, CloseServer(i) PROVE ClocksTyped'
    BY <2>1, <2>7 DEF CloseServer
  <2>8. ASSUME NEW i \in Ids, ServerSubscribe(i) PROVE ClocksTyped'
    BY <2>2, <2>8 DEF ServerSubscribe, ReadServer, ErrServer
  <2>9. ASSUME NEW i \in Ids, NEW ok \in BOOLEAN, TickServer(i, ok) PROVE ClocksTyped'
    <3>1. PICK h : Fault(h)
      BY <2>9 DEF TickServer
    <3>2. UNCHANGED <<wait, delay, inProgress, shut, errors>>
      BY <2>9 DEF TickServer
    <3>3. QED BY <2>1, <3>1, <3>2
  <2>10. ASSUME NEW i \in Ids, NEW ok \in BOOLEAN, ServerHello(i, ok) PROVE ClocksTyped'
    BY <2>1, <2>10 DEF ServerHello, ReadServer, ErrServer
  <2>11. ASSUME NEW i \in Ids, NEW yes \in BOOLEAN, NEW ok \in BOOLEAN,
                ServerAuthRequest(i, yes, ok)
         PROVE  ClocksTyped'
    BY <2>1, <2>11 DEF ServerAuthRequest, ReadServer, ErrServer
  <2>12. QED
    BY <1>3, <2>3, <2>4, <2>5, <2>6, <2>7, <2>8, <2>9, <2>10, <2>11 DEF ServerStep
<1>4. CASE UNCHANGED sessionVars
  BY <1>1, <1>4 DEF sessionVars
<1>5. QED BY <1>2, <1>3, <1>4 DEF SessionNext

\* Every step leaves frames of the handshake, and nothing else, in each stream.
LEMMA ChannelsNext ==
    ASSUME SessionTyped, [SessionNext]_sessionVars
    PROVE  ChannelsTyped'
<1>1. /\ toServer \in [Ids -> Seq(Frames)] /\ toClient \in [Ids -> Seq(Frames)]
      /\ cid \in Ids \cup {0} /\ (cid = 0) = (client.st = "none")
  BY DEF SessionTyped, ChannelsTyped, ClientNamed
<1>2. CASE UNCHANGED <<toServer, toClient>>
  BY <1>1, <1>2 DEF ChannelsTyped
<1>3. ASSUME NEW f \in [Ids -> Seq(Frames)], NEW i \in Ids \cup {0}
      PROVE  /\ [f EXCEPT ![i] = <<>>] \in [Ids -> Seq(Frames)]
             /\ \A x \in Seq(Frames) : [f EXCEPT ![i] = x] \in [Ids -> Seq(Frames)]
             /\ i # 0 => f[i] \in Seq(Frames)
  <2>1. <<>> \in Seq(Frames)
    OBVIOUS
  <2>2. QED BY <1>3, <2>1
<1>4. ASSUME NEW q \in Seq(Frames)
      PROVE  /\ q # <<>> => Tail(q) \in Seq(Frames)
             /\ \A x \in Frames : Append(q, x) \in Seq(Frames)
             /\ \A p \in Seq(Frames), r \in Seq(Frames) : q \o p \o r \in Seq(Frames)
  BY <1>4
<1>5. /\ <<>> \in Seq(Frames) /\ <<"HELLO">> \in Seq(Frames) /\ <<"AUTH_REQUEST">> \in Seq(Frames)
      /\ {"HELLO", "ACCEPTED", "REFUSED", "SUBSCRIBE"} \subseteq Frames
  BY DEF Frames
<1>6. \A e, w : AuthFrames(e, w) \in Seq(Frames)
  BY <1>5 DEF AuthFrames
<1>7. CASE ClientStep
  <2>1. ASSUME DropClient PROVE ChannelsTyped'
    <3>1. /\ toClient' = [toClient EXCEPT ![cid] = <<>>]
          /\ toServer' = [toServer EXCEPT ![cid] = <<>>] \/ toServer' = toServer
      BY <2>1 DEF DropClient
    <3>2. [toClient EXCEPT ![cid] = <<>>] \in [Ids -> Seq(Frames)]
      BY <1>1, <1>3
    <3>3. [toServer EXCEPT ![cid] = <<>>] \in [Ids -> Seq(Frames)]
      BY <1>1, <1>3
    <3>4. QED BY <1>1, <3>1, <3>2, <3>3, Zenon DEF ChannelsTyped
  <2>2. CASE FreeClient \/ TimeoutClient
    BY <2>1, <2>2 DEF FreeClient, TimeoutClient
  <2>3. CASE NoticeClient \/ CloseClient \/ ShutdownClient \/ Elapse
    BY <1>2, <2>3 DEF NoticeClient, CloseClient, ShutdownClient, Elapse
  <2>4. ASSUME NEW ok \in BOOLEAN, Attempt(ok) PROVE ChannelsTyped'
    BY <1>2, <2>4 DEF Attempt
  <2>5. ASSUME NEW ok \in BOOLEAN, TickClient(ok) PROVE ChannelsTyped'
    <3> DEFINE e == [client EXCEPT !.quic = TRUE, !.sent = ok]
    <3> PICK hello : hello = IF ok THEN <<"HELLO">> ELSE <<>>
      OBVIOUS
    <3> PICK auth : auth = AuthFrames(e, TRUE)
      OBVIOUS
    <3>1. /\ cid # 0 /\ toClient' = toClient
          /\ toServer' = [toServer EXCEPT ![cid] = toServer[cid] \o hello \o auth]
      BY <1>1, <2>5 DEF TickClient
    <3>2. hello \in Seq(Frames) /\ auth \in Seq(Frames)
      BY <1>5, <1>6
    <3>3. toServer[cid] \o hello \o auth \in Seq(Frames)
      BY <1>1, <1>4, <3>1, <3>2
    <3> HIDE DEF e
    <3>4. QED BY <1>1, <1>3, <3>1, <3>3 DEF ChannelsTyped
  <2>6. ASSUME NEW frame, ReadClient(frame)
        PROVE  cid # 0 /\ toClient' \in [Ids -> Seq(Frames)]
    <3>1. /\ cid # 0 /\ toClient[cid] # <<>>
          /\ toClient' = [toClient EXCEPT ![cid] = Tail(toClient[cid])]
      BY <1>1, <2>6 DEF ReadClient, Takes
    <3>2. Tail(toClient[cid]) \in Seq(Frames)
      BY <1>1, <1>4, <3>1
    <3>3. QED BY <1>1, <1>3, <3>1, <3>2
  <2>7. ASSUME NEW ok \in BOOLEAN, ClientHello(ok) PROVE ChannelsTyped'
    <3>1. cid # 0 /\ toClient' \in [Ids -> Seq(Frames)]
      BY <2>6, <2>7 DEF ClientHello
    <3>2. CASE toServer' = toServer
      BY <1>1, <3>1, <3>2 DEF ChannelsTyped
    <3>3. CASE toServer' # toServer
      <4> DEFINE e == [client EXCEPT !.rcvd = TRUE, !.sent = TRUE]
      <4> PICK hello : hello = IF client.sent THEN <<>> ELSE <<"HELLO">>
        OBVIOUS
      <4> PICK auth : auth = AuthFrames(e, ok)
        OBVIOUS
      <4>1. toServer' = [toServer EXCEPT ![cid] = toServer[cid] \o hello \o auth]
        BY <2>7, <3>3 DEF ClientHello, ErrClient
      <4>2. hello \in Seq(Frames) /\ auth \in Seq(Frames)
        BY <1>5, <1>6
      <4> HIDE DEF e
      <4>3. toServer[cid] \o hello \o auth \in Seq(Frames)
        BY <1>1, <1>4, <3>1, <4>2
      <4>4. QED BY <1>1, <1>3, <3>1, <4>1, <4>3 DEF ChannelsTyped
    <3>4. QED BY <3>2, <3>3
  <2>8. CASE ClientAccepted
    <3>1. cid # 0 /\ toClient' \in [Ids -> Seq(Frames)]
      BY <2>6, <2>8 DEF ClientAccepted
    <3>2. \/ toServer' = toServer
          \/ toServer' = [toServer EXCEPT ![cid] = Append(toServer[cid], "SUBSCRIBE")]
      BY <2>8 DEF ClientAccepted, ErrClient
    <3>3. Append(toServer[cid], "SUBSCRIBE") \in Seq(Frames)
      BY <1>1, <1>3, <1>4, <1>5, <3>1
    <3>4. [toServer EXCEPT ![cid] = Append(toServer[cid], "SUBSCRIBE")] \in [Ids -> Seq(Frames)]
      BY <1>1, <1>3, <3>1, <3>3
    <3>5. QED BY <1>1, <3>1, <3>2, <3>4, Zenon DEF ChannelsTyped
  <2>9. CASE ClientRefused
    <3>1. toClient' \in [Ids -> Seq(Frames)] /\ toServer' = toServer
      BY <2>6, <2>9 DEF ClientRefused, ErrClient
    <3>2. QED BY <1>1, <3>1 DEF ChannelsTyped
  <2>10. QED
    BY <1>7, <2>2, <2>3, <2>4, <2>5, <2>7, <2>8, <2>9 DEF ClientStep
<1>8. CASE ServerStep
  <2>1. ASSUME NEW i \in Ids, DropServer(i) PROVE ChannelsTyped'
    <3>1. /\ toServer' = [toServer EXCEPT ![i] = <<>>]
          /\ toClient' = [toClient EXCEPT ![i] = <<>>] \/ toClient' = toClient
      BY <2>1 DEF DropServer
    <3>2. [toClient EXCEPT ![i] = <<>>] \in [Ids -> Seq(Frames)]
      BY <1>1, <1>3
    <3>3. [toServer EXCEPT ![i] = <<>>] \in [Ids -> Seq(Frames)]
      BY <1>1, <1>3
    <3>4. QED BY <1>1, <3>1, <3>2, <3>3, Zenon DEF ChannelsTyped
  <2>2. ASSUME NEW i \in Ids, FreeServer(i) \/ TimeoutServer(i) PROVE ChannelsTyped'
    BY <2>1, <2>2 DEF FreeServer, TimeoutServer
  <2>3. ASSUME NEW i \in Ids, NoticeServer(i) \/ CloseServer(i) PROVE ChannelsTyped'
    BY <1>2, <2>3 DEF NoticeServer, CloseServer
  <2>4. CASE ShutdownServer \/ Accept
    BY <1>2, <2>4 DEF ShutdownServer, Accept
  <2>5. ASSUME NEW i \in Ids, NEW x \in Frames
        PROVE  [toClient EXCEPT ![i] = Append(toClient[i], x)] \in [Ids -> Seq(Frames)]
    <3>1. Append(toClient[i], x) \in Seq(Frames)
      BY <1>1, <1>4
    <3>2. QED BY <1>1, <1>3, <3>1
  <2>6. ASSUME NEW i \in Ids, NEW ok \in BOOLEAN, TickServer(i, ok) PROVE ChannelsTyped'
    <3>1. /\ toServer' = toServer
          /\ \/ toClient' = toClient
             \/ toClient' = [toClient EXCEPT ![i] = Append(toClient[i], "HELLO")]
      BY <2>6 DEF TickServer
    <3>2. [toClient EXCEPT ![i] = Append(toClient[i], "HELLO")] \in [Ids -> Seq(Frames)]
      BY <1>5, <2>5
    <3>3. QED BY <1>1, <3>1, <3>2, Zenon DEF ChannelsTyped
  <2>7. ASSUME NEW i \in Ids, NEW frame, ReadServer(i, frame)
        PROVE  toServer' \in [Ids -> Seq(Frames)]
    <3>1. /\ toServer[i] # <<>> /\ toServer' = [toServer EXCEPT ![i] = Tail(toServer[i])]
      BY <2>7 DEF ReadServer, Takes
    <3>2. Tail(toServer[i]) \in Seq(Frames)
      BY <1>1, <1>4, <3>1
    <3>3. QED BY <1>1, <1>3, <3>1, <3>2
  <2>8. ASSUME NEW i \in Ids, NEW ok \in BOOLEAN, ServerHello(i, ok) PROVE ChannelsTyped'
    <3>1. toServer' \in [Ids -> Seq(Frames)]
      BY <2>7, <2>8 DEF ServerHello
    <3>2. \/ toClient' = toClient
          \/ toClient' = [toClient EXCEPT ![i] = Append(toClient[i], "HELLO")]
      BY <2>8 DEF ServerHello, ErrServer
    <3>3. [toClient EXCEPT ![i] = Append(toClient[i], "HELLO")] \in [Ids -> Seq(Frames)]
      BY <1>5, <2>5
    <3>4. QED BY <1>1, <3>1, <3>2, <3>3, Zenon DEF ChannelsTyped
  <2>9. ASSUME NEW i \in Ids, NEW yes \in BOOLEAN, NEW ok \in BOOLEAN,
               ServerAuthRequest(i, yes, ok)
        PROVE  ChannelsTyped'
    <3>1. toServer' \in [Ids -> Seq(Frames)]
      BY <2>7, <2>9 DEF ServerAuthRequest
    <3>2. \/ toClient' = toClient
          \/ \E x \in Frames : toClient' = [toClient EXCEPT ![i] = Append(toClient[i], x)]
      BY <1>5, <2>9 DEF ServerAuthRequest, ErrServer, RespondAuth
    <3>3. \A x \in Frames :
            [toClient EXCEPT ![i] = Append(toClient[i], x)] \in [Ids -> Seq(Frames)]
      BY <2>5
    <3>4. QED BY <1>1, <3>1, <3>2, <3>3, Zenon DEF ChannelsTyped
  <2>10. ASSUME NEW i \in Ids, ServerSubscribe(i) PROVE ChannelsTyped'
    <3>1. toServer' \in [Ids -> Seq(Frames)] /\ toClient' = toClient
      BY <2>7, <2>10 DEF ServerSubscribe, ErrServer
    <3>2. QED BY <1>1, <3>1 DEF ChannelsTyped
  <2>11. QED
    BY <1>8, <2>2, <2>3, <2>4, <2>6, <2>8, <2>9, <2>10 DEF ServerStep
<1>9. CASE UNCHANGED sessionVars
  BY <1>2, <1>9 DEF sessionVars
<1>10. QED BY <1>7, <1>8, <1>9 DEF SessionNext

\* Every step keeps the two ends well formed, the client's identity set exactly
\* while it has a connection, and the server's table within max_connections.
LEMMA EndsNext ==
    ASSUME SessionTyped, [SessionNext]_sessionVars
    PROVE  EndsTyped' /\ ClientNamed' /\ TableBounded'
<1>1. /\ client \in End /\ server \in [Ids -> End] /\ Cardinality(Held) <= MaxConnections
      /\ cid \in Ids \cup {0} /\ (cid = 0) = (client.st = "none")
  BY DEF SessionTyped, EndsTyped, ClientNamed, TableBounded
<1> DEFINE Kept == EndsTyped' /\ ClientNamed' /\ TableBounded'
<1>2. ASSUME server' = server, client' \in End, cid' \in Ids \cup {0},
             (cid' = 0) = (client'.st = "none")
      PROVE  Kept
  <2>1. Held' = Held
    BY <1>2 DEF Held
  <2>2. Ids' = Ids /\ End' = End
    BY DEF Ids, End
  <2>3. QED BY <1>1, <1>2, <2>1, <2>2 DEF EndsTyped, ClientNamed, TableBounded
<1>3. ASSUME server' = server, cid' = cid, client' \in End,
             client'.st = client.st \/ (client.st = "open" /\ client'.st = "closing")
      PROVE  Kept
  <2>1. (client'.st = "none") = (client.st = "none")
    BY <1>3
  <2>2. QED BY <1>1, <1>2, <1>3, <2>1
<1>4. ASSUME UNCHANGED <<cid, client, server>>
      PROVE  Kept
  BY <1>1, <1>2, <1>4
<1>5. CASE ClientStep
  <2>1. ASSUME DropClient, server' = server PROVE Kept
    BY <1>2, <2>1, NoneFits DEF DropClient
  <2>2. CASE FreeClient \/ TimeoutClient
    BY <2>1, <2>2 DEF FreeClient, TimeoutClient
  <2>3. [client EXCEPT !.st = "closing"] \in End /\ [client EXCEPT !.st = "closing"].st = "closing"
    BY <1>1 DEF End
  <2>4. CASE NoticeClient \/ CloseClient
    <3>1. /\ client.st = "open" /\ client' = [client EXCEPT !.st = "closing"]
          /\ UNCHANGED <<cid, server>>
      BY <2>4 DEF NoticeClient, CloseClient
    <3>2. QED BY <1>3, <2>3, <3>1
  <2>5. CASE ShutdownClient
    <3>1. /\ client' = IF client.st = "open" THEN [client EXCEPT !.st = "closing"] ELSE client
          /\ UNCHANGED <<cid, server>>
      BY <2>5 DEF ShutdownClient
    <3>2. QED BY <1>1, <1>3, <2>3, <3>1
  <2>6. CASE Elapse
    BY <1>4, <2>6 DEF Elapse
  <2>7. ASSUME NEW ok \in BOOLEAN, Attempt(ok) PROVE Kept
    <3>1. CASE ok
      <4>1. cid' = Min(Ids \ Held) /\ client' = Started /\ server' = server
        BY <2>7, <3>1 DEF Attempt
      <4>2. cid' \in Ids /\ cid' # 0
        BY <1>1, <4>1, IdentityIsFree, IdsFinite
      <4>3. QED BY <1>2, <4>1, <4>2, NoneFits
    <3>2. CASE ~ok
      BY <1>4, <2>7, <3>2 DEF Attempt
    <3>3. QED BY <3>1, <3>2
  <2>8. ASSUME NEW e \in End
        PROVE  Emitted(e) \in End /\ Emitted(e).st = e.st
    BY <2>8, EmittedEnd
  <2>9. ASSUME NEW ok \in BOOLEAN, TickClient(ok) PROVE Kept
    <3> PICK e : e = [client EXCEPT !.quic = TRUE, !.sent = ok]
      OBVIOUS
    <3>1. e \in End /\ e.st = client.st
      BY <1>1 DEF End
    <3>2. client' = Emitted(e) /\ UNCHANGED <<cid, server>>
      BY <2>9 DEF TickClient
    <3>3. QED BY <1>3, <2>8, <3>1, <3>2
  <2>10. CASE ErrClient /\ client.st = "open" /\ UNCHANGED <<cid, server>>
    BY <1>3, <2>3, <2>10 DEF ErrClient
  <2>11. ASSUME NEW ok \in BOOLEAN, ClientHello(ok) PROVE Kept
    <3> PICK e : e = [client EXCEPT !.rcvd = TRUE, !.sent = TRUE]
      OBVIOUS
    <3>1. e \in End /\ e.st = client.st
      BY <1>1 DEF End
    <3>2. client.st = "open" /\ UNCHANGED <<cid, server>> /\ (ErrClient \/ client' = Emitted(e))
      BY <2>11 DEF ClientHello, ReadClient
    <3>3. CASE ErrClient
      BY <2>10, <3>2, <3>3
    <3>4. CASE client' = Emitted(e)
      BY <1>3, <2>8, <3>1, <3>2, <3>4
    <3>5. QED BY <3>2, <3>3, <3>4
  <2>12. CASE ClientAccepted
    <3> PICK e : e = [client EXCEPT !.auth = TRUE]
      OBVIOUS
    <3>1. e \in End /\ e.st = client.st
      BY <1>1 DEF End
    <3>2. client.st = "open" /\ UNCHANGED <<cid, server>> /\ (ErrClient \/ client' = e)
      BY <2>12 DEF ClientAccepted, ReadClient
    <3>3. CASE ErrClient
      BY <2>10, <3>2, <3>3
    <3>4. CASE client' = e
      BY <1>3, <3>1, <3>2, <3>4
    <3>5. QED BY <3>2, <3>3, <3>4
  <2>13. CASE ClientRefused
    <3>1. client.st = "open" /\ UNCHANGED <<cid, server>> /\ (ErrClient \/ client' = client)
      BY <2>13 DEF ClientRefused, ReadClient
    <3>2. CASE ErrClient
      BY <2>10, <3>1, <3>2
    <3>3. CASE client' = client
      BY <1>4, <3>1, <3>3
    <3>4. QED BY <3>1, <3>2, <3>3
  <2>14. QED
    BY <1>5, <2>2, <2>4, <2>5, <2>6, <2>7, <2>9, <2>11, <2>12, <2>13 DEF ClientStep
<1>6. CASE ServerStep
  <2>1. ASSUME UNCHANGED <<cid, client>>, server' \in [Ids -> End],
               Cardinality(Held') <= MaxConnections
        PROVE  Kept
    <3>1. Ids' = Ids /\ End' = End
      BY DEF Ids, End
    <3>2. QED BY <1>1, <2>1, <3>1 DEF EndsTyped, ClientNamed, TableBounded
  <2>2. ASSUME UNCHANGED <<cid, client>>, NEW i \in Ids, NEW s \in End,
               server' = [server EXCEPT ![i] = s],
               s.st = "none" \/ server[i].st # "none" \/ Cardinality(Held) < MaxConnections
        PROVE  Kept
    <3>1. server' \in [Ids -> End] /\ Cardinality(Held') <= MaxConnections
      BY <1>1, <2>2, TableStays
    <3>2. QED BY <2>1, <2>2, <3>1
  <2>3. ASSUME NEW i \in Ids
        PROVE  /\ server[i] \in End
               /\ [server[i] EXCEPT !.st = "closing"] \in End
               /\ [server[i] EXCEPT !.auth = TRUE] \in End
               /\ [server[i] EXCEPT !.rcvd = TRUE, !.sent = TRUE] \in End
    BY <1>1 DEF End
  <2>4. CASE ShutdownServer
    <3>1. /\ UNCHANGED <<cid, client>>
          /\ server' = [i \in Ids |-> IF server[i].st = "open"
                                      THEN [server[i] EXCEPT !.st = "closing"] ELSE server[i]]
      BY <2>4 DEF ShutdownServer
    <3>2. \A i \in Ids : server'[i] \in End /\ (server'[i].st = "none" <=> server[i].st = "none")
      <4> SUFFICES ASSUME NEW i \in Ids
                   PROVE  server'[i] \in End /\ (server'[i].st = "none" <=> server[i].st = "none")
        OBVIOUS
      <4> PICK s : s = [server[i] EXCEPT !.st = "closing"]
        OBVIOUS
      <4>1. s \in End /\ s.st = "closing"
        BY <1>1 DEF End
      <4>2. server'[i] = IF server[i].st = "open" THEN s ELSE server[i]
        BY <3>1
      <4>3. QED BY <1>1, <4>1, <4>2
    <3>3. Held' = Held
      BY <3>2 DEF Held, Ids
    <3>4. server' \in [Ids -> End]
      <4>1. server' = [i \in Ids |-> server'[i]]
        BY <3>1
      <4>2. QED BY <3>2, <4>1
    <3>5. QED BY <1>1, <2>1, <3>1, <3>3, <3>4
  <2>5. CASE Accept
    <3>1. /\ cid # 0 /\ UNCHANGED <<cid, client>> /\ server' = [server EXCEPT ![cid] = Started]
          /\ Cardinality(Held) < MaxConnections
      BY <1>1, <2>5 DEF Accept
    <3>2. cid \in Ids
      BY <1>1, <3>1
    <3>3. QED BY <2>2, <3>1, <3>2, NoneFits
  <2>6. ASSUME NEW i \in Ids, FreeServer(i) \/ TimeoutServer(i) PROVE Kept
    <3>1. server' = [server EXCEPT ![i] = None] /\ UNCHANGED <<cid, client>>
      BY <2>6 DEF FreeServer, TimeoutServer, DropServer
    <3>2. QED BY <2>2, <3>1, NoneFits
  <2>7. ASSUME NEW i \in Ids, server[i].st = "open", UNCHANGED <<cid, client>>,
               server' = [server EXCEPT ![i].st = "closing"]
        PROVE  Kept
    <3> PICK s : s = [server[i] EXCEPT !.st = "closing"]
      OBVIOUS
    <3>1. server[i].st # "none" /\ server' = [server EXCEPT ![i] = s] /\ s \in End
      BY <2>3, <2>7
    <3>2. QED BY <2>2, <2>7, <3>1
  <2>8. ASSUME NEW i \in Ids, NoticeServer(i) \/ CloseServer(i) PROVE Kept
    BY <2>7, <2>8 DEF NoticeServer, CloseServer
  <2>9. ASSUME NEW i \in Ids, NEW ok \in BOOLEAN, TickServer(i, ok) PROVE Kept
    <3> DEFINE hello == ~server[i].sent /\ toServer[i] # <<>>
    <3> DEFINE t == [server[i] EXCEPT !.quic = TRUE, !.sent = server[i].sent \/ (hello /\ ok)]
    <3>1. /\ server[i].st # "none" /\ UNCHANGED <<cid, client>>
          /\ server' = [server EXCEPT ![i] = Emitted(t)]
      BY <2>9 DEF TickServer
    <3>2. t \in End
      <4> PICK said : said = (server[i].sent \/ (hello /\ ok))
        OBVIOUS
      <4>1. said \in BOOLEAN /\ t = [server[i] EXCEPT !.quic = TRUE, !.sent = said]
        BY Zenon
      <4> HIDE DEF t, hello
      <4>2. /\ [server[i] EXCEPT !.quic = TRUE, !.sent = TRUE] \in End
            /\ [server[i] EXCEPT !.quic = TRUE, !.sent = FALSE] \in End
        BY <2>3 DEF End
      <4>3. said = TRUE \/ said = FALSE
        BY <4>1
      <4>4. QED BY <4>1, <4>2, <4>3, Zenon
    <3> HIDE DEF t
    <3>3. Emitted(t) \in End
      BY <3>2, EmittedEnd
    <3>4. QED BY <2>2, <3>1, <3>3
  <2>10. ASSUME NEW i \in Ids, NEW ok \in BOOLEAN, ServerHello(i, ok) PROVE Kept
    <3> PICK t : t = [server[i] EXCEPT !.rcvd = TRUE, !.sent = TRUE]
      OBVIOUS
    <3>1. server[i].st = "open" /\ UNCHANGED <<cid, client>>
      BY <2>10 DEF ServerHello, ReadServer
    <3>2. \/ server' = [server EXCEPT ![i].st = "closing"]
          \/ server' = [server EXCEPT ![i] = Emitted(t)]
      BY <2>10 DEF ServerHello, ErrServer
    <3>3. Emitted(t) \in End
      BY <2>3, EmittedEnd
    <3>4. QED BY <2>2, <2>7, <3>1, <3>2, <3>3
  <2>11. ASSUME NEW i \in Ids, NEW yes \in BOOLEAN, NEW ok \in BOOLEAN,
                ServerAuthRequest(i, yes, ok)
         PROVE  Kept
    <3> PICK t : t = [server[i] EXCEPT !.auth = TRUE]
      OBVIOUS
    <3>1. server[i].st = "open" /\ UNCHANGED <<cid, client>>
      BY <2>11 DEF ServerAuthRequest, ReadServer
    <3>2. \/ server' = [server EXCEPT ![i].st = "closing"]
          \/ server' = [server EXCEPT ![i] = t]
          \/ server' = server
      BY <2>11 DEF ServerAuthRequest, ErrServer, RespondAuth
    <3>3. t \in End
      BY <2>3
    <3>4. CASE server' = server
      BY <1>4, <3>1, <3>4
    <3>5. QED BY <2>2, <2>7, <3>1, <3>2, <3>3, <3>4
  <2>12. ASSUME NEW i \in Ids, ServerSubscribe(i) PROVE Kept
    <3>1. server[i].st = "open" /\ UNCHANGED <<cid, client>>
      BY <2>12 DEF ServerSubscribe, ReadServer
    <3>2. server' = [server EXCEPT ![i].st = "closing"] \/ server' = server
      BY <2>12 DEF ServerSubscribe, ErrServer
    <3>3. QED BY <1>4, <2>7, <3>1, <3>2
  <2>13. QED
    BY <1>6, <2>4, <2>5, <2>6, <2>8, <2>9, <2>10, <2>11, <2>12 DEF ServerStep
<1>7. CASE UNCHANGED sessionVars
  BY <1>4, <1>7 DEF sessionVars
<1>8. QED BY <1>5, <1>6, <1>7 DEF SessionNext

\* SessionTyped is an invariant: the connection, the streams, the reconnection
\* clock and the table of accepted connections are always well formed.
THEOREM SessionTypes == SessionSpec => []SessionTyped
<1>1. SessionInit => SessionTyped
  <2> SUFFICES ASSUME SessionInit PROVE SessionTyped
    OBVIOUS
  <2>1. 1 \in Ids /\ 1 # 0 /\ MaxDelay \in Nat /\ InitialDelay \in Nat /\ InitialDelay <= MaxDelay
        /\ MaxFaults \in Nat /\ MaxConnections \in Nat
    BY SessionAssumption DEF Ids
  <2>2. Held = {}
    BY NoneFits DEF SessionInit, Held
  <2>3. TableBounded
    BY <2>1, <2>2, FS_EmptySet DEF TableBounded
  <2>4. EndsTyped /\ ClientNamed /\ ChannelsTyped
    BY <2>1, NoneFits DEF SessionInit, EndsTyped, ClientNamed, ChannelsTyped
  <2>5. InitialDelay \in InitialDelay..MaxDelay /\ 0 \in 0..MaxDelay /\ 0 \in 0..MaxFaults
    BY <2>1
  <2>6. ClocksTyped
    <3>1. /\ wait = 0 /\ delay = InitialDelay /\ inProgress = FALSE
          /\ shut = {} /\ errors = {} /\ faults = 0
      BY DEF SessionInit
    <3>2. QED BY <2>5, <3>1 DEF ClocksTyped
  <2>7. QED BY <2>3, <2>4, <2>6 DEF SessionTyped
<1>2. SessionTyped /\ [SessionNext]_sessionVars => SessionTyped'
  <2> SUFFICES ASSUME SessionTyped, [SessionNext]_sessionVars PROVE SessionTyped'
    OBVIOUS
  <2>1. ClocksTyped' /\ ChannelsTyped' /\ EndsTyped' /\ ClientNamed' /\ TableBounded'
    BY ClocksNext, ChannelsNext, EndsNext
  <2>2. QED BY <2>1 DEF SessionTyped
<1>3. QED BY <1>1, <1>2, PTL DEF SessionSpec

\* SessionTypeOK, for any number of connections: the states of both ends, the
\* frames on the control stream and the reconnection delays stay in their sets,
\* and the client has an identity exactly while it has a connection, whatever
\* fails and in whatever order the two threads run.
THEOREM SessionTypesHold == SessionSpec => []SessionTypeOK
<1>1. ASSUME SessionTyped
      PROVE  SessionTypeOK
  <2>1. /\ client \in End /\ server \in [Ids -> End]
        /\ toServer \in [Ids -> Seq(Frames)] /\ toClient \in [Ids -> Seq(Frames)]
    BY <1>1 DEF SessionTyped, EndsTyped, ChannelsTyped
  <2>2. \A e \in {client} \cup {server[i] : i \in Ids} : e \in End
    BY <2>1
  <2>3. \A e \in End : /\ e.st \in {"none", "open", "closing"}
                        /\ {e.quic, e.sent, e.rcvd, e.connected, e.auth} \subseteq BOOLEAN
    BY DEF End
  <2>4. \A q \in Seq(Frames) : \A k \in DOMAIN q : q[k] \in Frames
    OBVIOUS
  <2>5. \A i \in Ids : toServer[i] \in Seq(Frames) /\ toClient[i] \in Seq(Frames)
    BY <2>1
  <2>6. QED BY <1>1, <2>2, <2>3, <2>4, <2>5 DEF SessionTypeOK, SessionTyped, ClientNamed, ClocksTyped
<1>2. QED BY <1>1, SessionTypes, PTL

\* read_datagrams admits a handshake only while conn_count is below
\* max_connections, and the close and free of a connection give its slot back:
\* the server never holds more than max_connections connections.
THEOREM AcceptedWithinLimit == SessionSpec => []TableBounded
<1>1. SessionTyped => TableBounded
  BY DEF SessionTyped
<1>2. QED BY <1>1, SessionTypes, PTL
=============================================================================
