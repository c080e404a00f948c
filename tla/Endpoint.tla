------------------------------- MODULE Endpoint -------------------------------
(***************************************************************************)
(* The application API of qlinq.c: one context with one endpoint, its      *)
(* table of peers, its named streams and the bounded queue of events that  *)
(* the application drains.                                                 *)
(*                                                                         *)
(* The context is used by one thread: the application calls the API,       *)
(* qlinq_service runs the transport, whose events are handled              *)
(* synchronously, and returns.  `phase' says where that thread is.         *)
(*                                                                         *)
(* Abstractions.  Storage is counted in units of one event node; a         *)
(* payload adds to it.  Failed allocations behave like a full queue.       *)
(* Every negative status is "error".  The transport is an input: the       *)
(* events it emits, whether its writes succeed, and the readiness of       *)
(* tracks.                                                                 *)
(***************************************************************************)
EXTENDS Integers, Sequences, FiniteSets, FiniteSetsExt, SequencesExt

CONSTANTS
    Listener,     \* endpoint->listener
    Conns,        \* connections of the transport
    Pubs, Subs,   \* streams that may be opened to publish, to subscribe
    Lossy,        \* the subscribe streams with plain datagram delivery
    MaxEvents,    \* max_queued_events
    MaxBytes,     \* max_queued_event_bytes, in event nodes
    Payloads,     \* storage a record takes, node included
    MaxGroup,     \* bound on the records of one FEC object
    MaxTraffic    \* bound on the transport's events and the streams opened

ASSUME EndpointAssumption ==
    /\ Listener \in BOOLEAN /\ Pubs \cap Subs = {} /\ Lossy \subseteq Subs
    /\ MaxEvents \in Nat \ {0} /\ MaxBytes \in Nat \ {0}
    /\ Payloads \subseteq Nat \ {0} /\ MaxGroup \in Nat \ {0}
    /\ MaxTraffic \in Nat

VARIABLES
    active,      \* endpoint->active
    link,        \* what the transport has of a connection
    peers,       \* endpoint->peers
    readyPeers,  \* ready_peers
    open,        \* active streams
    wired,       \* <<connection, stream>> subscribed in the transport
    known,       \* publish streams with writable_known
    writable,    \* ... with last_writable
    ready,       \* ... for which transport_is_track_ready
    queue,       \* event_head .. event_tail
    status,      \* last_status
    phase,       \* "app", "tick" or "refresh"
    round,       \* sweep of qlinq_service
    todo,        \* streams refresh_writable_events has not visited
    traffic,     \* events of the transport and streams opened so far
    \* history
    waiting,     \* streams that got WOULD_BLOCK and no STREAM_WRITABLE since
    refused,     \* activations the transport refused
    lost,        \* this service call failed at something or lost an event
    ret          \* what qlinq_service returned last

vars == <<active, link, peers, readyPeers, open, wired, known, writable, ready,
          queue, status, phase, round, todo, traffic, waiting, refused, lost,
          ret>>

Ev(type, of, size) == [type |-> type, of |-> of, size |-> size]
Bytes(q) == SumFunction([i \in DOMAIN q |-> q[i].size])
ReadyConns == {c \in Conns : peers[c] = "ready"}

TypeOK ==
    /\ active \in BOOLEAN /\ lost \in BOOLEAN
    /\ link \in [Conns -> {"down", "live", "closing"}]
    /\ peers \in [Conns -> {"absent", "known", "ready"}]
    /\ readyPeers \in Nat
    /\ open \subseteq Pubs \cup Subs
    /\ wired \subseteq Conns \X Subs /\ refused \subseteq Conns \X Subs
    /\ known \subseteq Pubs /\ writable \subseteq Pubs /\ ready \subseteq Pubs
    /\ todo \subseteq Pubs /\ waiting \subseteq Pubs
    /\ Len(queue) <= MaxEvents /\ Bytes(queue) <= MaxBytes
    /\ status \in {"ok", "again", "error"} /\ ret \in {"ok", "again", "error"}
    /\ phase \in {"app", "tick", "refresh"} /\ round \in 1..2
    /\ traffic \in 0..MaxTraffic

Init ==
    /\ active = TRUE
    /\ link = [c \in Conns |-> "down"]
    /\ peers = [c \in Conns |-> "absent"] /\ readyPeers = 0
    /\ open = {} /\ wired = {} /\ known = {} /\ writable = {} /\ ready = {}
    /\ queue = <<>> /\ status = "ok" /\ phase = "app" /\ round = 1
    /\ todo = {} /\ traffic = 0
    /\ waiting = {} /\ refused = {} /\ lost = FALSE /\ ret = "ok"

-----------------------------------------------------------------------------
(* The event queue *)

\* queue_event: what fits of some events of one size, in order
Room(size) ==
    LET slots == MaxEvents - Len(queue)
        space == (MaxBytes - Bytes(queue)) \div size
    IN  IF slots < space THEN slots ELSE space

\* Queue the events in order.  One that does not fit is lost; smaller ones
\* behind it may still fit.
Fitting(events) ==
    FoldLeft(LAMBDA q, e :
               IF Len(q) < MaxEvents /\ Bytes(q) + e.size <= MaxBytes
               THEN Append(q, e) ELSE q,
             queue, events)

\* ... `failure' when the handler reports one itself (queue_error)
Queue(events, failure) ==
    /\ queue' = Fitting(events)
    /\ LET complete == Len(queue') = Len(queue) + Len(events) IN
       /\ status' = IF complete /\ ~failure THEN status ELSE "error"
       /\ lost' = (lost \/ (phase # "app" /\ (failure \/ ~complete)))

Error == Ev("error", "endpoint", 1)
Errors(n) == [i \in 1..n |-> Error]

-----------------------------------------------------------------------------
(* Transport events, handled by on_transport_event during a tick *)

Handling ==
    /\ phase = "tick" /\ traffic < MaxTraffic
    /\ traffic' = traffic + 1

\* A connection completed HELLO.  The connecting side sends its secret.
OnConnected(c, written) ==
    /\ Handling /\ link[c] = "down"
    /\ link' = [link EXCEPT ![c] = "live"]
    /\ peers' = [peers EXCEPT ![c] = IF @ = "absent" THEN "known" ELSE @]
    /\ LET failed == ~Listener /\ ~written IN
       Queue(IF failed THEN <<Error>> ELSE <<>>, failed)
    /\ UNCHANGED <<active, readyPeers, open, wired, known, writable, ready,
                   phase, round, todo, waiting, refused, ret>>

\* Faulty variant: subscriptions wait for the application to open a stream.
MarkPeerReady_NoActivation(c, fails) ==
    /\ peers' = [peers EXCEPT ![c] = "ready"]
    /\ readyPeers' = IF peers[c] = "ready" THEN readyPeers ELSE readyPeers + 1
    /\ Queue(<<Ev("ready", c, 1)>>, FALSE)
    /\ UNCHANGED <<wired, refused>>

\* mark_peer_ready: a peer becomes ready once; the streams that are open are
\* subscribed on it, `fails' of them without success.
MarkPeerReady(c, fails) ==
    IF peers[c] = "ready"
    THEN /\ fails = {}
         /\ Queue(<<>>, FALSE)
         /\ UNCHANGED <<peers, readyPeers, wired, refused>>
    ELSE /\ fails \subseteq open \cap Subs
         /\ peers' = [peers EXCEPT ![c] = "ready"]
         /\ readyPeers' = readyPeers + 1
         /\ wired' = wired \cup {<<c, s>> : s \in (open \cap Subs) \ fails}
         /\ refused' = refused \cup {<<c, s>> : s \in fails}
         /\ Queue(Errors(Cardinality(fails)) \o <<Ev("ready", c, 1)>>,
                  fails # {})

\* The listener decides on a secret and its answer is written, or the
\* connecting side gets the answer.
OnAuthAccepted(c, fails) ==
    /\ Handling /\ link[c] = "live"
    /\ MarkPeerReady(c, fails)
    /\ UNCHANGED <<active, link, open, known, writable, ready, phase, round,
                   todo, waiting, ret>>

OnAuthRejected(c, answered) ==
    /\ Handling /\ link[c] = "live"
    /\ answered \/ Listener
    /\ link' = IF answered /\ Listener THEN [link EXCEPT ![c] = "closing"]
                                       ELSE link
    /\ Queue(IF answered THEN <<Ev("rejected", c, 1)>> ELSE <<Error>>, ~answered)
    /\ UNCHANGED <<active, peers, readyPeers, open, wired, known, writable,
                   ready, phase, round, todo, waiting, refused, ret>>

\* The connection is gone; one that failed its handshake was never a peer.
OnDisconnected(c) ==
    /\ Handling
    /\ link' = [link EXCEPT ![c] = "down"]
    /\ peers' = [peers EXCEPT ![c] = "absent"]
    /\ readyPeers' = IF peers[c] = "ready" THEN readyPeers - 1 ELSE readyPeers
    /\ wired' = {w \in wired : w[1] # c}
    /\ refused' = {w \in refused : w[1] # c}
    /\ Queue(<<Ev("disconnected", c, 1)>>, FALSE)
    /\ UNCHANGED <<active, open, known, writable, ready, phase, round, todo,
                   waiting, ret>>

\* Joins, leaves, keyframe requests and lost objects
OnNotice(c) ==
    /\ Handling /\ peers[c] = "ready"
    /\ Queue(<<Ev("notice", c, 1)>>, FALSE)
    /\ UNCHANGED <<active, link, peers, readyPeers, open, wired, known,
                   writable, ready, phase, round, todo, waiting, refused, ret>>

\* queue_received_object: the records of an object, one unless it is a group.
\* The first that does not fit ends it, and unless the stream is lossy also
\* the connection.  Objects that came with it are still handed over.  The
\* tail of a malformed group is dropped.
OnObject(c, s, n, size, malformed) ==
    /\ Handling /\ link[c] # "down" /\ <<c, s>> \in wired
    /\ LET records == IF s \in open
                      THEN [i \in 1..n |-> Ev("record", c, size)] ELSE <<>>
           fits == Min({Len(records), Room(size)})
           rejected == fits < Len(records)
       IN  /\ Queue(SubSeq(records, 1, fits)
                      \o (IF rejected \/ malformed THEN <<Error>> ELSE <<>>),
                    rejected \/ malformed)
           /\ link' = IF rejected /\ s \notin Lossy
                      THEN [link EXCEPT ![c] = "closing"] ELSE link
    /\ UNCHANGED <<active, peers, readyPeers, open, wired, known, writable,
                   ready, phase, round, todo, waiting, refused, ret>>

\* The transport's queues fill and drain.
Readiness(s) ==
    /\ phase = "tick"
    /\ ready' = IF s \in ready THEN ready \ {s} ELSE ready \cup {s}
    /\ UNCHANGED <<active, link, peers, readyPeers, open, wired, known,
                   writable, queue, status, phase, round, todo, traffic,
                   waiting, refused, lost, ret>>

-----------------------------------------------------------------------------
(* The application's calls *)

Calling == phase = "app" /\ active

\* open_stream; a stream to subscribe is activated on the ready peers, `fails'
\* of them without success.
OpenStream(s, fails) ==
    /\ Calling /\ s \notin open
    /\ traffic < MaxTraffic /\ traffic' = traffic + 1
    /\ fails \subseteq (IF s \in Subs THEN ReadyConns ELSE {})
    /\ open' = open \cup {s}
    /\ IF s \in Subs
       THEN /\ wired' = wired \cup {<<c, s>> : c \in ReadyConns \ fails}
            /\ refused' = (refused \ {<<c, s>> : c \in ReadyConns \ fails})
                            \cup {<<c, s>> : c \in fails}
       ELSE UNCHANGED <<wired, refused>>
    /\ queue' = Fitting(Errors(Cardinality(fails)))
    /\ status' = IF fails = {} THEN "ok" ELSE "error"
    /\ known' = known \ {s} /\ writable' = writable \ {s}
    /\ waiting' = waiting \ {s}
    /\ UNCHANGED <<active, link, peers, readyPeers, ready, phase, round, todo,
                   lost, ret>>

\* qlinq_stream_close; UNSUBSCRIBE is not retried where it cannot be written.
CloseStream(s, kept) ==
    /\ Calling /\ s \in open
    /\ kept \subseteq {w \in wired : w[2] = s}
    /\ open' = open \ {s}
    /\ wired' = {w \in wired : w[2] # s} \cup kept
    /\ refused' = {w \in refused : w[2] # s}
    /\ waiting' = waiting \ {s}
    /\ UNCHANGED <<active, link, peers, readyPeers, known, writable, ready,
                   queue, status, phase, round, todo, traffic, lost, ret>>

\* qlinq_stream_send without room: the next refresh reports the edge.  With
\* room it changes nothing here.
SendBlocked(s) ==
    /\ Calling /\ s \in open \cap Pubs
    /\ known' = known \cup {s} /\ writable' = writable \ {s}
    /\ waiting' = waiting \cup {s}
    /\ UNCHANGED <<active, link, peers, readyPeers, open, wired, ready, queue,
                   status, phase, round, todo, traffic, refused, lost, ret>>

NextEvent ==
    /\ phase = "app" /\ queue # <<>>
    /\ queue' = Tail(queue)
    /\ waiting' = IF Head(queue).type = "writable"
                  THEN waiting \ {Head(queue).of} ELSE waiting
    /\ UNCHANGED <<active, link, peers, readyPeers, open, wired, known,
                   writable, ready, status, phase, round, todo, traffic,
                   refused, lost, ret>>

\* qlinq_endpoint_close destroys the transport; its last events are ignored,
\* those queued stay for the application.
CloseEndpoint ==
    /\ Calling
    /\ active' = FALSE /\ open' = {}
    /\ link' = [c \in Conns |-> "down"] /\ wired' = {} /\ refused' = {}
    /\ peers' = [c \in Conns |-> "absent"] /\ readyPeers' = 0
    /\ waiting' = {}
    /\ UNCHANGED <<known, writable, ready, queue, status, phase, round, todo,
                   traffic, lost, ret>>

-----------------------------------------------------------------------------
(* qlinq_service *)

\* Queued events are for the application first.
ServicePending ==
    /\ phase = "app" /\ queue # <<>>
    /\ ret' = IF status = "error" THEN "error" ELSE "ok"
    /\ lost' = FALSE
    /\ UNCHANGED <<active, link, peers, readyPeers, open, wired, known,
                   writable, ready, queue, status, phase, round, todo, traffic,
                   waiting, refused>>

\* A sweep over the endpoints: skipped in the millisecond of the last one, so
\* it may be without an event.  A closed endpoint is not served.
ServiceBegin ==
    /\ phase = "app" /\ queue = <<>>
    /\ lost' = FALSE
    /\ IF active THEN phase' = "tick" /\ status' = "ok" /\ UNCHANGED ret
                 ELSE phase' = "app" /\ status' = "error" /\ ret' = "error"
    /\ round' = 1
    /\ UNCHANGED <<active, link, peers, readyPeers, open, wired, known,
                   writable, ready, queue, todo, traffic, waiting, refused>>

TickEnd ==
    /\ phase = "tick" /\ phase' = "refresh"
    /\ todo' = open \cap Pubs
    /\ UNCHANGED <<active, link, peers, readyPeers, open, wired, known,
                   writable, ready, queue, status, round, traffic, waiting,
                   refused, lost, ret>>

\* Faulty variant: an edge that could not be queued counts as reported.
Refresh_ForgetsEdge(s) ==
    /\ phase = "refresh" /\ s \in todo /\ todo' = todo \ {s}
    /\ known' = known \cup {s}
    /\ writable' = IF s \in ready THEN writable \cup {s} ELSE writable \ {s}
    /\ Queue(IF s \in ready /\ ~(s \in known /\ s \in writable)
             THEN <<Ev("writable", s, 1)>> ELSE <<>>, FALSE)
    /\ UNCHANGED <<active, link, peers, readyPeers, open, wired, ready, phase,
                   round, traffic, waiting, refused, ret>>

\* refresh_writable_events for one stream: the edge to writable is an event,
\* and detected again next time when that does not fit.
Refresh(s) ==
    /\ phase = "refresh" /\ s \in todo /\ todo' = todo \ {s}
    /\ LET became == s \in ready /\ ~(s \in known /\ s \in writable) IN
       /\ Queue(IF became THEN <<Ev("writable", s, 1)>> ELSE <<>>, FALSE)
       /\ known' = IF became /\ Room(1) = 0 THEN known \ {s}
                                            ELSE known \cup {s}
    /\ writable' = IF s \in ready THEN writable \cup {s} ELSE writable \ {s}
    /\ UNCHANGED <<active, link, peers, readyPeers, open, wired, ready, phase,
                   round, traffic, waiting, refused, ret>>

\* Faulty variant: a completed call is a successful call.
ServiceEnd_ClearsStatus(wakes) ==
    /\ phase = "refresh" /\ todo = {}
    /\ IF round = 1 /\ queue = <<>> /\ wakes
       THEN phase' = "tick" /\ round' = 2 /\ UNCHANGED <<status, ret>>
       ELSE phase' = "app" /\ ret' = "ok" /\ status' = "ok" /\ UNCHANGED round
    /\ UNCHANGED <<active, link, peers, readyPeers, open, wired, known,
                   writable, ready, queue, todo, traffic, waiting, refused, lost>>

\* After the first sweep the call waits in poll if there is nothing to report.
\* A signal ends it (AGAIN); a wake-up leads to the second sweep.
ServiceEnd(wakes) ==
    /\ phase = "refresh" /\ todo = {}
    /\ IF round = 1 /\ queue = <<>> /\ wakes
       THEN phase' = "tick" /\ round' = 2 /\ UNCHANGED <<status, ret>>
       ELSE /\ phase' = "app" /\ UNCHANGED round
            /\ status' = IF round = 1 /\ queue = <<>> THEN "again" ELSE status
            /\ ret' = status'
    /\ UNCHANGED <<active, link, peers, readyPeers, open, wired, known,
                   writable, ready, queue, todo, traffic, waiting, refused, lost>>

TransportEvent(c) ==
    \/ \E ok \in BOOLEAN : OnConnected(c, ok) \/ OnAuthRejected(c, ok)
    \/ \E fails \in SUBSET Subs : OnAuthAccepted(c, fails)
    \/ OnDisconnected(c)
    \/ OnNotice(c)
    \/ \E s \in Subs, n \in 1..MaxGroup, size \in Payloads, bad \in BOOLEAN :
          OnObject(c, s, n, size, bad)

Next ==
    \/ \E c \in Conns : TransportEvent(c)
    \/ \E s \in Pubs : Readiness(s) \/ SendBlocked(s) \/ Refresh(s)
    \/ \E s \in Pubs \cup Subs, fails \in SUBSET Conns : OpenStream(s, fails)
    \/ \E s \in Pubs \cup Subs, kept \in SUBSET (Conns \X Subs) :
          CloseStream(s, kept)
    \/ NextEvent \/ CloseEndpoint
    \/ ServicePending \/ ServiceBegin \/ TickEnd
    \/ \E wakes \in BOOLEAN : ServiceEnd(wakes)

\* The application drains its events and calls qlinq_service again and again; a
\* service call runs to its end.
Fairness ==
    /\ WF_vars(NextEvent) /\ WF_vars(ServiceBegin) /\ WF_vars(TickEnd)
    /\ WF_vars(\E wakes \in BOOLEAN : ServiceEnd(wakes))
    /\ \A s \in Pubs : WF_vars(Refresh(s))

Spec == Init /\ [][Next]_vars /\ Fairness

-----------------------------------------------------------------------------
(* Properties *)

\* Whatever a service call failed at, and every event that found the queue
\* full, shows in the status it returns: "applications must inspect service
\* status as well".
FailuresAreReported == phase = "app" /\ lost => ret = "error"

\* Every ready peer has every open subscription, whichever came first and
\* across reconnects, unless the transport refused it, and the count of ready
\* peers is exact.
SubscriptionsFollowPeers ==
    /\ \A c \in ReadyConns, s \in open \cap Subs :
          <<c, s>> \in wired \cup refused
    /\ readyPeers = Cardinality(ReadyConns)

\* A publisher told to wait hears STREAM_WRITABLE once its track stays ready,
\* even when the event found the queue full.
WritableIsReported ==
    \A s \in Pubs :
        (<>[](s \in ready /\ s \in open)) => []<>(s \notin waiting)
=============================================================================
