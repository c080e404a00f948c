-------------------------------- MODULE Session --------------------------------
(***************************************************************************)
(* How a client and a server get and keep a session: the QUIC handshake,   *)
(* HELLO in both directions, authentication, closing, and the client's     *)
(* reconnects with their backoff (transport_quicly, transport_protocol and *)
(* the decisions of qlinq's event handler).                                *)
(*                                                                         *)
(* Each end runs on a thread of its own.  The control stream of a          *)
(* connection is reliable and ordered, one channel per direction; a fault  *)
(* of the network costs a whole connection, and each end finds out by      *)
(* itself, by a close notice that may be lost or by its idle timeout.  So  *)
(* the server may still hold connections the client has forgotten.         *)
(*                                                                         *)
(* Abstractions.  Packets, keys and connection ids are quicly's (external).*)
(* SUBSCRIBE stands for every frame that needs authentication.  `faults'   *)
(* counts what goes wrong around the two programs.                         *)
(***************************************************************************)
EXTENDS Integers, Sequences, FiniteSets, FiniteSetsExt

CONSTANTS
    MaxConnections,   \* the server's max_connections
    InitialDelay,     \* reconnect_initial_delay_ms
    MaxDelay,         \* reconnect_max_delay_ms
    MaxFaults         \* bound on faults

ASSUME SessionAssumption ==
    /\ MaxConnections \in Nat \ {0} /\ MaxFaults \in Nat
    /\ InitialDelay \in Nat \ {0} /\ MaxDelay \in Nat /\ InitialDelay <= MaxDelay

\* Identities of connections; one more than the server can hold.
Ids == 1..(MaxConnections + 1)

VARIABLES
    cid,         \* identity of client_conn, 0 without one
    client,      \* its state
    server,      \* conns: the server's connections
    toServer,    \* control stream, by connection
    toClient,
    wait,        \* until reconnect_at_ms
    delay,       \* reconnect_current_delay_ms
    inProgress,  \* reconnect_in_progress
    shut,        \* the sides that are shutting_down
    faults,
    errors       \* sides that closed a connection for a peer's error (history)

sessionVars == <<cid, client, server, toServer, toClient, wait, delay,
                 inProgress, shut, faults, errors>>

\* One end of a connection: quic_ready, hello_sent, hello_received (and with it
\* protocol_ready), connected_emitted, authenticated.
None == [st |-> "none", quic |-> FALSE, sent |-> FALSE, rcvd |-> FALSE,
         connected |-> FALSE, auth |-> FALSE]
Started == [None EXCEPT !.st = "open"]

Frames == {"HELLO", "AUTH_REQUEST", "ACCEPTED", "REFUSED", "SUBSCRIBE"}
Held == {i \in Ids : server[i].st # "none"}

SessionTypeOK ==
    /\ cid \in Ids \cup {0} /\ (cid = 0) = (client.st = "none")
    /\ \A e \in {client} \cup {server[i] : i \in Ids} :
          /\ e.st \in {"none", "open", "closing"}
          /\ {e.quic, e.sent, e.rcvd, e.connected, e.auth} \subseteq BOOLEAN
    /\ \A i \in Ids : /\ \A k \in DOMAIN toServer[i] : toServer[i][k] \in Frames
                      /\ \A k \in DOMAIN toClient[i] : toClient[i][k] \in Frames
    /\ wait \in 0..MaxDelay /\ delay \in InitialDelay..MaxDelay
    /\ inProgress \in BOOLEAN /\ shut \subseteq {"client", "server"}
    /\ errors \subseteq {"client", "server"} /\ faults \in 0..MaxFaults

\* transport_create starts the first connection of a client.
SessionInit ==
    /\ cid = 1 /\ client = Started
    /\ server = [i \in Ids |-> None]
    /\ toServer = [i \in Ids |-> <<>>] /\ toClient = [i \in Ids |-> <<>>]
    /\ wait = 0 /\ delay = InitialDelay /\ inProgress = FALSE
    /\ shut = {} /\ faults = 0 /\ errors = {}

\* A write, a start or an answer may fail: each failure is a fault.
Fault(happens) ==
    /\ happens => faults < MaxFaults
    /\ faults' = IF happens THEN faults + 1 ELSE faults

-----------------------------------------------------------------------------
(* Closing and reconnecting *)

\* schedule_client_reconnect
Backoff(d) == Min({2 * d, MaxDelay})

ScheduleReconnect ==
    IF "client" \in shut THEN UNCHANGED <<wait, delay>>
    ELSE /\ wait' = delay
         /\ delay' = Backoff(delay)

\* The client frees its connection and emits DISCONNECTED.
DropClient ==
    /\ cid' = 0 /\ client' = None
    /\ toClient' = [toClient EXCEPT ![cid] = <<>>]
    /\ toServer' = IF server[cid].st = "none"
                   THEN [toServer EXCEPT ![cid] = <<>>] ELSE toServer
    /\ ScheduleReconnect

DropServer(i) ==
    /\ server' = [server EXCEPT ![i] = None]
    /\ toServer' = [toServer EXCEPT ![i] = <<>>]
    /\ toClient' = IF cid # i THEN [toClient EXCEPT ![i] = <<>>] ELSE toClient

\* quicly frees a closed connection some time after the close.
FreeClient ==
    /\ client.st = "closing" /\ DropClient
    /\ UNCHANGED <<server, inProgress, shut, faults, errors>>

\* Faulty variant: a closed connection keeps its place in the table.
FreeServer_Leaks(i) ==
    /\ server[i].st = "closing"
    /\ toServer' = [toServer EXCEPT ![i] = <<>>]
    /\ UNCHANGED <<cid, client, server, toClient, wait, delay, inProgress, shut,
                   faults, errors>>

FreeServer(i) ==
    /\ server[i].st = "closing" /\ DropServer(i)
    /\ UNCHANGED <<cid, client, wait, delay, inProgress, shut, faults, errors>>

\* A close notice arrives; it is lost when its sender was freed before.
NoticeClient ==
    /\ client.st = "open" /\ server[cid].st = "closing"
    /\ client' = [client EXCEPT !.st = "closing"]
    /\ UNCHANGED <<cid, server, toServer, toClient, wait, delay, inProgress,
                   shut, faults, errors>>

NoticeServer(i) ==
    /\ server[i].st = "open" /\ cid = i /\ client.st = "closing"
    /\ server' = [server EXCEPT ![i].st = "closing"]
    /\ UNCHANGED <<cid, client, toServer, toClient, wait, delay, inProgress,
                   shut, faults, errors>>

\* Nothing will be sent on connection i any more, and it is not in use.
Silent(i) ==
    /\ cid = i /\ client.st = "open" /\ client.quic /\ client.sent
    /\ server[i].st = "open" /\ ~client.auth
    /\ toServer[i] = <<>> /\ toClient[i] = <<>>

\* The server has no connection for the client's first packets.
Unanswered ==
    /\ server[cid].st = "none"
    /\ client.quic \/ Cardinality(Held) >= MaxConnections \/ "server" \in shut

\* An idle or handshake timeout: nothing comes from the other end, or (a fault)
\* nothing gets through.
TimeoutClient ==
    /\ client.st = "open" /\ DropClient
    /\ Fault(~(Unanswered \/ Silent(cid)))
    /\ UNCHANGED <<server, inProgress, shut, errors>>

TimeoutServer(i) ==
    /\ server[i].st = "open" /\ DropServer(i)
    /\ Fault(cid = i /\ ~Silent(i))
    /\ UNCHANGED <<cid, client, wait, delay, inProgress, shut, errors>>

\* The application closes a connection.
CloseClient ==
    /\ client.st = "open" /\ Fault(TRUE)
    /\ client' = [client EXCEPT !.st = "closing"]
    /\ UNCHANGED <<cid, server, toServer, toClient, wait, delay, inProgress,
                   shut, errors>>

CloseServer(i) ==
    /\ server[i].st = "open" /\ Fault(TRUE)
    /\ server' = [server EXCEPT ![i].st = "closing"]
    /\ UNCHANGED <<cid, client, toServer, toClient, wait, delay, inProgress,
                   shut, errors>>

\* transport_shutdown: connections close, none is started or accepted.
ShutdownClient ==
    /\ "client" \notin shut /\ shut' = shut \cup {"client"}
    /\ inProgress' = FALSE
    /\ client' = IF client.st = "open" THEN [client EXCEPT !.st = "closing"]
                                       ELSE client
    /\ UNCHANGED <<cid, server, toServer, toClient, wait, delay, faults, errors>>

ShutdownServer ==
    /\ "server" \notin shut /\ shut' = shut \cup {"server"}
    /\ server' = [i \in Ids |-> IF server[i].st = "open"
                                THEN [server[i] EXCEPT !.st = "closing"]
                                ELSE server[i]]
    /\ UNCHANGED <<cid, client, toServer, toClient, wait, delay, inProgress,
                   faults, errors>>

\* The clock, as far as the client waits for it.
Elapse ==
    /\ cid = 0 /\ wait > 0 /\ wait' = wait - 1
    /\ UNCHANGED <<cid, client, server, toServer, toClient, delay, inProgress,
                   shut, faults, errors>>

\* Faulty variant: a shutdown does not stop reconnecting.
Attempt_AfterShutdown(starts) ==
    /\ cid = 0 /\ wait = 0 /\ starts
    /\ inProgress' = TRUE
    /\ cid' = Min(Ids \ Held) /\ client' = Started
    /\ UNCHANGED <<server, toServer, toClient, wait, delay, shut, faults, errors>>

\* transport_tick: the delay is over and there is no connection.
Attempt(starts) ==
    /\ cid = 0 /\ wait = 0 /\ "client" \notin shut
    /\ Fault(~starts)
    /\ inProgress' = starts
    /\ IF starts
       THEN /\ cid' = Min(Ids \ Held) /\ client' = Started
            /\ UNCHANGED <<wait, delay>>
       ELSE /\ ScheduleReconnect
            /\ UNCHANGED <<cid, client>>
    /\ UNCHANGED <<server, toServer, toClient, shut, errors>>

-----------------------------------------------------------------------------
(* The handshake *)

\* The server meets the client's first packets.
Accept ==
    /\ client.st = "open" /\ ~client.quic /\ server[cid].st = "none"
    /\ "server" \notin shut /\ Cardinality(Held) < MaxConnections
    /\ server' = [server EXCEPT ![cid] = Started]
    /\ UNCHANGED <<cid, client, toServer, toClient, wait, delay, inProgress,
                   shut, faults, errors>>

\* transport_protocol_maybe_emit_connected
Emits(e) == ~e.connected /\ e.quic /\ e.rcvd
Emitted(e) == IF Emits(e) THEN [e EXCEPT !.connected = TRUE] ELSE e

\* ... on the client a reconnect has succeeded: the backoff starts over
Reconnected(e) ==
    IF Emits(e) /\ inProgress
    THEN inProgress' = FALSE /\ delay' = InitialDelay
    ELSE UNCHANGED <<inProgress, delay>>

\* On CONNECTED the client's application sends its secret.
AuthFrames(e, written) ==
    IF Emits(e) /\ written THEN <<"AUTH_REQUEST">> ELSE <<>>

\* transport_tick of the client once QUIC is ready: HELLO goes out, again and
\* again until it could be written.
TickClient(written) ==
    /\ client.st = "open" /\ server[cid].st = "open" /\ ~client.sent
    /\ Fault(~written)
    /\ LET e == [client EXCEPT !.quic = TRUE, !.sent = written] IN
       /\ client' = Emitted(e) /\ Reconnected(e)
       /\ toServer' = [toServer EXCEPT ![cid] =
             @ \o (IF written THEN <<"HELLO">> ELSE <<>>) \o AuthFrames(e, TRUE)]
    /\ UNCHANGED <<cid, server, toClient, wait, shut, errors>>

\* ... of the server: the client's first frame must have opened the stream
TickServer(i, written) ==
    /\ server[i].st = "open" /\ cid = i /\ client.quic
    /\ ~server[i].quic \/ (~server[i].sent /\ toServer[i] # <<>>)
    /\ LET hello == ~server[i].sent /\ toServer[i] # <<>> IN
       /\ Fault(hello /\ ~written) /\ (hello \/ written)
       /\ server' = [server EXCEPT ![i] =
             Emitted([@ EXCEPT !.quic = TRUE,
                                 !.sent = server[i].sent \/ (hello /\ written)])]
       /\ toClient' = IF hello /\ written
                      THEN [toClient EXCEPT ![i] = Append(@, "HELLO")]
                      ELSE toClient
    /\ UNCHANGED <<cid, client, toServer, wait, delay, inProgress, shut, errors>>

-----------------------------------------------------------------------------
(* Control frames: parse_control_messages *)

Takes(channel, frame) == channel # <<>> /\ Head(channel) = frame

\* The peer broke the protocol: the connection closes with an error.
ErrClient ==
    /\ client' = [client EXCEPT !.st = "closing"]
    /\ errors' = errors \cup {"client"}
    /\ UNCHANGED <<toServer, delay, inProgress>>

ErrServer(i) ==
    /\ server' = [server EXCEPT ![i].st = "closing"]
    /\ errors' = errors \cup {"server"}
    /\ UNCHANGED toClient

ReadClient(frame) ==
    /\ client.st = "open" /\ Takes(toClient[cid], frame)
    /\ toClient' = [toClient EXCEPT ![cid] = Tail(@)]
    /\ UNCHANGED <<cid, server, wait, shut>>

ReadServer(i, frame) ==
    /\ server[i].st = "open" /\ Takes(toServer[i], frame)
    /\ toServer' = [toServer EXCEPT ![i] = Tail(@)]
    /\ UNCHANGED <<cid, client, wait, delay, inProgress, shut>>

\* receive_hello: HELLO comes once and first, and is answered by one.  The
\* client's AUTH_REQUEST follows when this completes the connection.
ClientHello(written) ==
    /\ ReadClient("HELLO")
    /\ Fault(~written)
    /\ IF client.rcvd \/ (~client.sent /\ ~written) THEN ErrClient
       ELSE LET e == [client EXCEPT !.rcvd = TRUE, !.sent = TRUE] IN
            /\ client' = Emitted(e) /\ Reconnected(e)
            /\ toServer' = [toServer EXCEPT ![cid] =
                  @ \o (IF client.sent THEN <<>> ELSE <<"HELLO">>)
                    \o AuthFrames(e, written)]
            /\ UNCHANGED errors

ServerHello(i, written) ==
    /\ ReadServer(i, "HELLO")
    /\ Fault(~server[i].sent /\ ~written)
    /\ IF server[i].rcvd \/ (~server[i].sent /\ ~written) THEN ErrServer(i)
       ELSE /\ server' = [server EXCEPT ![i] =
                  Emitted([@ EXCEPT !.rcvd = TRUE, !.sent = TRUE])]
            /\ toClient' = IF server[i].sent THEN toClient
                           ELSE [toClient EXCEPT ![i] = Append(@, "HELLO")]
            /\ UNCHANGED errors

\* Faulty variant: the peer counts as authenticated when it comes back to it.
RespondAuth_Unmarked(i, accepted) ==
    /\ server' = IF accepted THEN server
                 ELSE [server EXCEPT ![i].st = "closing"]
    /\ toClient' = [toClient EXCEPT ![i] =
                      Append(@, IF accepted THEN "ACCEPTED" ELSE "REFUSED")]

\* transport_respond_auth, when its frame can be written
RespondAuth(i, accepted) ==
    /\ server' = [server EXCEPT ![i] =
          IF accepted THEN [@ EXCEPT !.auth = TRUE]
                      ELSE [@ EXCEPT !.st = "closing"]]
    /\ toClient' = [toClient EXCEPT ![i] =
                      Append(@, IF accepted THEN "ACCEPTED" ELSE "REFUSED")]

\* The application compares secrets.  An answer that cannot be written is not
\* tried again.
ServerAuthRequest(i, accepted, written) ==
    /\ ReadServer(i, "AUTH_REQUEST")
    /\ Fault(~accepted \/ ~written)
    /\ IF ~server[i].rcvd THEN ErrServer(i)
       ELSE /\ IF written THEN RespondAuth(i, accepted)
                          ELSE UNCHANGED <<server, toClient>>
            /\ UNCHANGED errors

\* The client is authenticated, PEER_READY, and subscribes its streams.
ClientAccepted ==
    /\ ReadClient("ACCEPTED")
    /\ IF ~client.rcvd THEN ErrClient
       ELSE /\ client' = [client EXCEPT !.auth = TRUE]
            /\ toServer' = [toServer EXCEPT ![cid] = Append(@, "SUBSCRIBE")]
            /\ UNCHANGED <<delay, inProgress, errors>>
    /\ UNCHANGED faults

\* ... or rejected: the server closes.
ClientRefused ==
    /\ ReadClient("REFUSED")
    /\ IF ~client.rcvd THEN ErrClient
       ELSE UNCHANGED <<client, toServer, delay, inProgress, errors>>
    /\ UNCHANGED faults

ServerSubscribe(i) ==
    /\ ReadServer(i, "SUBSCRIBE")
    /\ IF ~server[i].rcvd \/ ~server[i].auth THEN ErrServer(i)
       ELSE UNCHANGED <<server, toClient, errors>>
    /\ UNCHANGED faults

-----------------------------------------------------------------------------
ClientStep ==
    \/ FreeClient \/ NoticeClient \/ TimeoutClient \/ CloseClient
    \/ ShutdownClient \/ Elapse
    \/ \E ok \in BOOLEAN : Attempt(ok) \/ TickClient(ok) \/ ClientHello(ok)
    \/ ClientAccepted \/ ClientRefused

ServerStep ==
    \/ ShutdownServer \/ Accept
    \/ \E i \in Ids :
          \/ FreeServer(i) \/ NoticeServer(i) \/ TimeoutServer(i)
          \/ CloseServer(i) \/ ServerSubscribe(i)
          \/ \E ok \in BOOLEAN : TickServer(i, ok) \/ ServerHello(i, ok)
          \/ \E yes \in BOOLEAN, ok \in BOOLEAN : ServerAuthRequest(i, yes, ok)

SessionNext == ClientStep \/ ServerStep

\* Both ends are ticked for ever, quicly delivers what is sent on a connection
\* that lives and gives up one whose other end is gone.
SessionFairness ==
    /\ WF_sessionVars(FreeClient) /\ WF_sessionVars(NoticeClient)
    /\ WF_sessionVars(Elapse) /\ WF_sessionVars(Attempt(TRUE))
    /\ WF_sessionVars(Accept) /\ WF_sessionVars(TickClient(TRUE))
    /\ WF_sessionVars(TimeoutClient /\ faults' = faults)
    /\ WF_sessionVars(ClientHello(TRUE)) /\ WF_sessionVars(ClientAccepted)
    /\ WF_sessionVars(ClientRefused)
    /\ \A i \in Ids :
          /\ WF_sessionVars(FreeServer(i)) /\ WF_sessionVars(NoticeServer(i))
          /\ WF_sessionVars(TimeoutServer(i) /\ faults' = faults)
          /\ WF_sessionVars(TickServer(i, TRUE)) /\ WF_sessionVars(ServerHello(i, TRUE))
          /\ WF_sessionVars(ServerAuthRequest(i, TRUE, TRUE))
          /\ WF_sessionVars(ServerSubscribe(i))

SessionSpec == SessionInit /\ [][SessionNext]_sessionVars /\ SessionFairness

-----------------------------------------------------------------------------
(* Properties *)

\* Two correct ends never close on each other for a protocol error: HELLO comes
\* first and once, nothing that needs authentication comes before it, in
\* whatever order the steps of the two ends fall.  (A HELLO that cannot be
\* answered is one; it takes a failed write.)
NoHandshakeError == faults = 0 => errors = {}

Usable == client.st = "open" /\ client.auth /\ server[cid].auth

\* When the faults end, the client gets back to an authenticated session and
\* stays there, whatever the server still holds of earlier connections.
SessionRecovers == <>[]Usable \/ <>(shut # {})

\* transport_is_drained holds some time after a shutdown, and for good.
ShutdownDrains ==
    /\ "client" \in shut ~> [](cid = 0)
    /\ "server" \in shut ~> [](Held = {})
=============================================================================
