----------------------------- MODULE Handshake -----------------------------
(***************************************************************************)
(* Connection set-up, client and servers together: the supervisor's cycle  *)
(* over the configured URLs, the X25519 exchange, the authentication       *)
(* exchange, the first traffic of the live connection and its end, and the *)
(* back-off before the next cycle.                                         *)
(*                                                                         *)
(* A connection has a number, taken in rotation and reused once the server *)
(* has ended the connection that had it.  Each direction of a connection   *)
(* is a FIFO of WebSocket messages.  Client and servers are configured     *)
(* independently, and nothing on the wire announces how.                   *)
(*                                                                         *)
(* A codec is a set of key names: one shared name for plaintext or a       *)
(* pre-shared key, the two public keys for a derived session key.  A frame *)
(* decodes exactly when it was sealed under the reader's codec.            *)
(***************************************************************************)
EXTENDS Integers, Sequences, FiniteSets

CONSTANTS
    UrlCount,   \* number of URLs: the primary and its failover URLs
    Modes,      \* ways a codec can be configured; "ecdh" derives one
    MaxConns,   \* bound: connections that coexist
    MaxFaults   \* bound: timeouts, lost connections, servers going up or down

ASSUME HandshakeAssumption ==
    /\ UrlCount \in Nat \ {0}
    /\ MaxConns \in Nat \ {0}
    /\ MaxFaults \in Nat

VARIABLES
    config,         \* how the client and the server at each URL are set up
    up,             \* URLs where connect_async succeeds
    last_url_idx,   \* the client's sticky index
    offset,         \* URLs tried in this cycle
    pc,             \* where the supervisor is in its loop
    ready,          \* connect() has returned Ok
    attempt,        \* reconnect_attempt
    delay,          \* seconds of the last back-off, 0 before the first
    conn,           \* number of the client's last connection, 0 before the first
    codec,          \* the client's session codec
    at,             \* URL of each connection
    serve,          \* where serve_connection is, per connection; "gone" when over
    accepted,       \* connections whose auth handler returned Ok
    serverCodec,    \* the server's session codec, per connection
    toServer, toClient,
    faults

clientVars == <<last_url_idx, offset, pc, ready, attempt, delay, conn, codec>>
serverVars == <<at, serve, accepted, serverCodec>>
wires == <<toServer, toClient>>
vars == <<config, up, clientVars, serverVars, wires, faults>>

Urls == 0 .. UrlCount - 1
Conns == 1 .. MaxConns

ClientConfigs == [mode : Modes, credential : BOOLEAN]

\* auth is "off" without an auth handler, else what the handler makes of the
\* client's credential
ServerConfigs == [mode : Modes, auth : {"off", "accepts", "rejects"}]

---------------------------------------------------------------------------
\* Keys and messages

\* The codec before any exchange: the configured one, none yet under "ecdh"
Initial(mode) == IF mode = "ecdh" THEN {} ELSE {<<mode, 0>>}

ClientKey(g) == <<"client", g>>
ServerKey(g) == <<"server", g>>

\* derive_session_key on a secret (named by its public key) and a peer's key
Derive(own, peer) == {own, peer}

\* Binary messages: a raw public key, or a frame sealed under a codec.
\* "ping" is a control message.
Msg(kind, seal) == [kind |-> kind, seal |-> seal]
Frames == {"AuthRequest", "AuthOk", "AuthErr", "ApiRequest", "ApiResponse", "EventEmit"}

Decodes(m, c) == m.kind \in Frames /\ m.seal = c

\* Mutant of Peers: the length of the message is not checked.
PeersAny(m) == IF m.kind = "key" THEN m.seal ELSE {<<"frame", 0>>}

\* parse_peer_public takes any 32 bytes.  Of the frames only an AuthRequest can
\* have that length, since its size follows the credential's.
Peers(m) ==
    CASE m.kind = "key"         -> m.seal
      [] m.kind = "AuthRequest" -> {<<"frame", 0>>}
      [] OTHER                  -> {}

MayRefuse(m) == m.kind # "key"

---------------------------------------------------------------------------
\* Back-off

BaseDelay == 3
MaxDelay == 30
AttemptCap == 6     \* bound: reconnect_delay is constant from attempt 5 on

Least(a, b) == IF a < b THEN a ELSE b

Doublings == <<1, 2, 4, 8, 16, 32, 64>>

\* Mutant of reconnect_delay: the cap is forgotten.
ReconnectDelayUncapped(n) ==
    LET exponent == Least((IF n < 1 THEN 1 ELSE n) - 1, 6)
    IN  BaseDelay * Doublings[exponent + 1]

reconnect_delay(n) ==
    LET exponent == Least((IF n < 1 THEN 1 ELSE n) - 1, 6)
    IN  Least(BaseDelay * Doublings[exponent + 1], MaxDelay)

\* The end of a supervisor iteration that goes round again
Backoff ==
    /\ attempt' = Least(attempt + 1, AttemptCap)
    /\ delay' = reconnect_delay(attempt')
    /\ pc' = "sleep"
    /\ UNCHANGED ready

\* establish_connection returned Err: the first failure is connect()'s result
Fails ==
    IF ready THEN Backoff
             ELSE pc' = "stopped" /\ UNCHANGED <<ready, attempt, delay>>

---------------------------------------------------------------------------

Init ==
    /\ config \in [client : ClientConfigs, server : [Urls -> ServerConfigs]]
    /\ up \in SUBSET Urls
    /\ last_url_idx = 0 /\ offset = 0
    /\ pc = "dial" /\ ready = FALSE
    /\ attempt = 0 /\ delay = 0
    /\ conn = 0 /\ codec = {}
    /\ at = [g \in Conns |-> 0]
    /\ serve = [g \in Conns |-> "gone"]
    /\ accepted = {}
    /\ serverCodec = [g \in Conns |-> {}]
    /\ toServer = [g \in Conns |-> <<>>]
    /\ toClient = [g \in Conns |-> <<>>]
    /\ faults = 0

Fault == faults < MaxFaults /\ faults' = faults + 1

Attached == {"ecdh", "key", "auth", "verdict", "publish", "live"}
Attends(g) == g = conn /\ pc \in Attached

SendToServer(m) == toServer' = [toServer EXCEPT ![conn] = Append(@, m)]
TakeFromServer == toClient' = [toClient EXCEPT ![conn] = Tail(@)]
FromServer == Head(toClient[conn])

---------------------------------------------------------------------------
\* Client: the URL loop

AuthPhase == IF config.client.credential THEN "auth" ELSE "publish"
ServerAuthPhase(u) == IF config.server[u].auth = "off" THEN "insert" ELSE "auth"

\* Mutant of DialUrl: the loop does not wrap round to the URLs before the start.
DialUrlForward == last_url_idx + offset

DialUrl == (last_url_idx + offset) % UrlCount

NextConn == IF conn = MaxConns THEN 1 ELSE conn + 1

\* The index is stored as soon as the WebSocket is open; client and server then
\* each start the phase their own configuration asks for
DialOk ==
    /\ pc = "dial" /\ offset < UrlCount /\ DialUrl \in up
    /\ serve[NextConn] = "gone"
    /\ last_url_idx' = DialUrl
    /\ offset' = offset + 1
    /\ conn' = NextConn
    /\ at' = [at EXCEPT ![NextConn] = DialUrl]
    /\ toServer' = [toServer EXCEPT ![NextConn] = <<>>]
    /\ toClient' = [toClient EXCEPT ![NextConn] = <<>>]
    /\ accepted' = accepted \ {NextConn}
    /\ pc' = IF config.client.mode = "ecdh" THEN "ecdh" ELSE AuthPhase
    /\ codec' = Initial(config.client.mode)
    /\ serverCodec' = [serverCodec EXCEPT ![NextConn] = Initial(config.server[DialUrl].mode)]
    /\ serve' = [serve EXCEPT ![NextConn] =
                    IF config.server[DialUrl].mode = "ecdh" THEN "ecdh"
                                                            ELSE ServerAuthPhase(DialUrl)]
    /\ UNCHANGED <<config, up, ready, attempt, delay, faults>>

DialErr ==
    /\ pc = "dial" /\ offset < UrlCount /\ DialUrl \notin up
    /\ offset' = offset + 1
    /\ UNCHANGED <<config, up, last_url_idx, pc, ready, attempt, delay, conn, codec,
                   serverVars, wires, faults>>

DialNone ==
    /\ pc = "dial" /\ offset = UrlCount
    /\ Fails
    /\ UNCHANGED <<config, up, last_url_idx, offset, conn, codec, serverVars, wires, faults>>

SleepOver ==
    /\ pc = "sleep"
    /\ pc' = "dial" /\ offset' = 0
    /\ UNCHANGED <<config, up, last_url_idx, ready, attempt, delay, conn, codec,
                   serverVars, wires, faults>>

---------------------------------------------------------------------------
\* Client: key exchange and authentication

SendKey ==
    /\ pc = "ecdh"
    /\ SendToServer(Msg("key", {ClientKey(conn)}))
    /\ pc' = "key"
    /\ UNCHANGED <<config, up, last_url_idx, offset, ready, attempt, delay, conn, codec,
                   serverVars, toClient, faults>>

ReceiveKey ==
    /\ pc = "key" /\ toClient[conn] # <<>>
    /\ TakeFromServer
    /\ \/ \E peer \in Peers(FromServer) :
            /\ codec' = Derive(ClientKey(conn), peer)
            /\ pc' = AuthPhase
            /\ UNCHANGED <<ready, attempt, delay>>
       \/ MayRefuse(FromServer) /\ Fails /\ UNCHANGED codec
    /\ UNCHANGED <<config, up, last_url_idx, offset, conn, serverVars, toServer, faults>>

SendAuth ==
    /\ pc = "auth"
    /\ SendToServer(Msg("AuthRequest", codec))
    /\ pc' = "verdict"
    /\ UNCHANGED <<config, up, last_url_idx, offset, ready, attempt, delay, conn, codec,
                   serverVars, toClient, faults>>

\* Mutant of ReceiveVerdict: any AuthResponse is taken for acceptance.
ReceiveVerdictLax ==
    /\ pc = "verdict" /\ toClient[conn] # <<>>
    /\ TakeFromServer
    /\ IF Decodes(FromServer, codec) /\ FromServer.kind \in {"AuthOk", "AuthErr"}
         THEN pc' = "publish" /\ UNCHANGED <<ready, attempt, delay>>
         ELSE Fails
    /\ UNCHANGED <<config, up, last_url_idx, offset, conn, codec, serverVars, toServer, faults>>

ReceiveVerdict ==
    /\ pc = "verdict" /\ toClient[conn] # <<>>
    /\ TakeFromServer
    /\ IF Decodes(FromServer, codec) /\ FromServer.kind = "AuthOk"
         THEN pc' = "publish" /\ UNCHANGED <<ready, attempt, delay>>
         ELSE Fails
    /\ UNCHANGED <<config, up, last_url_idx, offset, conn, codec, serverVars, toServer, faults>>

\* The server ended the connection, or ten seconds passed without an answer.
\* What was still under way to the client may be lost with the socket.
HandshakeLost ==
    /\ pc \in {"ecdh", "key", "auth", "verdict"}
    /\ \/ serve[conn] = "gone" /\ UNCHANGED faults
       \/ pc \in {"key", "verdict"} /\ Fault
    /\ Fails
    /\ UNCHANGED <<config, up, last_url_idx, offset, conn, codec, serverVars, wires>>

---------------------------------------------------------------------------
\* Client: the live connection

\* Mutant of Publish: reconnect_attempt is not reset.
PublishKeepsAttempt ==
    /\ pc = "publish"
    /\ pc' = "live" /\ ready' = TRUE
    /\ UNCHANGED <<config, up, last_url_idx, offset, attempt, delay, conn, codec, serverVars,
                   wires, faults>>

\* The writer is published and connect() returns
Publish ==
    /\ pc = "publish"
    /\ pc' = "live" /\ ready' = TRUE /\ attempt' = 0
    /\ UNCHANGED <<config, up, last_url_idx, offset, delay, conn, codec, serverVars, wires, faults>>

\* A heartbeat, whose first tick is immediate, or a call.  One message at a
\* time is under way.
ClientTalk ==
    /\ pc = "live" /\ toServer[conn] = <<>> /\ serve[conn] # "gone"
    /\ \/ SendToServer(Msg("ping", {}))
       \/ SendToServer(Msg("ApiRequest", codec))
    /\ UNCHANGED <<config, up, clientVars, serverVars, toClient, faults>>

\* Frames that do not decode are logged and skipped
ClientRead ==
    /\ pc = "live" /\ toClient[conn] # <<>>
    /\ TakeFromServer
    /\ UNCHANGED <<config, up, clientVars, serverVars, toServer, faults>>

ClientEnd ==
    /\ pc = "live"
    /\ \/ serve[conn] = "gone" /\ UNCHANGED faults
       \/ Fault
    /\ Backoff
    /\ UNCHANGED <<config, up, last_url_idx, offset, conn, codec, serverVars, wires>>

---------------------------------------------------------------------------
\* Servers

Reply(g, m) == toClient' = [toClient EXCEPT ![g] = Append(@, m)]
Take(g) == toServer' = [toServer EXCEPT ![g] = Tail(@)]
Arrived(g) == Head(toServer[g])
Enter(g, phase) == serve' = [serve EXCEPT ![g] = phase]

perform_ecdh_handshake(g) ==
    /\ serve[g] = "ecdh" /\ toServer[g] # <<>>
    /\ Take(g)
    /\ \/ \E peer \in Peers(Arrived(g)) :
            /\ Reply(g, Msg("key", {ServerKey(g)}))
            /\ serverCodec' = [serverCodec EXCEPT ![g] = Derive(ServerKey(g), peer)]
            /\ Enter(g, ServerAuthPhase(at[g]))
       \/ MayRefuse(Arrived(g)) /\ Enter(g, "gone") /\ UNCHANGED <<serverCodec, toClient>>
    /\ UNCHANGED <<config, up, clientVars, at, accepted, faults>>

\* The handler's verdict is sent under the session codec; a handler that panics
\* ends the connection without one
Authenticate(g) ==
    /\ serve[g] = "auth" /\ toServer[g] # <<>>
    /\ Take(g)
    /\ LET asked == Decodes(Arrived(g), serverCodec[g]) /\ Arrived(g).kind = "AuthRequest"
           verdict == config.server[at[g]].auth
       IN  \/ /\ asked /\ verdict = "accepts"
              /\ Reply(g, Msg("AuthOk", serverCodec[g]))
              /\ accepted' = accepted \cup {g}
              /\ Enter(g, "insert")
           \/ /\ asked /\ verdict = "rejects"
              /\ \/ Reply(g, Msg("AuthErr", serverCodec[g]))
                 \/ UNCHANGED toClient
              /\ Enter(g, "gone") /\ UNCHANGED accepted
           \/ /\ ~asked
              /\ Enter(g, "gone") /\ UNCHANGED <<accepted, toClient>>
    /\ UNCHANGED <<config, up, clientVars, at, serverCodec, faults>>

\* Registered; the first frame is the "connected" notice
GoLive(g) ==
    /\ serve[g] = "insert"
    /\ Reply(g, Msg("EventEmit", serverCodec[g]))
    /\ Enter(g, "live")
    /\ UNCHANGED <<config, up, clientVars, at, accepted, serverCodec, toServer, faults>>

\* A raw key is no frame and is answered with an error frame; a frame that does
\* not decode ends the connection; an AuthRequest is ignored
ServerRead(g) ==
    /\ serve[g] = "live" /\ toServer[g] # <<>>
    /\ Take(g)
    /\ LET m == Arrived(g)
       IN  \/ /\ m.kind = "ping" \/ Decodes(m, serverCodec[g])
              /\ UNCHANGED <<serve, toClient>>
           \/ /\ m.kind = "key"
              /\ Reply(g, Msg("ApiResponse", serverCodec[g]))
              /\ UNCHANGED serve
           \/ /\ m.kind \in Frames /\ ~Decodes(m, serverCodec[g])
              /\ Enter(g, "gone") /\ UNCHANGED toClient
    /\ UNCHANGED <<config, up, clientVars, at, accepted, serverCodec, faults>>

\* Mutant of ServerEnd: the wait for a credential does not notice the end of the
\* stream.
ServerEndDeaf(g) ==
    /\ serve[g] \in {"ecdh", "live"}
    /\ \/ ~Attends(g) /\ toServer[g] = <<>> /\ UNCHANGED faults
       \/ Fault
    /\ Enter(g, "gone")
    /\ UNCHANGED <<config, up, clientVars, at, accepted, serverCodec, wires>>

\* End of stream once everything sent was read, or a timeout
ServerEnd(g) ==
    /\ serve[g] \in {"ecdh", "auth", "live"}
    /\ \/ ~Attends(g) /\ toServer[g] = <<>> /\ UNCHANGED faults
       \/ Fault
    /\ Enter(g, "gone")
    /\ UNCHANGED <<config, up, clientVars, at, accepted, serverCodec, wires>>

\* A server comes up or goes down
Flip(u) ==
    /\ Fault
    /\ up' = IF u \in up THEN up \ {u} ELSE up \cup {u}
    /\ UNCHANGED <<config, clientVars, serverVars, wires>>

---------------------------------------------------------------------------

ClientStep ==
    \/ DialOk \/ DialErr \/ DialNone \/ SleepOver
    \/ SendKey \/ ReceiveKey \/ SendAuth \/ ReceiveVerdict \/ HandshakeLost
    \/ Publish \/ ClientTalk \/ ClientRead \/ ClientEnd

ServerStep(g) ==
    \/ perform_ecdh_handshake(g) \/ Authenticate(g) \/ GoLive(g)
    \/ ServerRead(g) \/ ServerEnd(g)

Next ==
    \/ ClientStep
    \/ \E g \in Conns : ServerStep(g)
    \/ \E u \in Urls : Flip(u)

Spec == Init /\ [][Next]_vars

\* Tasks keep running and messages under way arrive
FairSpec ==
    /\ Spec
    /\ WF_vars(ClientStep)
    /\ \A g \in Conns : WF_vars(ServerStep(g))

---------------------------------------------------------------------------
\* Properties

KeyNames == (Modes \cup {"client", "server", "frame"}) \X Nat
Codecs == SUBSET KeyNames
Message == [kind : Frames \cup {"key", "ping"}, seal : Codecs]

\* Every variable keeps its type.
TypeOK ==
    /\ config \in [client : ClientConfigs, server : [Urls -> ServerConfigs]]
    /\ up \subseteq Urls
    /\ last_url_idx \in Urls
    /\ offset \in 0 .. UrlCount
    /\ pc \in Attached \cup {"dial", "sleep", "stopped"}
    /\ ready \in BOOLEAN
    /\ attempt \in 0 .. AttemptCap
    /\ delay \in 0 .. MaxDelay
    /\ conn \in 0 .. MaxConns
    /\ pc \in Attached => conn \in Conns
    /\ codec \in Codecs
    /\ at \in [Conns -> Urls]
    /\ serve \in [Conns -> {"ecdh", "auth", "insert", "live", "gone"}]
    /\ accepted \subseteq Conns
    /\ serverCodec \in [Conns -> Codecs]
    /\ toServer \in [Conns -> Seq(Message)]
    /\ toClient \in [Conns -> Seq(Message)]
    /\ faults \in 0 .. MaxFaults

\* A client that has finished the key exchange (establish_connection) did so with
\* a server that ran perform_ecdh_handshake, and both hold the same session key,
\* however the server was configured and whatever it sent first.
SessionKeysAgree ==
    (config.client.mode = "ecdh" /\ pc \in {"auth", "verdict", "publish", "live"})
        => /\ config.server[at[conn]].mode = "ecdh"
           /\ codec = serverCodec[conn]

\* A client with a credential that believes it is connected was accepted by the
\* auth handler of the server it is connected to, under a codec they share; and a
\* server with an auth handler serves only connections the handler accepted.
VerdictHonest ==
    /\ (config.client.credential /\ pc \in {"publish", "live"})
         => conn \in accepted /\ codec = serverCodec[conn]
    /\ \A g \in Conns :
         (serve[g] \in {"insert", "live"} /\ config.server[at[g]].auth # "off")
            => g \in accepted

\* The supervisor's sleep: 3 s after a connection that had been up, else double
\* the previous sleep up to 30 s, whatever mix of dial, key exchange and
\* authentication failures lies between (run_connection_supervisor, and the
\* retry_after that handle_disconnect reports).
BackoffDoubles ==
    [][(pc # "sleep" /\ pc' = "sleep") =>
          delay' = IF pc = "live" THEN BaseDelay ELSE Least(2 * delay, MaxDelay)]_vars

Compatible(u) ==
    /\ config.server[u].mode = config.client.mode
    /\ config.server[u].auth = IF config.client.credential THEN "accepts" ELSE "off"

\* Some server is reachable, and every reachable server suits the client
Servable == up # {} /\ \A u \in up : Compatible(u)

\* Once the reachable servers all suit the client it ends up connected for good,
\* wherever in its URL list they are and whatever failed before, unless connect()
\* itself had failed (establish_connection's loop over the URLs).
FailoverConnects == (<>[]Servable) => <>[](pc \in {"live", "stopped"})

\* No connection stays half open: one that only one side still holds is ended by
\* that side too, in whatever phase of the set-up the other left it.
HalfOpenEnds ==
    \A g \in Conns :
        (Attends(g) # (serve[g] # "gone")) ~> (Attends(g) = (serve[g] # "gone"))

\* The README's account of failover: a reconnect cycle goes through all URLs
\* before the back-off (the loop in establish_connection stops at the first
\* WebSocket that opens, whether or not its handshake then succeeds).
TriesAllBeforeBackoff ==
    [][(pc \notin {"sleep", "live"} /\ pc' = "sleep") => offset = UrlCount]_vars
=============================================================================
