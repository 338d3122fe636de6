-------------------------- MODULE HandshakeProofs --------------------------
(***************************************************************************)
(* Type correctness, key agreement, honest verdicts and the back-off, for  *)
(* any number of URLs, connections and faults.                             *)
(***************************************************************************)
EXTENDS Handshake, TLAPS

\* Leaves are first-order reasoning unless they name SMT.
USE Zenon

USE HandshakeAssumption

\* Every message the two sides build is a message.
LEMMA Messages ==
    ASSUME NEW k \in Frames \cup {"key", "ping"}, NEW c \in Codecs
    PROVE  Msg(k, c) \in Message
BY DEF Msg, Message, Codecs

\* A public key is a key name, and so is what derive_session_key makes of two.
LEMMA Keys ==
    ASSUME NEW g \in Nat
    PROVE  /\ ClientKey(g) \in KeyNames
           /\ ServerKey(g) \in KeyNames
           /\ {ClientKey(g)} \in Codecs /\ {ServerKey(g)} \in Codecs
           /\ \A p \in KeyNames : /\ Derive(ClientKey(g), p) \in Codecs
                                /\ Derive(ServerKey(g), p) \in Codecs
<1>1. ClientKey(g) \in KeyNames /\ ServerKey(g) \in KeyNames
  BY DEF ClientKey, ServerKey, KeyNames
<1>2. \A x, y \in KeyNames : {x} \in Codecs /\ {x, y} \in Codecs
  BY DEF Codecs
<1> QED BY <1>1, <1>2 DEF Derive

\* Peers of a message are key names.
LEMMA PeersTyped ==
    ASSUME NEW m \in Message, NEW p \in Peers(m)
    PROVE  p \in KeyNames
<1>1. CASE m.kind = "key"
  BY <1>1 DEF Peers, Message, Codecs
<1>2. CASE m.kind = "AuthRequest"
  BY <1>2, SMT DEF Peers, Message, KeyNames
<1>3. CASE m.kind \notin {"key", "AuthRequest"}
  BY <1>3 DEF Peers
<1> QED BY <1>1, <1>2, <1>3

\* The codec before any exchange is a codec.
LEMMA InitialTyped ==
    ASSUME NEW m \in Modes
    PROVE  Initial(m) \in Codecs
BY SMT DEF Initial, Codecs, KeyNames

\* reconnect_delay lies between the base and the cap, and one more failure doubles
\* it up to the cap.
LEMMA Delays ==
    /\ reconnect_delay(1) = BaseDelay
    /\ \A n \in 0 .. AttemptCap : reconnect_delay(n) \in 0 .. MaxDelay
    /\ \A n \in 1 .. AttemptCap :
          reconnect_delay(Least(n + 1, AttemptCap)) = Least(2 * reconnect_delay(n), MaxDelay)
<1>1. /\ reconnect_delay(0) = 3 /\ reconnect_delay(1) = 3 /\ reconnect_delay(2) = 6
      /\ reconnect_delay(3) = 12 /\ reconnect_delay(4) = 24
  BY SMT DEF reconnect_delay, Least, Doublings, BaseDelay, MaxDelay
<1>2. reconnect_delay(5) = 30 /\ reconnect_delay(6) = 30
  BY SMT DEF reconnect_delay, Least, Doublings, BaseDelay, MaxDelay
<1>3. \A n \in 0 .. AttemptCap : n \in {0, 1, 2, 3, 4, 5, 6}
  BY SMT DEF AttemptCap
<1>4. \A n \in 0 .. AttemptCap : reconnect_delay(n) \in 0 .. MaxDelay
  BY <1>1, <1>2, <1>3, SMT DEF MaxDelay
<1>5. ASSUME NEW n \in 1 .. AttemptCap
      PROVE  reconnect_delay(Least(n + 1, AttemptCap)) = Least(2 * reconnect_delay(n), MaxDelay)
  <2>1. n \in {1, 2, 3, 4, 5, 6}
    BY SMT DEF AttemptCap
  <2>2. Least(n + 1, AttemptCap) = IF n = 6 THEN 6 ELSE n + 1
    BY <2>1, SMT DEF Least, AttemptCap
  <2>3. \A k \in Nat : Least(k, MaxDelay) = IF k < 30 THEN k ELSE 30
    BY DEF Least, MaxDelay
  <2>4. CASE n \in {1, 2, 3}
    BY <1>1, <2>2, <2>3, <2>4, SMT
  <2>5. CASE n = 4
    BY <1>1, <1>2, <2>2, <2>3, <2>5, SMT
  <2>6. CASE n \in {5, 6}
    BY <1>2, <2>2, <2>3, <2>6, SMT
  <2> QED BY <2>1, <2>4, <2>5, <2>6
<1> QED BY <1>1, <1>4, <1>5 DEF BaseDelay

---------------------------------------------------------------------------

\* The end of an iteration keeps the types of what it assigns.
LEMMA BackoffTyped ==
    ASSUME TypeOK, Backoff
    PROVE  /\ attempt' \in 0 .. AttemptCap
           /\ attempt' = Least(attempt + 1, AttemptCap) /\ delay' = reconnect_delay(attempt')
           /\ delay' \in 0 .. MaxDelay
           /\ pc' = "sleep" /\ ready' \in BOOLEAN
<1>1. attempt' \in 0 .. AttemptCap
  BY SMT DEF TypeOK, Backoff, Least, AttemptCap
<1> QED BY <1>1, Delays DEF TypeOK, Backoff

\* A failed establish_connection leaves the supervisor's variables well typed.
LEMMA FailsTyped ==
    ASSUME TypeOK, Fails
    PROVE  /\ attempt' \in 0 .. AttemptCap
           /\ delay' \in 0 .. MaxDelay
           /\ pc' \in {"sleep", "stopped"} /\ ready' \in BOOLEAN
           /\ pc' \notin Attached
<1>1. CASE ready
  BY <1>1, BackoffTyped DEF Fails, Attached
<1>2. CASE ~ready
  BY <1>2 DEF Fails, TypeOK, Attached
<1> QED BY <1>1, <1>2

\* The head of a wire is a message and its tail a wire.
LEMMA Wires ==
    ASSUME NEW S, NEW s \in Seq(S)
    PROVE  /\ s # <<>> => Head(s) \in S /\ Tail(s) \in Seq(S)
           /\ \A m \in S : Append(s, m) \in Seq(S)
BY SMT

\* A supervisor about to dial for the first time is well typed.
LEMMA TypeInit == Init => TypeOK
<1> SUFFICES ASSUME Init PROVE TypeOK
  OBVIOUS
<1>1. {} \in Codecs /\ <<>> \in Seq(Message)
  BY SMT DEF Codecs
<1>2. /\ at \in [Conns -> Urls] /\ last_url_idx \in Urls /\ offset \in 0 .. UrlCount
      /\ conn \in 0 .. MaxConns /\ faults \in 0 .. MaxFaults
  BY SMT DEF Init, Urls
<1>3. /\ toServer \in [Conns -> Seq(Message)] /\ toClient \in [Conns -> Seq(Message)]
      /\ serverCodec \in [Conns -> Codecs] /\ codec \in Codecs
      /\ serve \in [Conns -> {"ecdh", "auth", "insert", "live", "gone"}]
  BY <1>1 DEF Init
<1>4. /\ attempt \in 0 .. AttemptCap /\ delay \in 0 .. MaxDelay
      /\ pc = "dial" /\ pc \notin Attached
  BY SMT DEF Init, AttemptCap, MaxDelay, Attached
<1> QED BY <1>2, <1>3, <1>4 DEF Init, TypeOK

\* A step of the client's URL loop keeps the types.
LEMMA TypeDial ==
    ASSUME TypeOK, DialOk \/ DialErr \/ DialNone \/ SleepOver
    PROVE  TypeOK'
<1>1. CASE DialOk
  <2>1. NextConn \in Conns /\ DialUrl \in Urls
    BY <1>1, SMT DEF DialOk, TypeOK, NextConn, Conns
  <2>2. config.client \in ClientConfigs /\ config.server[DialUrl] \in ServerConfigs
    BY <2>1 DEF TypeOK
  <2>3. Initial(config.client.mode) \in Codecs /\ Initial(config.server[DialUrl].mode) \in Codecs
    BY <2>2, InitialTyped DEF ClientConfigs, ServerConfigs
  <2>4. pc' \in Attached
    BY <1>1 DEF DialOk, AuthPhase, Attached
  <2>5. /\ toServer' \in [Conns -> Seq(Message)] /\ toClient' \in [Conns -> Seq(Message)]
        /\ serverCodec' \in [Conns -> Codecs] /\ at' \in [Conns -> Urls]
    BY <1>1, <2>1, <2>3, SMT DEF DialOk, TypeOK, Codecs
  <2>6. serve' \in [Conns -> {"ecdh", "auth", "insert", "live", "gone"}]
    BY <1>1, <2>1 DEF DialOk, TypeOK, ServerAuthPhase
  <2>7. /\ last_url_idx' \in Urls /\ offset' \in 0 .. UrlCount /\ conn' \in Conns
        /\ codec' \in Codecs /\ accepted' \subseteq Conns
    BY <1>1, <2>1, <2>3, SMT DEF DialOk, TypeOK, Codecs
  <2>8. conn' \in 0 .. MaxConns
    BY <2>7, SMT DEF Conns
  <2> QED BY <1>1, <2>4, <2>5, <2>6, <2>7, <2>8 DEF DialOk, TypeOK
<1>2. CASE DialErr
  BY <1>2, SMT DEF DialErr, TypeOK, serverVars, wires
<1>3. CASE DialNone
  BY <1>3, FailsTyped DEF DialNone, TypeOK, serverVars, wires
<1>4. CASE SleepOver
  BY <1>4, SMT DEF SleepOver, TypeOK, serverVars, wires, Attached
<1> QED BY <1>1, <1>2, <1>3, <1>4

\* A step of the client's handshake keeps the types.
LEMMA TypeHandshake ==
    ASSUME TypeOK,
           SendKey \/ ReceiveKey \/ SendAuth \/ ReceiveVerdict \/ HandshakeLost
    PROVE  TypeOK'
<1> conn \in Conns /\ conn \in Nat
  BY SMT DEF TypeOK, SendKey, ReceiveKey, SendAuth, ReceiveVerdict, HandshakeLost, Attached, Conns
<1>1. CASE SendKey
  <2>1. Msg("key", {ClientKey(conn)}) \in Message
    BY Keys, Messages
  <2>2. toServer' \in [Conns -> Seq(Message)]
    BY <1>1, <2>1, Wires DEF SendKey, SendToServer, TypeOK
  <2> QED BY <1>1, <2>2 DEF SendKey, TypeOK, serverVars, Attached
<1>2. CASE ReceiveKey
  <2>1. FromServer \in Message /\ toClient' \in [Conns -> Seq(Message)]
    BY <1>2, Wires DEF ReceiveKey, FromServer, TakeFromServer, TypeOK
  <2>2. ASSUME NEW peer \in Peers(FromServer), codec' = Derive(ClientKey(conn), peer)
        PROVE  codec' \in Codecs
    BY <2>1, <2>2, PeersTyped, Keys DEF Codecs
  <2>3. codec' \in Codecs
    BY <1>2, <2>2 DEF ReceiveKey, TypeOK
  <2>4. /\ pc' \in Attached \cup {"sleep", "stopped"} /\ ready' \in BOOLEAN
        /\ attempt' \in 0 .. AttemptCap /\ delay' \in 0 .. MaxDelay
    BY <1>2, FailsTyped DEF ReceiveKey, TypeOK, AuthPhase, Attached
  <2> QED BY <1>2, <2>1, <2>3, <2>4 DEF ReceiveKey, TypeOK, serverVars
<1>3. CASE SendAuth
  <2>1. Msg("AuthRequest", codec) \in Message
    BY Messages DEF TypeOK, Codecs, Frames
  <2>2. toServer' \in [Conns -> Seq(Message)]
    BY <1>3, <2>1, Wires DEF SendAuth, SendToServer, TypeOK
  <2> QED BY <1>3, <2>2 DEF SendAuth, TypeOK, serverVars, Attached
<1>4. CASE ReceiveVerdict
  <2>1. toClient' \in [Conns -> Seq(Message)]
    BY <1>4, Wires DEF ReceiveVerdict, TakeFromServer, TypeOK
  <2>2. /\ pc' \in Attached \cup {"sleep", "stopped"} /\ ready' \in BOOLEAN
        /\ attempt' \in 0 .. AttemptCap /\ delay' \in 0 .. MaxDelay
    BY <1>4, FailsTyped DEF ReceiveVerdict, TypeOK, Attached
  <2> QED BY <1>4, <2>1, <2>2 DEF ReceiveVerdict, TypeOK, serverVars
<1>5. CASE HandshakeLost
  <2>1. faults' \in 0 .. MaxFaults
    BY <1>5, SMT DEF HandshakeLost, Fault, TypeOK
  <2> QED BY <1>5, <2>1, FailsTyped DEF HandshakeLost, TypeOK, serverVars, wires
<1> QED BY <1>1, <1>2, <1>3, <1>4, <1>5

\* A step of the client's live connection keeps the types.
LEMMA TypeLive ==
    ASSUME TypeOK, Publish \/ ClientTalk \/ ClientRead \/ ClientEnd
    PROVE  TypeOK'
<1> conn \in Conns
  BY DEF TypeOK, Publish, ClientTalk, ClientRead, ClientEnd, Attached
<1>1. CASE Publish
  BY <1>1, SMT DEF Publish, TypeOK, serverVars, wires, Attached, AttemptCap
<1>2. CASE ClientTalk
  <2>1. Msg("ping", {}) \in Message /\ Msg("ApiRequest", codec) \in Message
    <3>1. {} \in Codecs /\ codec \in Codecs
      BY DEF TypeOK, Codecs
    <3> QED BY <3>1, Messages DEF Frames
  <2>2. toServer' \in [Conns -> Seq(Message)]
    <3>1. ASSUME NEW m \in Message, SendToServer(m) PROVE toServer' \in [Conns -> Seq(Message)]
      BY <3>1, Wires DEF SendToServer, TypeOK
    <3> QED BY <1>2, <2>1, <3>1 DEF ClientTalk
  <2> QED BY <1>2, <2>2 DEF ClientTalk, TypeOK, clientVars, serverVars
<1>3. CASE ClientRead
  <2>1. toClient' \in [Conns -> Seq(Message)]
    BY <1>3, Wires DEF ClientRead, TakeFromServer, TypeOK
  <2> QED BY <1>3, <2>1 DEF ClientRead, TypeOK, clientVars, serverVars
<1>4. CASE ClientEnd
  <2>1. faults' \in 0 .. MaxFaults
    BY <1>4, SMT DEF ClientEnd, Fault, TypeOK
  <2> QED BY <1>4, <2>1, BackoffTyped DEF ClientEnd, TypeOK, serverVars, wires, Attached
<1> QED BY <1>1, <1>2, <1>3, <1>4

\* A step of a server keeps the types.
LEMMA TypeServer ==
    ASSUME TypeOK, NEW g \in Conns, ServerStep(g)
    PROVE  TypeOK'
<1>a. \A k \in {"AuthOk", "AuthErr", "ApiResponse", "EventEmit"} :
          Msg(k, serverCodec[g]) \in Message
  BY Messages DEF TypeOK, Frames
<1> g \in Nat
  BY SMT DEF Conns
<1>b. Msg("key", {ServerKey(g)}) \in Message
  BY Keys, Messages
<1>c. ASSUME NEW m \in Message, Reply(g, m) PROVE toClient' \in [Conns -> Seq(Message)]
  BY <1>c, Wires DEF Reply, TypeOK
<1>d. ASSUME toServer[g] # <<>>, Take(g)
      PROVE  toServer' \in [Conns -> Seq(Message)] /\ Arrived(g) \in Message
  BY <1>d, Wires DEF Take, Arrived, TypeOK
<1>e. ASSUME NEW phase \in {"auth", "insert", "live", "gone"}, Enter(g, phase)
      PROVE  serve' \in [Conns -> {"ecdh", "auth", "insert", "live", "gone"}]
  BY <1>e DEF Enter, TypeOK
<1>1. CASE perform_ecdh_handshake(g)
  <2>1. toServer' \in [Conns -> Seq(Message)] /\ Arrived(g) \in Message
    BY <1>1, <1>d DEF perform_ecdh_handshake
  <2>2. toClient' \in [Conns -> Seq(Message)]
    BY <1>1, <1>b, <1>c DEF perform_ecdh_handshake, TypeOK
  <2>3. \A peer \in Peers(Arrived(g)) : Derive(ServerKey(g), peer) \in Codecs
    BY <2>1, PeersTyped, Keys
  <2>4. serverCodec' \in [Conns -> Codecs]
    <3>1. ASSUME NEW c \in Codecs PROVE [serverCodec EXCEPT ![g] = c] \in [Conns -> Codecs]
      BY DEF TypeOK
    <3> QED BY <1>1, <2>3, <3>1, SMT DEF perform_ecdh_handshake, TypeOK
  <2>5. serve' \in [Conns -> {"ecdh", "auth", "insert", "live", "gone"}]
    BY <1>1, <1>e DEF perform_ecdh_handshake, ServerAuthPhase
  <2> QED BY <1>1, <2>1, <2>2, <2>4, <2>5 DEF perform_ecdh_handshake, TypeOK, clientVars
<1>2. CASE Authenticate(g)
  <2>1. toServer' \in [Conns -> Seq(Message)]
    BY <1>2, <1>d DEF Authenticate
  <2>2. toClient' \in [Conns -> Seq(Message)]
    BY <1>2, <1>a, <1>c DEF Authenticate, TypeOK
  <2>3. serve' \in [Conns -> {"ecdh", "auth", "insert", "live", "gone"}]
    BY <1>2, <1>e DEF Authenticate
  <2>4. accepted' \subseteq Conns
    BY <1>2 DEF Authenticate, TypeOK
  <2> QED BY <1>2, <2>1, <2>2, <2>3, <2>4 DEF Authenticate, TypeOK, clientVars
<1>3. CASE GoLive(g)
  <2>1. toClient' \in [Conns -> Seq(Message)]
    BY <1>3, <1>a, <1>c DEF GoLive
  <2>2. serve' \in [Conns -> {"ecdh", "auth", "insert", "live", "gone"}]
    BY <1>3, <1>e DEF GoLive
  <2> QED BY <1>3, <2>1, <2>2 DEF GoLive, TypeOK, clientVars
<1>4. CASE ServerRead(g)
  <2>1. toServer' \in [Conns -> Seq(Message)]
    BY <1>4, <1>d DEF ServerRead
  <2>2. toClient' \in [Conns -> Seq(Message)]
    BY <1>4, <1>a, <1>c DEF ServerRead, TypeOK
  <2>3. serve' \in [Conns -> {"ecdh", "auth", "insert", "live", "gone"}]
    BY <1>4, <1>e DEF ServerRead, TypeOK
  <2> QED BY <1>4, <2>1, <2>2, <2>3 DEF ServerRead, TypeOK, clientVars
<1>5. CASE ServerEnd(g)
  <2>1. faults' \in 0 .. MaxFaults
    BY <1>5, SMT DEF ServerEnd, Fault, TypeOK
  <2>2. serve' \in [Conns -> {"ecdh", "auth", "insert", "live", "gone"}]
    BY <1>5, <1>e DEF ServerEnd
  <2> QED BY <1>5, <2>1, <2>2 DEF ServerEnd, TypeOK, clientVars, wires
<1> QED BY <1>1, <1>2, <1>3, <1>4, <1>5 DEF ServerStep

\* Every step of the client, a server or the environment keeps the types.
LEMMA TypeNext == TypeOK /\ [Next]_vars => TypeOK'
<1> SUFFICES ASSUME TypeOK, [Next]_vars PROVE TypeOK'
  OBVIOUS
<1>1. CASE ClientStep
  BY <1>1, TypeDial, TypeHandshake, TypeLive DEF ClientStep
<1>2. CASE \E g \in Conns : ServerStep(g)
  BY <1>2, TypeServer
<1>3. CASE \E u \in Urls : Flip(u)
  BY <1>3, SMT DEF Flip, Fault, TypeOK, clientVars, serverVars, wires
<1>4. CASE UNCHANGED vars
  BY <1>4 DEF vars, TypeOK, clientVars, serverVars, wires
<1> QED BY <1>1, <1>2, <1>3, <1>4 DEF Next

\* Every reachable state of client and servers is well typed, for any number of
\* URLs, connections and faults.
THEOREM TypeCorrect == Spec => []TypeOK
BY TypeInit, TypeNext, PTL DEF Spec

---------------------------------------------------------------------------
\* What is under way on a connection, and what the server knows of it.  A key on
\* its way to the client was sent by a server that by then holds the codec derived
\* from it; an AuthOk by one that accepted; and what a server waiting for a key
\* reads first from a client that runs the exchange is that client's key.

ToClientInv(g, m) ==
    /\ m.kind # "AuthRequest"
    /\ m.kind = "key" =>
          /\ m.seal = {ServerKey(g)}
          /\ config.server[at[g]].mode = "ecdh"
          /\ config.client.mode = "ecdh" => serverCodec[g] = Derive(ServerKey(g), ClientKey(g))
    /\ m.kind = "AuthOk" => g \in accepted /\ m.seal = serverCodec[g]

WireInv(g) ==
    /\ \A i \in 1 .. Len(toClient[g]) : ToClientInv(g, toClient[g][i])
    /\ serve[g] = "ecdh" =>
          /\ toClient[g] = <<>> /\ g \notin accepted
          /\ config.server[at[g]].mode = "ecdh"
          /\ (config.client.mode = "ecdh" /\ toServer[g] # <<>>)
                => Head(toServer[g]) = Msg("key", {ClientKey(g)})
    /\ (serve[g] \in {"insert", "live"} /\ config.server[at[g]].auth # "off")
          => g \in accepted

ClientInv ==
    /\ pc = "ecdh" => toServer[conn] = <<>>
    /\ (config.client.mode = "ecdh" /\ pc \in {"auth", "verdict", "publish", "live"})
          => /\ serve[conn] # "ecdh"
             /\ config.server[at[conn]].mode = "ecdh"
             /\ codec = serverCodec[conn]
    /\ (config.client.credential /\ pc \in {"publish", "live"})
          => conn \in accepted /\ codec = serverCodec[conn]

IInv == TypeOK /\ ClientInv /\ \A g \in Conns : WireInv(g)

\* A supervisor that has been connected and is not now has slept as long as its
\* count of failures says.
BackoffInv ==
    /\ pc = "live" => ready /\ attempt = 0
    /\ pc = "sleep" => ready
    /\ (ready /\ pc # "live") => attempt \in 1 .. AttemptCap /\ delay = reconnect_delay(attempt)

\* A step that ends an iteration sleeps as the attempt count says.
LEMMA FailsBackoff ==
    ASSUME TypeOK, BackoffInv, Fails, pc # "live"
    PROVE  /\ BackoffInv'
           /\ pc' = "sleep" => delay' = Least(2 * delay, MaxDelay)
<1>1. CASE ready
  <2>1. /\ attempt \in 1 .. AttemptCap /\ delay = reconnect_delay(attempt)
        /\ attempt' = Least(attempt + 1, AttemptCap) /\ delay' = reconnect_delay(attempt')
        /\ pc' = "sleep" /\ ready'
    BY <1>1 DEF BackoffInv, Fails, Backoff
  <2>2. attempt' \in 1 .. AttemptCap
    BY <2>1, SMT DEF Least, AttemptCap
  <2> QED BY <2>1, <2>2, Delays DEF BackoffInv
<1>2. CASE ~ready
  BY <1>2 DEF Fails, BackoffInv
<1> QED BY <1>1, <1>2

\* Every step keeps BackoffInv, and one that starts a sleep takes it from the
\* previous one or, after a live connection, from the base.
LEMMA BackoffNext ==
    ASSUME TypeOK, BackoffInv, [Next]_vars
    PROVE  /\ BackoffInv'
           /\ (pc # "sleep" /\ pc' = "sleep") =>
                 delay' = IF pc = "live" THEN BaseDelay ELSE Least(2 * delay, MaxDelay)
<1>1. CASE DialOk
  <2>1. pc' \notin {"live", "sleep"}
    BY <1>1 DEF DialOk, AuthPhase
  <2> QED BY <1>1, <2>1 DEF DialOk, BackoffInv
<1>2. CASE DialErr \/ SleepOver \/ SendKey \/ SendAuth
  BY <1>2, SMT DEF DialErr, SleepOver, SendKey, SendAuth, BackoffInv
<1>3. CASE DialNone
  BY <1>3, FailsBackoff DEF DialNone
<1>4. CASE ReceiveKey
  <2>1. CASE Fails
    BY <1>4, <2>1, FailsBackoff DEF ReceiveKey
  <2>2. CASE pc' = AuthPhase /\ UNCHANGED <<ready, attempt, delay>>
    BY <1>4, <2>2 DEF ReceiveKey, BackoffInv, AuthPhase
  <2> QED BY <1>4, <2>1, <2>2 DEF ReceiveKey
<1>5. CASE ReceiveVerdict
  <2>1. CASE Fails
    BY <1>5, <2>1, FailsBackoff DEF ReceiveVerdict
  <2>2. CASE pc' = "publish" /\ UNCHANGED <<ready, attempt, delay>>
    BY <1>5, <2>2 DEF ReceiveVerdict, BackoffInv
  <2> QED BY <1>5, <2>1, <2>2 DEF ReceiveVerdict
<1>6. CASE HandshakeLost
  BY <1>6, FailsBackoff DEF HandshakeLost
<1>7. CASE Publish
  BY <1>7 DEF Publish, BackoffInv
<1>8. CASE ClientEnd
  <2>1. attempt' = 1 /\ delay' = reconnect_delay(1) /\ pc' = "sleep" /\ ready' /\ pc = "live"
    BY <1>8, SMT DEF ClientEnd, Backoff, BackoffInv, Least, AttemptCap
  <2> QED BY <2>1, Delays, SMT DEF BackoffInv, AttemptCap
<1>9. CASE UNCHANGED clientVars
  BY <1>9 DEF clientVars, BackoffInv
<1>10. CASE ClientTalk \/ ClientRead \/ (\E g \in Conns : ServerStep(g)) \/ (\E u \in Urls : Flip(u))
  BY <1>9, <1>10 DEF ClientTalk, ClientRead, ServerStep, perform_ecdh_handshake,
                     Authenticate, GoLive, ServerRead, ServerEnd, Flip
<1> QED BY <1>1, <1>2, <1>3, <1>4, <1>5, <1>6, <1>7, <1>8, <1>9, <1>10
        DEF Next, ClientStep, vars

\* The supervisor sleeps 3 s after a connection that had been up and otherwise
\* doubles the previous sleep up to 30 s, whichever failures lie between.
THEOREM BackoffSchedule == Spec => BackoffDoubles
<1>1. Init => BackoffInv
  BY DEF Init, BackoffInv
<1>2. TypeOK /\ BackoffInv /\ [Next]_vars => BackoffInv'
  BY BackoffNext
<1>3. TypeOK /\ BackoffInv /\ [Next]_vars =>
         [(pc # "sleep" /\ pc' = "sleep") =>
             delay' = IF pc = "live" THEN BaseDelay ELSE Least(2 * delay, MaxDelay)]_vars
  BY BackoffNext
<1> QED BY TypeCorrect, <1>1, <1>2, <1>3, PTL DEF Spec, BackoffDoubles

---------------------------------------------------------------------------

\* A step that leaves a connection's server side and wires alone keeps WireInv.
LEMMA WireFrame ==
    ASSUME TypeOK, NEW h \in Conns, WireInv(h), UNCHANGED config,
           at'[h] = at[h], serve'[h] = serve[h], serverCodec'[h] = serverCodec[h],
           h \in accepted' <=> h \in accepted,
           toServer'[h] = toServer[h], toClient'[h] = toClient[h]
    PROVE  WireInv(h)'
BY DEF WireInv, ToClientInv

\* Taking the first message off the wire to the client keeps WireInv.
LEMMA WireTaken ==
    ASSUME IInv, conn \in Conns, toClient[conn] # <<>>, TakeFromServer,
           UNCHANGED <<config, serverVars, toServer>>
    PROVE  \A g \in Conns : WireInv(g)'
<1> SUFFICES ASSUME NEW g \in Conns PROVE WireInv(g)'
  OBVIOUS
<1>1. CASE g = conn
  <2>1. toClient[g] \in Seq(Message) /\ toClient'[g] = Tail(toClient[g])
    BY <1>1 DEF IInv, TypeOK, TakeFromServer
  <2>3. \A i \in 1 .. Len(Tail(toClient[g])) :
           i + 1 \in 1 .. Len(toClient[g]) /\ Tail(toClient[g])[i] = toClient[g][i + 1]
    BY <1>1, <2>1, SMT
  <2>4. (\A i \in 1 .. Len(toClient[g]) : ToClientInv(g, toClient[g][i]))'
    <3> SUFFICES ASSUME NEW i \in 1 .. Len(toClient'[g]) PROVE ToClientInv(g, toClient[g][i])'
      OBVIOUS
    <3>1. i + 1 \in 1 .. Len(toClient[g]) /\ toClient'[g][i] = toClient[g][i + 1]
      BY <2>1, <2>3
    <3>2. ToClientInv(g, toClient[g][i + 1])
      BY <3>1 DEF IInv, WireInv
    <3> QED BY <3>1, <3>2 DEF ToClientInv, serverVars
  <2>5. serve[g] # "ecdh"
    BY <1>1 DEF IInv, WireInv
  <2> QED BY <2>4, <2>5 DEF IInv, WireInv, serverVars
<1>2. CASE g # conn
  BY <1>2, WireFrame DEF IInv, serverVars, TakeFromServer, TypeOK
<1> QED BY <1>1, <1>2

\* A wire with one more message on it.
LEMMA Appended ==
    ASSUME NEW s \in Seq(Message), NEW m \in Message
    PROVE  /\ Len(s) \in Nat /\ Len(Append(s, m)) = Len(s) + 1
           /\ Append(s, m)[Len(s) + 1] = m
           /\ \A i \in 1 .. Len(s) : Append(s, m)[i] = s[i]
           /\ s = <<>> => Head(Append(s, m)) = m
<1>1. /\ Len(s) \in Nat /\ Len(Append(s, m)) = Len(s) + 1
      /\ Append(s, m)[Len(s) + 1] = m
      /\ \A i \in 1 .. Len(s) : Append(s, m)[i] = s[i]
  BY SMT
<1>2. ASSUME s = <<>> PROVE Head(Append(s, m)) = m
  <2>1. Len(s) = 0
    BY <1>2
  <2>2. Append(s, m) \in Seq(Message) /\ Head(Append(s, m)) = Append(s, m)[1]
    BY SMT
  <2> QED BY <1>1, <2>1, <2>2, SMT
<1> QED BY <1>1, <1>2

\* A message to the server keeps WireInv when it is the client's key, put on an
\* empty wire, or when the server of an exchanging client is past its exchange.
LEMMA WireSent ==
    ASSUME IInv, conn \in Conns, NEW m \in Message, SendToServer(m),
           \/ toServer[conn] = <<>> /\ m = Msg("key", {ClientKey(conn)})
           \/ config.client.mode = "ecdh" => serve[conn] # "ecdh",
           UNCHANGED <<config, serverVars, toClient>>
    PROVE  \A g \in Conns : WireInv(g)'
<1> SUFFICES ASSUME NEW g \in Conns PROVE WireInv(g)'
  OBVIOUS
<1>1. CASE g = conn
  <2>1. toServer[g] \in Seq(Message) /\ toServer'[g] = Append(toServer[g], m)
    BY <1>1 DEF IInv, TypeOK, SendToServer
  <2>3. (\A i \in 1 .. Len(toClient[g]) : ToClientInv(g, toClient[g][i]))'
    BY DEF IInv, WireInv, ToClientInv, serverVars
  <2>2. m \in Message
    OBVIOUS
  <2>4. toServer[g] = <<>> => Head(toServer'[g]) = m
    BY ONLY <2>1, <2>2, Appended
  <2>5. (config.client.mode = "ecdh" /\ serve[g] = "ecdh")
            => Head(toServer'[g]) = Msg("key", {ClientKey(g)})
    BY <1>1, <2>4
  <2> QED BY <2>3, <2>5 DEF IInv, WireInv, serverVars
<1>2. CASE g # conn
  BY <1>2, WireFrame DEF IInv, serverVars, SendToServer, TypeOK
<1> QED BY <1>1, <1>2

\* Opening a connection starts it with empty wires and no verdict.
LEMMA DialInv ==
    ASSUME IInv, DialOk
    PROVE  ClientInv' /\ \A g \in Conns : WireInv(g)'
<1>1. PICK k \in Conns : k = NextConn
  BY SMT DEF IInv, TypeOK, NextConn, Conns
<1>2. /\ conn' = k /\ serve'[k] \in {"ecdh", ServerAuthPhase(DialUrl)}
      /\ serve'[k] = "ecdh" => config.server[DialUrl].mode = "ecdh"
      /\ toServer'[k] = <<>> /\ toClient'[k] = <<>>
      /\ k \notin accepted' /\ at'[k] = DialUrl /\ config' = config
  BY <1>1 DEF DialOk, IInv, TypeOK, ServerAuthPhase
<1>3. pc' \notin {"verdict", "live"}
  BY DEF DialOk, AuthPhase
<1>4. pc' = "publish" => ~config.client.credential
  BY DEF DialOk, AuthPhase, IInv, TypeOK, ClientConfigs
<1>5. pc' \in {"auth", "publish"} => config.client.mode # "ecdh"
  BY DEF DialOk
<1>6. ClientInv'
  BY <1>2, <1>3, <1>4, <1>5 DEF ClientInv
<1>7. WireInv(k)'
  <2>1. serve'[k] \in {"insert", "live"} => config.server[DialUrl].auth = "off"
    BY <1>2 DEF ServerAuthPhase
  <2> QED BY <1>2, <2>1, SMT DEF WireInv
<1>8. ASSUME NEW g \in Conns, g # k PROVE WireInv(g)'
  BY <1>8, <1>1, WireFrame DEF DialOk, IInv, TypeOK
<1> QED BY <1>6, <1>7, <1>8

\* Every step of the client keeps the invariant.
LEMMA ClientKeeps ==
    ASSUME IInv, ClientStep
    PROVE  ClientInv' /\ \A g \in Conns : WireInv(g)'
<1>a. ASSUME UNCHANGED <<config, serverVars, wires>> PROVE \A g \in Conns : WireInv(g)'
  BY <1>a, WireFrame DEF IInv, serverVars, wires
<1>b. ASSUME Fails PROVE ClientInv'
  BY <1>b, FailsTyped DEF IInv, ClientInv, Attached
<1>1. CASE DialOk
  BY <1>1, DialInv
<1>2. CASE DialErr
  BY <1>2, <1>a DEF DialErr, ClientInv
<1>3. CASE DialNone
  BY <1>3, <1>a, <1>b DEF DialNone
<1>4. CASE SleepOver
  BY <1>4, <1>a DEF SleepOver, ClientInv
<1>5. CASE SendKey
  <2>1. conn \in Conns /\ conn \in Nat
    BY <1>5, SMT DEF SendKey, IInv, TypeOK, Attached, Conns
  <2>2. Msg("key", {ClientKey(conn)}) \in Message
    BY <2>1, Keys, Messages
  <2>3. toServer[conn] = <<>>
    BY <1>5 DEF SendKey, IInv, ClientInv
  <2>4. \A g \in Conns : WireInv(g)'
    BY <1>5, <2>1, <2>2, <2>3, WireSent DEF SendKey
  <2> QED BY <1>5, <2>4 DEF SendKey, ClientInv
<1>6. CASE ReceiveKey
  <2>1. conn \in Conns
    BY <1>6 DEF ReceiveKey, IInv, TypeOK, Attached
  <2>2. \A g \in Conns : WireInv(g)'
    BY <1>6, <2>1, WireTaken DEF ReceiveKey
  <2>3. CASE Fails
    BY <2>2, <2>3, <1>b
  <2>4. ASSUME NEW peer \in Peers(FromServer), codec' = Derive(ClientKey(conn), peer),
               pc' = AuthPhase
        PROVE  ClientInv'
    <3>1. toClient[conn] \in Seq(Message) /\ toClient[conn] # <<>> /\ WireInv(conn)
      BY <1>6, <2>1 DEF ReceiveKey, IInv, TypeOK
    <3>2. ToClientInv(conn, FromServer) /\ serve[conn] # "ecdh"
      BY <3>1, SMTT(30) DEF WireInv, FromServer
    <3>3. FromServer.kind = "key" /\ peer \in FromServer.seal
      BY <2>4, <3>2 DEF Peers, ToClientInv
    <3>4. peer = ServerKey(conn) /\ config.server[at[conn]].mode = "ecdh"
      BY <3>2, <3>3 DEF ToClientInv
    <3>5. config.client.mode = "ecdh" => codec' = serverCodec[conn]
      BY <2>4, <3>2, <3>3, <3>4 DEF ToClientInv, Derive
    <3>6. pc' \in {"auth", "publish"} /\ (pc' = "publish" => ~config.client.credential)
      BY <2>4 DEF AuthPhase, IInv, TypeOK, ClientConfigs
    <3> QED BY <1>6, <3>2, <3>4, <3>5, <3>6 DEF ReceiveKey, ClientInv, serverVars
  <2> QED BY <1>6, <2>2, <2>3, <2>4 DEF ReceiveKey
<1>7. CASE SendAuth
  <2>1. conn \in Conns
    BY <1>7 DEF SendAuth, IInv, TypeOK, Attached
  <2>2. Msg("AuthRequest", codec) \in Message
    BY Messages DEF IInv, TypeOK, Frames
  <2>3. config.client.mode = "ecdh" => serve[conn] # "ecdh"
    BY <1>7 DEF SendAuth, IInv, ClientInv
  <2>4. \A g \in Conns : WireInv(g)'
    BY <1>7, <2>1, <2>2, <2>3, WireSent DEF SendAuth
  <2> QED BY <1>7, <2>4 DEF SendAuth, IInv, ClientInv, serverVars
<1>8. CASE ReceiveVerdict
  <2>1. conn \in Conns
    BY <1>8 DEF ReceiveVerdict, IInv, TypeOK, Attached
  <2>2. \A g \in Conns : WireInv(g)'
    BY <1>8, <2>1, WireTaken DEF ReceiveVerdict
  <2>3. CASE Fails
    BY <2>2, <2>3, <1>b
  <2>4. CASE Decodes(FromServer, codec) /\ FromServer.kind = "AuthOk" /\ pc' = "publish"
    <3>1. toClient[conn] \in Seq(Message) /\ toClient[conn] # <<>> /\ WireInv(conn)
      BY <1>8, <2>1 DEF ReceiveVerdict, IInv, TypeOK
    <3>2. ToClientInv(conn, FromServer)
      BY <3>1, SMTT(30) DEF WireInv, FromServer
    <3>3. conn \in accepted /\ codec = serverCodec[conn]
      BY <2>4, <3>2 DEF ToClientInv, Decodes
    <3> QED BY <1>8, <2>2, <2>4, <3>3 DEF ReceiveVerdict, IInv, ClientInv, serverVars
  <2> QED BY <1>8, <2>3, <2>4 DEF ReceiveVerdict
<1>9. CASE HandshakeLost
  BY <1>9, <1>a, <1>b DEF HandshakeLost
<1>10. CASE Publish
  BY <1>10, <1>a DEF Publish, IInv, ClientInv, serverVars, wires
<1>11. CASE ClientTalk
  <2>1. conn \in Conns
    BY <1>11 DEF ClientTalk, IInv, TypeOK, Attached
  <2>2. Msg("ping", {}) \in Message /\ Msg("ApiRequest", codec) \in Message
    <3>1. {} \in Codecs /\ codec \in Codecs
      BY DEF IInv, TypeOK, Codecs
    <3> QED BY <3>1, Messages DEF Frames
  <2>3. config.client.mode = "ecdh" => serve[conn] # "ecdh"
    BY <1>11 DEF ClientTalk, IInv, ClientInv
  <2>4. ASSUME NEW m \in Message, SendToServer(m) PROVE \A g \in Conns : WireInv(g)'
    BY <1>11, <2>1, <2>3, <2>4, WireSent DEF ClientTalk
  <2>5. \A g \in Conns : WireInv(g)'
    BY <1>11, <2>2, <2>4 DEF ClientTalk
  <2> QED BY <1>11, <2>5 DEF ClientTalk, IInv, ClientInv, clientVars, serverVars
<1>12. CASE ClientRead
  <2>1. conn \in Conns
    BY <1>12 DEF ClientRead, IInv, TypeOK, Attached
  <2>2. \A g \in Conns : WireInv(g)'
    BY <1>12, <2>1, WireTaken DEF ClientRead
  <2> QED BY <1>12, <2>2 DEF ClientRead, IInv, ClientInv, clientVars, serverVars
<1>13. CASE ClientEnd
  BY <1>13, <1>a DEF ClientEnd, Backoff, ClientInv
<1> QED BY <1>1, <1>2, <1>3, <1>4, <1>5, <1>6, <1>7, <1>8, <1>9, <1>10, <1>11, <1>12, <1>13
        DEF ClientStep

\* A reply of one message keeps the invariant of its connection's wire when the
\* message satisfies it and nothing it says of earlier messages changes.
LEMMA WireReplied ==
    ASSUME TypeOK, NEW g \in Conns, NEW m \in Message, Reply(g, m),
           \A i \in 1 .. Len(toClient[g]) : ToClientInv(g, toClient[g][i]),
           UNCHANGED <<config, at>>, accepted \subseteq accepted',
           toClient[g] = <<>> \/ serverCodec'[g] = serverCodec[g],
           ToClientInv(g, m)'
    PROVE  (\A i \in 1 .. Len(toClient[g]) : ToClientInv(g, toClient[g][i]))'
<1>1. toClient[g] \in Seq(Message) /\ toClient'[g] = Append(toClient[g], m)
  BY DEF TypeOK, Reply
<1>a. m \in Message
  OBVIOUS
<1>b. /\ Len(toClient[g]) \in Nat /\ Len(toClient'[g]) = Len(toClient[g]) + 1
      /\ toClient'[g][Len(toClient[g]) + 1] = m
      /\ \A i \in 1 .. Len(toClient[g]) : toClient'[g][i] = toClient[g][i]
  BY ONLY <1>1, <1>a, Appended
<1> SUFFICES ASSUME NEW i \in 1 .. Len(toClient'[g]) PROVE ToClientInv(g, toClient[g][i])'
  OBVIOUS
<1>2. CASE i = Len(toClient[g]) + 1
  <2>1. toClient'[g][i] = m
    BY ONLY <1>b, <1>2
  <2> QED BY <2>1 DEF ToClientInv
<1>3. CASE i \in 1 .. Len(toClient[g])
  <2>1. toClient'[g][i] = toClient[g][i]
    BY ONLY <1>b, <1>3
  <2>3. toClient[g] # <<>>
    BY ONLY <1>1, <1>3
  <2>2. ToClientInv(g, toClient[g][i])
    BY <1>3
  <2> QED BY <2>1, <2>2, <2>3 DEF ToClientInv
<1>4. i = Len(toClient[g]) + 1 \/ i \in 1 .. Len(toClient[g])
  BY <1>b, SMT
<1> QED BY <1>2, <1>3, <1>4

\* A step of the server leaves the other connections alone.
LEMMA ServerFrame ==
    ASSUME IInv, NEW g \in Conns, ServerStep(g), NEW h \in Conns, h # g
    PROVE  WireInv(h)'
<1>1. UNCHANGED config /\ at'[h] = at[h]
  BY DEF ServerStep, perform_ecdh_handshake, Authenticate, GoLive, ServerRead, ServerEnd
<1>2. serve'[h] = serve[h]
  BY DEF ServerStep, perform_ecdh_handshake, Authenticate, GoLive, ServerRead, ServerEnd,
         Enter, IInv, TypeOK
<1>3. serverCodec'[h] = serverCodec[h] /\ (h \in accepted' <=> h \in accepted)
  BY DEF ServerStep, perform_ecdh_handshake, Authenticate, GoLive, ServerRead, ServerEnd,
         IInv, TypeOK
<1>4. toServer'[h] = toServer[h]
  BY DEF ServerStep, perform_ecdh_handshake, Authenticate, GoLive, ServerRead, ServerEnd,
         Take, IInv, TypeOK, wires
<1>5. toClient'[h] = toClient[h]
  BY DEF ServerStep, perform_ecdh_handshake, Authenticate, GoLive, ServerRead, ServerEnd,
         Reply, IInv, TypeOK, wires
<1> QED BY <1>1, <1>2, <1>3, <1>4, <1>5, WireFrame DEF IInv

\* A step of the server keeps the invariant of its own connection.
LEMMA ServerOwn ==
    ASSUME IInv, NEW g \in Conns, ServerStep(g)
    PROVE  WireInv(g)'
<1> DEFINE Replies == \A i \in 1 .. Len(toClient[g]) : ToClientInv(g, toClient[g][i])
<1> g \in Nat /\ TypeOK /\ WireInv(g)
  BY SMT DEF IInv, Conns
<1>a. Replies
  BY DEF WireInv
<1>b. ASSUME UNCHANGED <<config, at, serverCodec, toClient>>, accepted \subseteq accepted'
      PROVE  Replies'
  BY <1>b, <1>a DEF ToClientInv
<1>c. ASSUME NEW phase, Enter(g, phase) PROVE serve'[g] = phase
  BY <1>c DEF Enter, TypeOK
<1>1. CASE perform_ecdh_handshake(g)
  <2>1. serve[g] = "ecdh" /\ toClient[g] = <<>> /\ UNCHANGED <<config, at, accepted>>
    BY <1>1 DEF perform_ecdh_handshake, WireInv
  <2>2. CASE Enter(g, "gone") /\ UNCHANGED <<serverCodec, toClient>>
    BY <2>1, <2>2, <1>b, <1>c DEF WireInv
  <2>3. ASSUME NEW peer \in Peers(Arrived(g)),
               Reply(g, Msg("key", {ServerKey(g)})),
               serverCodec' = [serverCodec EXCEPT ![g] = Derive(ServerKey(g), peer)],
               Enter(g, ServerAuthPhase(at[g]))
        PROVE  WireInv(g)'
    <3>1. config.client.mode = "ecdh" => peer = ClientKey(g)
      BY <1>1, <2>1, SMT DEF perform_ecdh_handshake, WireInv, Arrived, Peers, Msg
    <3>2. serverCodec'[g] = Derive(ServerKey(g), peer)
      BY <2>3 DEF TypeOK
    <3>3. config.server[at[g]].mode = "ecdh"
      BY <2>1 DEF WireInv
    <3>4. ToClientInv(g, Msg("key", {ServerKey(g)}))'
      BY <2>1, <3>1, <3>2, <3>3 DEF ToClientInv, Msg
    <3>5. Msg("key", {ServerKey(g)}) \in Message
      BY Keys, Messages
    <3>6. Replies'
      BY <1>a, <2>1, <2>3, <3>4, <3>5, WireReplied
    <3>7. serve'[g] = ServerAuthPhase(at[g])
      BY <2>3, <1>c
    <3> QED BY <2>1, <3>6, <3>7 DEF WireInv, ServerAuthPhase
  <2> QED BY <1>1, <2>2, <2>3 DEF perform_ecdh_handshake
<1>2. CASE Authenticate(g)
  <2>1. /\ serve[g] = "auth" /\ UNCHANGED <<config, at, serverCodec>>
        /\ serve'[g] \in {"insert", "gone"} /\ accepted \subseteq accepted'
        /\ serve'[g] = "insert" => g \in accepted'
    BY <1>2, <1>c DEF Authenticate
  <2>2. Msg("AuthOk", serverCodec[g]) \in Message /\ Msg("AuthErr", serverCodec[g]) \in Message
    BY Messages DEF TypeOK, Frames
  <2>3. CASE Reply(g, Msg("AuthOk", serverCodec[g])) /\ g \in accepted'
    <3>1. PICK m \in Message : m = Msg("AuthOk", serverCodec[g])
      BY <2>2
    <3>2. ToClientInv(g, m)'
      BY <2>1, <2>3, <3>1 DEF ToClientInv, Msg
    <3>3. Replies'
      BY <1>a, <2>1, <2>3, <3>1, <3>2, WireReplied
    <3> QED BY <2>1, <3>3 DEF WireInv
  <2>4. CASE Reply(g, Msg("AuthErr", serverCodec[g]))
    <3>1. PICK m \in Message : m = Msg("AuthErr", serverCodec[g])
      BY <2>2
    <3>2. ToClientInv(g, m)'
      BY <2>1, <3>1 DEF ToClientInv, Msg
    <3>3. Replies'
      BY <1>a, <2>1, <2>4, <3>1, <3>2, WireReplied
    <3> QED BY <2>1, <3>3 DEF WireInv
  <2>5. CASE UNCHANGED toClient
    BY <2>1, <2>5, <1>b DEF WireInv
  <2> QED BY <1>2, <2>3, <2>4, <2>5 DEF Authenticate
<1>3. CASE GoLive(g)
  <2>1. /\ serve[g] = "insert" /\ UNCHANGED <<config, at, serverCodec, accepted>>
        /\ serve'[g] = "live"
    BY <1>3, <1>c DEF GoLive
  <2>2. PICK m \in Message : m = Msg("EventEmit", serverCodec[g])
    BY Messages DEF TypeOK, Frames
  <2>3. ToClientInv(g, m)'
    BY <2>1, <2>2 DEF ToClientInv, Msg
  <2>4. Replies'
    BY <1>3, <1>a, <2>1, <2>2, <2>3, WireReplied DEF GoLive
  <2> QED BY <2>1, <2>4 DEF WireInv
<1>4. CASE ServerRead(g)
  <2>1. serve[g] = "live" /\ UNCHANGED <<config, at, serverCodec, accepted>>
    BY <1>4 DEF ServerRead
  <2>2. serve'[g] \in {"live", "gone"}
    BY <1>4, <1>c, <2>1 DEF ServerRead
  <2>3. CASE UNCHANGED toClient
    BY <2>1, <2>2, <2>3, <1>b DEF WireInv
  <2>4. CASE Reply(g, Msg("ApiResponse", serverCodec[g]))
    <3>1. PICK m \in Message : m = Msg("ApiResponse", serverCodec[g])
      BY Messages DEF TypeOK, Frames
    <3>2. ToClientInv(g, m)'
      BY <2>1, <3>1 DEF ToClientInv, Msg
    <3>3. Replies'
      BY <1>a, <2>1, <2>4, <3>1, <3>2, WireReplied
    <3> QED BY <2>1, <2>2, <3>3 DEF WireInv
  <2> QED BY <1>4, <2>3, <2>4 DEF ServerRead
<1>5. CASE ServerEnd(g)
  <2>1. serve'[g] = "gone" /\ UNCHANGED <<config, at, serverCodec, accepted, toClient>>
    BY <1>5, <1>c DEF ServerEnd, wires
  <2> QED BY <2>1, <1>b DEF WireInv
<1> QED BY <1>1, <1>2, <1>3, <1>4, <1>5 DEF ServerStep

\* What the client believes is not disturbed by a step of a server.
LEMMA ServerKeepsClient ==
    ASSUME IInv, NEW g \in Conns, ServerStep(g)
    PROVE  ClientInv'
<1>1. UNCHANGED <<config, pc, conn, codec, at>> /\ accepted \subseteq accepted'
  BY DEF ServerStep, perform_ecdh_handshake, Authenticate, GoLive, ServerRead, ServerEnd,
         clientVars
<1>2. pc \in Attached => conn \in Conns
  BY DEF IInv, TypeOK
<1>3. pc = "ecdh" => toServer'[conn] = <<>>
  <2>1. ASSUME pc = "ecdh" PROVE toServer'[conn] = <<>>
    <3>1. conn \in Conns /\ toServer[conn] = <<>>
      BY <1>2, <2>1 DEF Attached, IInv, ClientInv
    <3>2. CASE ServerEnd(g) \/ GoLive(g)
      BY <3>1, <3>2 DEF ServerEnd, GoLive, wires
    <3>3. CASE g # conn /\ Take(g)
      BY <3>1, <3>3 DEF Take, IInv, TypeOK
    <3>4. CASE perform_ecdh_handshake(g)
      BY <3>1, <3>3, <3>4 DEF perform_ecdh_handshake
    <3>5. CASE Authenticate(g)
      BY <3>1, <3>3, <3>5 DEF Authenticate
    <3>6. CASE ServerRead(g)
      BY <3>1, <3>3, <3>6 DEF ServerRead
    <3> QED BY <3>2, <3>4, <3>5, <3>6 DEF ServerStep
  <2> QED BY <2>1
<1>4. ASSUME conn \in Conns, serve[conn] # "ecdh"
      PROVE  serve'[conn] # "ecdh" /\ serverCodec'[conn] = serverCodec[conn]
  <2>1. serve'[conn] # "ecdh"
    BY <1>4 DEF ServerStep, perform_ecdh_handshake, Authenticate, GoLive, ServerRead,
                ServerEnd, Enter, ServerAuthPhase, IInv, TypeOK
  <2>2. serverCodec'[conn] = serverCodec[conn]
    BY <1>4 DEF ServerStep, perform_ecdh_handshake, Authenticate, GoLive, ServerRead,
                ServerEnd, IInv, TypeOK
  <2> QED BY <2>1, <2>2
<1>5. (config.client.credential /\ pc \in {"publish", "live"}) => serve[conn] # "ecdh"
  BY <1>2 DEF IInv, ClientInv, WireInv, Attached
<1> QED BY <1>1, <1>2, <1>3, <1>4, <1>5 DEF IInv, ClientInv, Attached

\* The inductive invariant holds before the first dial.
LEMMA IInvInit == Init => IInv
<1> SUFFICES ASSUME Init PROVE IInv
  OBVIOUS
<1>1. ClientInv
  BY DEF Init, ClientInv
<1>2. \A g \in Conns : WireInv(g)
  BY SMT DEF Init, WireInv
<1> QED BY <1>1, <1>2, TypeInit DEF IInv

\* Every step keeps the inductive invariant.
LEMMA IInvNext == IInv /\ [Next]_vars => IInv'
<1> SUFFICES ASSUME IInv, [Next]_vars PROVE IInv'
  OBVIOUS
<1>1. TypeOK'
  BY TypeNext DEF IInv
<1>2. CASE ClientStep
  BY <1>1, <1>2, ClientKeeps DEF IInv
<1>3. CASE \E g \in Conns : ServerStep(g)
  BY <1>1, <1>3, ServerOwn, ServerFrame, ServerKeepsClient DEF IInv
<1>4. CASE UNCHANGED <<config, clientVars, serverVars, wires>>
  <2>1. \A g \in Conns : WireInv(g)'
    BY <1>4, WireFrame DEF IInv, serverVars, wires
  <2> QED BY <1>1, <1>4, <2>1 DEF IInv, ClientInv, clientVars, serverVars, wires
<1> QED BY <1>2, <1>3, <1>4 DEF Next, Flip, vars

\* The inductive invariant holds in every state of a set-up.
LEMMA IInvHolds == Spec => []IInv
BY IInvInit, IInvNext, PTL DEF Spec

\* However the servers are configured, a client that finished the key exchange
\* shares its session key with the server it is connected to.
THEOREM KeysAgree == Spec => []SessionKeysAgree
<1>1. IInv => SessionKeysAgree
  BY DEF IInv, ClientInv, SessionKeysAgree
<1> QED BY <1>1, IInvHolds, PTL

\* A client with a credential is connected only after its server's auth handler
\* accepted it, and a server with an auth handler serves only what it accepted.
THEOREM VerdictsAreHonest == Spec => []VerdictHonest
<1>1. IInv => VerdictHonest
  BY DEF IInv, ClientInv, WireInv, VerdictHonest
<1> QED BY <1>1, IInvHolds, PTL
=============================================================================
