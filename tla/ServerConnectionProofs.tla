----------------------- MODULE ServerConnectionProofs -----------------------
(***************************************************************************)
(* Machine-checked safety of ServerConnection, for any number of sockets   *)
(* and requests, any caps, any queue capacity and any number of faults:    *)
(* permits and caps, authentication, every request answered at most once,  *)
(* and, without a fault, no answer lost but to a connection being torn     *)
(* down.                                                                   *)
(***************************************************************************)
EXTENDS ServerConnection, FiniteSetTheorems, TLAPS

\* Leaves are first-order reasoning unless they name SMT.
USE Zenon DEF serveVars, outVars, taskVars, boundVars

\* The initial state of a server is well typed.
LEMMA InitType == Init => TypeOK
<1> SUFFICES ASSUME Init PROVE TypeOK
  OBVIOUS
<1>1. /\ permits \in Nat /\ MaxInFlight \in Nat
      /\ 0 \in 0 .. MaxEvents /\ 0 \in 0 .. MaxFaults
  BY ServerAssumption, SMT DEF Init
<1>2. queue \in [Conns -> Seq(Messages)]
  BY SMT DEF Init
<1> QED BY <1>1, <1>2 DEF Init, TypeOK

\* A message sent or tried on a channel keeps the queues well typed.
LEMMA PushType ==
  ASSUME TypeOK, NEW c \in Conns, NEW m \in Messages, Push(c, m)
  PROVE  queue' \in [Conns -> Seq(Messages)]
<1>1. queue[c] \in Seq(Messages)
  BY DEF TypeOK
<1>2. Append(queue[c], m) \in Seq(Messages)
  BY <1>1, SMT
<1> QED BY <1>2 DEF TypeOK, Push

\* A fault is one of the faults there are.
LEMMA FaultType ==
  ASSUME TypeOK, Fault
  PROVE  events' \in 0 .. MaxEvents /\ faults' \in 0 .. MaxFaults
  BY ServerAssumption, SMT DEF TypeOK, Fault

\* Steps of the accept loop that concern no socket preserve the type invariant.
LEMMA ListenType ==
  ASSUME TypeOK, ListenAcquire \/ ListenFail
  PROVE  TypeOK'
<1>1. CASE ListenAcquire
  <2>1. permits' \in Nat
    BY <1>1, SMT DEF TypeOK, ListenAcquire
  <2> QED BY <1>1, <2>1 DEF TypeOK, ListenAcquire
<1>2. CASE ListenFail
  <2>1. permits' \in Nat
    BY <1>2, SMT DEF TypeOK, ListenFail
  <2>2. events' \in 0 .. MaxEvents /\ faults' \in 0 .. MaxFaults
    BY <1>2, FaultType DEF ListenFail
  <2> QED BY <1>2, <2>1, <2>2 DEF TypeOK, ListenFail
<1> QED BY <1>1, <1>2

\* Accepting a socket preserves the type invariant.
LEMMA AcceptType ==
  ASSUME TypeOK, NEW c \in Conns, ListenAccept(c)
  PROVE  TypeOK'
  BY DEF TypeOK, ListenAccept, Step, Setup

\* Steps of serve_connection that wait for the peer or for a handler preserve
\* the type invariant.
LEMMA WaitType ==
  ASSUME TypeOK, NEW c \in Conns, Wait(c)
  PROVE  TypeOK'
<1> USE DEF TypeOK, Step, Setup, Live, Down
<1>1. CASE NotBanned(c) \/ Upgrade(c) \/ EcdhHandshake(c)
  BY <1>1 DEF NotBanned, Upgrade, EcdhHandshake
<1>2. CASE Authenticate(c)
  <2>1. authed' \subseteq Conns
    BY <1>2 DEF Authenticate
  <2>2. conn' \in [Conns -> {"none", "ended"} \cup Setup \cup Live \cup Down]
    BY <1>2 DEF Authenticate
  <2> QED BY <1>2, <2>1, <2>2 DEF Authenticate
<1>3. CASE SetupFails(c) \/ NotifyDisconnected(c)
  <2>1. permits' \in Nat
    BY <1>3, SMT DEF SetupFails, NotifyDisconnected, Leave
  <2>2. conn' \in [Conns -> {"none", "ended"} \cup Setup \cup Live \cup Down]
    <3>1. conn' = [conn EXCEPT ![c] = "ended"]
      BY <1>3 DEF SetupFails, NotifyDisconnected, Leave
    <3> QED BY <3>1
  <2>3. UNCHANGED <<listener, authed, clients, held, outVars, taskVars, boundVars>>
    BY <1>3 DEF SetupFails, NotifyDisconnected
  <2> QED BY <2>1, <2>2, <2>3
<1>4. CASE NotifyConnected(c)
  BY <1>4 DEF NotifyConnected
<1>5. ASSUME NEW r \in Requests, ReadRequest(c, r) PROVE TypeOK'
  <2>1. conn' \in [Conns -> {"none", "ended"} \cup Setup \cup Live \cup Down]
    <3>1. \E to \in {"permit", "queue"} : conn' = [conn EXCEPT ![c] = to]
      BY <1>5 DEF ReadRequest
    <3> QED BY <3>1
  <2>2. req' \in [Requests -> Running \cup {"unsent", "read", "limited", "answered", "lost"}]
    BY <1>5 DEF ReadRequest, Task
  <2>3. held' \in [Conns -> Messages \cup {"none"}]
    BY <1>5 DEF ReadRequest, Messages
  <2> QED BY <1>5, <2>1, <2>2, <2>3 DEF ReadRequest
<1>6. CASE ReadBadFrame(c)
  BY <1>6 DEF ReadBadFrame, Messages
<1>7. CASE ReadEnd(c) \/ ReadPing(c)
  BY <1>7 DEF ReadEnd, ReadPing
<1> QED BY <1>1, <1>2, <1>3, <1>4, <1>5, <1>6, <1>7 DEF Wait

\* The reader of a connection only queues something while it is busy with a
\* message, and only asks for an in-flight permit for a request of its own.
Held ==
    \A c \in Conns :
        /\ conn[c] = "queue" => held[c] \in Messages
        /\ conn[c] = "permit" => held[c] \in Requests /\ ConnOf[held[c]] = c

\* Steps serve_connection takes on its own preserve the type invariant.
LEMMA ServeType ==
  ASSUME TypeOK, Held, NEW c \in Conns, Serve(c)
  PROVE  TypeOK'
<1> USE DEF TypeOK, Step, Live, Down
<1>1. CASE Register(c)
  BY <1>1 DEF Register
<1>2. CASE SpawnWriter(c)
  BY <1>2 DEF SpawnWriter
<1>3. CASE SendNotice(c)
  <2>1. queue' \in [Conns -> Seq(Messages)]
    BY <1>3, PushType DEF SendNotice, Messages
  <2>2. events' \in 0 .. MaxEvents /\ faults' \in 0 .. MaxFaults
    BY <1>3, FaultType DEF SendNotice
  <2> QED BY <1>3, <2>1, <2>2 DEF SendNotice
<1>4. CASE AcquirePermit(c)
  <2>1. conn' \in [Conns -> {"none", "ended"} \cup Setup \cup Live \cup Down]
    BY <1>4 DEF AcquirePermit
  <2>2. req' \in [Requests -> Running \cup {"unsent", "read", "limited", "answered", "lost"}]
    BY <1>4 DEF AcquirePermit, Task, Running, Held
  <2>3. held' \in [Conns -> Messages \cup {"none"}]
    BY <1>4 DEF AcquirePermit
  <2>4. in_flight' \in [Conns -> Nat]
    BY <1>4, SMT DEF AcquirePermit
  <2> QED BY <1>4, <2>1, <2>2, <2>3, <2>4 DEF AcquirePermit
<1>5. CASE ReaderQueue(c)
  <2>1. queue' \in [Conns -> Seq(Messages)]
    BY <1>5, PushType DEF ReaderQueue, Held
  <2>2. events' \in 0 .. MaxEvents /\ faults' \in 0 .. MaxFaults
    BY <1>5, FaultType DEF ReaderQueue
  <2> QED BY <1>5, <2>1, <2>2 DEF ReaderQueue
<1>6. CASE ReaderPong(c)
  <2>1. queue' \in [Conns -> Seq(Messages)]
    BY <1>6, PushType DEF ReaderPong, Messages
  <2> QED BY <1>6, <2>1 DEF ReaderPong
<1>7. CASE Unregister(c)
  BY <1>7 DEF Unregister
<1>8. CASE TryClose(c)
  <2>1. queue' \in [Conns -> Seq(Messages)]
    BY <1>8, PushType DEF TryClose, Messages
  <2> QED BY <1>8, <2>1 DEF TryClose
<1>9. CASE AbortWriter(c)
  BY <1>9 DEF AbortWriter
<1> QED BY <1>1, <1>2, <1>3, <1>4, <1>5, <1>6, <1>7, <1>8, <1>9 DEF Serve

\* Steps of the writer task, and pushed events, preserve the type invariant.
LEMMA WriterType ==
  ASSUME TypeOK, NEW c \in Conns,
         PushEvent(c) \/ WriterPop(c) \/ WriterSend(c) \/ WriterFail(c)
  PROVE  TypeOK'
<1>1. CASE PushEvent(c)
  <2>1. queue' \in [Conns -> Seq(Messages)]
    BY <1>1, PushType DEF PushEvent, Messages, TypeOK
  <2> QED BY <1>1, <2>1, ServerAssumption, SMT DEF PushEvent, TypeOK
<1>2. CASE WriterPop(c)
  <2>1. queue[c] \in Seq(Messages) /\ queue[c] # <<>>
    BY <1>2 DEF WriterPop, TypeOK
  <2>2. Head(queue[c]) \in Messages /\ Tail(queue[c]) \in Seq(Messages)
    BY <2>1, SMT
  <2> QED BY <1>2, <2>2 DEF WriterPop, TypeOK
<1>3. CASE WriterSend(c)
  <2>1. delivered' \in [Requests -> Nat]
    BY <1>3, SMT DEF WriterSend, TypeOK
  <2> QED BY <1>3, <2>1 DEF WriterSend, TypeOK
<1>4. CASE WriterFail(c)
  BY <1>4, ServerAssumption, SMT DEF WriterFail, Fault, TypeOK
<1> QED BY <1>1, <1>2, <1>3, <1>4

\* A task that ends keeps requests and in-flight permits well typed.
LEMMA EndType ==
  ASSUME TypeOK, NEW r \in Requests, NEW from, NEW to \in {"answered", "lost"},
         TaskEnds(r, from, to)
  PROVE  /\ req' \in [Requests -> Running \cup {"unsent", "read", "limited", "answered", "lost"}]
         /\ in_flight' \in [Conns -> Nat]
<1>1. in_flight[ConnOf[r]] \in Nat
  BY ServerAssumption DEF TypeOK
<1>2. in_flight[ConnOf[r]] + 1 \in Nat
  BY ONLY <1>1, SMT
<1> QED BY <1>2 DEF TypeOK, TaskEnds, Task

\* Steps of the task of a request preserve the type invariant.
LEMMA TaskType ==
  ASSUME TypeOK, NEW r \in Requests,
         HandlerStep(r) \/ HandlerReturn(r) \/ HandlerDies(r) \/ HandlerEncodeFails(r)
  PROVE  TypeOK'
<1> USE DEF TypeOK
<1>1. CASE HandlerBegin(r)
  <2>1. identity' \subseteq Requests
    BY <1>1 DEF HandlerBegin
  <2>2. req' \in [Requests -> Running \cup {"unsent", "read", "limited", "answered", "lost"}]
    BY <1>1 DEF HandlerBegin, Task, Running
  <2> QED BY <1>1, <2>1, <2>2 DEF HandlerBegin
<1>2. CASE HandlerLookup(r)
  <2>1. /\ req' \in [Requests -> Running \cup {"unsent", "read", "limited", "answered", "lost"}]
        /\ in_flight' \in [Conns -> Nat]
    <3>1. CASE Task(r, "respond", "sending") /\ UNCHANGED in_flight
      BY <3>1 DEF Task, Running
    <3>2. CASE TaskEnds(r, "respond", "lost")
      BY <3>2, EndType
    <3> QED BY <1>2, <3>1, <3>2 DEF HandlerLookup
  <2> QED BY <1>2, <2>1 DEF HandlerLookup
<1>3. CASE HandlerSend(r)
  <2>1. queue' \in [Conns -> Seq(Messages)]
    BY <1>3, PushType, ServerAssumption DEF HandlerSend, Messages
  <2>2. /\ req' \in [Requests -> Running \cup {"unsent", "read", "limited", "answered", "lost"}]
        /\ in_flight' \in [Conns -> Nat]
    BY <1>3, EndType DEF HandlerSend
  <2> QED BY <1>3, <2>1, <2>2 DEF HandlerSend
<1>4. CASE HandlerReturn(r)
  <2>1. req' \in [Requests -> Running \cup {"unsent", "read", "limited", "answered", "lost"}]
    BY <1>4 DEF HandlerReturn, Task, Running
  <2> QED BY <1>4, <2>1 DEF HandlerReturn
<1>5. CASE HandlerDies(r) \/ HandlerEncodeFails(r)
  <2>1. /\ req' \in [Requests -> Running \cup {"unsent", "read", "limited", "answered", "lost"}]
        /\ in_flight' \in [Conns -> Nat]
    BY <1>5, EndType DEF HandlerDies, HandlerEncodeFails
  <2>2. events' \in 0 .. MaxEvents /\ faults' \in 0 .. MaxFaults
    BY <1>5, FaultType DEF HandlerDies, HandlerEncodeFails
  <2>3. UNCHANGED <<serveVars, outVars, identity>>
    BY <1>5 DEF HandlerDies, HandlerEncodeFails
  <2> QED BY <2>1, <2>2, <2>3
<1> QED BY <1>1, <1>2, <1>3, <1>4, <1>5 DEF HandlerStep

\* A connection that moves on keeps Held if it holds what its next step needs.
LEMMA HeldMove ==
  ASSUME TypeOK, Held, NEW c \in Conns, NEW to, conn' = [conn EXCEPT ![c] = to],
         to = "queue" => held'[c] \in Messages,
         to = "permit" => held'[c] \in Requests /\ ConnOf[held'[c]] = c,
         \A d \in Conns \ {c} : held'[d] = held[d]
  PROVE  Held'
<1>1. conn'[c] = to /\ \A d \in Conns \ {c} : conn'[d] = conn[d]
  BY DEF TypeOK
<1>2. ASSUME NEW d \in Conns, d # c
      PROVE  /\ conn'[d] = "queue" => held'[d] \in Messages
             /\ conn'[d] = "permit" => held'[d] \in Requests /\ ConnOf[held'[d]] = d
  <2>1. conn'[d] = conn[d] /\ held'[d] = held[d]
    BY <1>1, <1>2
  <2> QED BY <2>1 DEF Held
<1> QED BY <1>1, <1>2 DEF Held

\* Every step preserves the type invariant and what the reader is busy with.
LEMMA TypeNext ==
  ASSUME TypeOK, Held, [Next]_vars
  PROVE  TypeOK' /\ Held'
<1>1. CASE UNCHANGED vars
  BY <1>1 DEF vars, TypeOK, Held
<1>2. CASE ListenAcquire \/ ListenFail
  <2>1. Held'
    BY <1>2 DEF Held, ListenAcquire, ListenFail
  <2> QED BY <1>2, <2>1, ListenType
<1>3. ASSUME NEW c \in Conns, ListenAccept(c) PROVE TypeOK' /\ Held'
  <2>1. Held'
    BY <1>3 DEF TypeOK, Held, ListenAccept, Step
  <2> QED BY <1>3, <2>1, AcceptType
<1>4. ASSUME NEW c \in Conns, Wait(c) PROVE TypeOK' /\ Held'
  <2>1. ASSUME NEW r \in Requests, ReadRequest(c, r) PROVE Held'
    <3>1. held'[c] = r /\ r \in Messages /\ ConnOf[r] = c
      BY <2>1 DEF ReadRequest, Messages, TypeOK
    <3>2. \A d \in Conns \ {c} : held'[d] = held[d]
      BY <2>1 DEF ReadRequest, TypeOK
    <3>3. \E to : conn' = [conn EXCEPT ![c] = to]
      BY <2>1 DEF ReadRequest, Step
    <3> QED BY <3>1, <3>2, <3>3, HeldMove
  <2>2. ASSUME ReadBadFrame(c) PROVE Held'
    <3>1. held'[c] \in Messages
      BY <2>2 DEF ReadBadFrame, Messages, TypeOK
    <3>2. \A d \in Conns \ {c} : held'[d] = held[d]
      BY <2>2 DEF ReadBadFrame, TypeOK
    <3>3. conn' = [conn EXCEPT ![c] = "queue"]
      BY <2>2 DEF ReadBadFrame, Step
    <3> QED BY <3>1, <3>2, <3>3, HeldMove
  <2>3. ASSUME ~ReadBadFrame(c), \A r \in Requests : ~ReadRequest(c, r) PROVE Held'
    <3>1. UNCHANGED held
      BY <1>4, <2>3 DEF Wait, NotBanned, Upgrade, EcdhHandshake, Authenticate, SetupFails,
                        NotifyConnected, NotifyDisconnected, ReadEnd, ReadPing
    <3>2. \E to \in {"upgrade", "ecdh", "auth", "insert", "spawn", "ended", "remove", "pong"} :
             conn' = [conn EXCEPT ![c] = to]
      BY <1>4, <2>3 DEF Wait, NotBanned, Upgrade, EcdhHandshake, Authenticate, SetupFails,
                        NotifyConnected, NotifyDisconnected, ReadEnd, ReadPing, Leave, Step
    <3> QED BY <3>1, <3>2, HeldMove
  <2> QED BY <1>4, <2>1, <2>2, <2>3, WaitType
<1>5. ASSUME NEW c \in Conns, Serve(c) PROVE TypeOK' /\ Held'
  <2>1. \E to \in {"notify", "notice", "read", "remove", "close", "grace", "goodbye"} :
           conn' = [conn EXCEPT ![c] = to]
    BY <1>5 DEF Step, Serve, Register, SpawnWriter, SendNotice, AcquirePermit,
                ReaderQueue, ReaderPong, Unregister, TryClose, AbortWriter
  <2>2. \A d \in Conns \ {c} : held'[d] = held[d]
    <3>1. \/ UNCHANGED held
          \/ \E v : held' = [held EXCEPT ![c] = v]
      BY <1>5 DEF Serve, Register, SpawnWriter, SendNotice, AcquirePermit,
                  ReaderQueue, ReaderPong, Unregister, TryClose, AbortWriter
    <3> QED BY <3>1 DEF TypeOK
  <2> QED BY <1>5, <2>1, <2>2, HeldMove, ServeType
<1>6. ASSUME NEW c \in Conns,
             PushEvent(c) \/ WriterPop(c) \/ WriterSend(c) \/ WriterFail(c)
      PROVE  TypeOK' /\ Held'
  <2>1. Held'
    BY <1>6 DEF Held, PushEvent, WriterPop, WriterSend, WriterFail
  <2> QED BY <1>6, <2>1, WriterType
<1>7. ASSUME NEW r \in Requests,
             HandlerStep(r) \/ HandlerReturn(r) \/ HandlerDies(r) \/ HandlerEncodeFails(r)
      PROVE  TypeOK' /\ Held'
  <2>1. Held'
    BY <1>7 DEF Held, HandlerStep, HandlerBegin, HandlerLookup, HandlerSend,
                HandlerReturn, HandlerDies, HandlerEncodeFails
  <2> QED BY <1>7, <2>1, TaskType
<1> QED BY <1>1, <1>2, <1>3, <1>4, <1>5, <1>6, <1>7 DEF Next

\* Every reachable state of the server is well typed: in particular the free
\* permits never underflow, so accept is never reached without one.
THEOREM ServerTypeCorrect == Spec => []TypeOK
<1>1. Init => TypeOK /\ Held
  BY InitType DEF Init, Held
<1>2. TypeOK /\ Held /\ [Next]_vars => (TypeOK /\ Held)'
  BY TypeNext
<1> QED BY <1>1, <1>2, PTL DEF Spec

----------------------------------------------------------------------------
(* Connection permits                                                       *)

\* The sockets whose task is running, each of which owns a permit.
Serving == {c \in Conns : conn[c] \notin {"none", "ended"}}

\* A socket being served is one of finitely many.
LEMMA ServingFinite == IsFiniteSet(Serving) /\ Cardinality(Serving) \in Nat
  BY ServerAssumption, FS_Subset, FS_CardinalityType DEF Serving

\* A task that moves on between two of its steps owns the permit it owned.
LEMMA ServingFrame ==
  ASSUME TypeOK, NEW c \in Conns, NEW from \in Setup \cup Live \cup Down,
         NEW to \in Setup \cup Live \cup Down, Step(c, from, to)
  PROVE  Serving' = Serving
  BY DEF TypeOK, Step, Serving, Setup, Live, Down

\* A task that ends gives its permit back.
LEMMA LeavePermits ==
  ASSUME TypeOK, PermitsConserved, NEW c \in Serving, Leave(c), UNCHANGED listener
  PROVE  PermitsConserved'
<1>1. Serving' = Serving \ {c}
  BY DEF TypeOK, Leave, Serving
<1>2. Cardinality(Serving') = Cardinality(Serving) - 1
  BY <1>1, ServingFinite, FS_RemoveElement
<1> QED BY <1>2, ServingFinite, SMT DEF TypeOK, PermitsConserved, Serving, Leave

\* Every step conserves the connection permits.
LEMMA PermitsNext ==
  ASSUME TypeOK, PermitsConserved, [Next]_vars
  PROVE  PermitsConserved'
<1>1. CASE UNCHANGED <<listener, permits, conn>>
  BY <1>1 DEF PermitsConserved
<1>2. CASE ListenAcquire
  <2>1. Serving' = Serving
    BY <1>2 DEF ListenAcquire, Serving
  <2> QED BY <1>2, <2>1, ServingFinite, ServerAssumption, SMT
           DEF ListenAcquire, PermitsConserved, Serving, TypeOK
<1>3. CASE ListenFail
  <2>1. Serving' = Serving
    BY <1>3 DEF ListenFail, Serving
  <2> QED BY <1>3, <2>1, ServingFinite, ServerAssumption, SMT
           DEF ListenFail, PermitsConserved, Serving, TypeOK
<1>4. ASSUME NEW c \in Conns, ListenAccept(c) PROVE PermitsConserved'
  <2>1. c \notin Serving /\ Serving' = Serving \cup {c}
    BY <1>4 DEF ListenAccept, Step, Serving, TypeOK
  <2>2. Cardinality(Serving') = Cardinality(Serving) + 1
    BY <2>1, ServingFinite, FS_AddElement
  <2> QED BY <1>4, <2>2, ServingFinite, SMT DEF ListenAccept, PermitsConserved, Serving, TypeOK
<1>5. ASSUME NEW c \in Conns, SetupFails(c) \/ NotifyDisconnected(c)
      PROVE  PermitsConserved'
  <2>1. c \in Serving /\ Leave(c) /\ UNCHANGED listener
    BY <1>5 DEF SetupFails, NotifyDisconnected, Serving
  <2> QED BY <2>1, LeavePermits
<1>6. ASSUME NEW c \in Conns, Wait(c) \/ Serve(c),
             ~(SetupFails(c) \/ NotifyDisconnected(c))
      PROVE  PermitsConserved'
  <2>1. UNCHANGED <<listener, permits>>
    BY <1>6 DEF Wait, Serve, NotBanned, Upgrade, EcdhHandshake, Authenticate,
                NotifyConnected, ReadRequest, ReadBadFrame, ReadEnd, ReadPing,
                Register, SpawnWriter, SendNotice, AcquirePermit, ReaderQueue,
                ReaderPong, Unregister, TryClose, AbortWriter
  <2>2. \E from, to \in Setup \cup Live \cup Down : Step(c, from, to)
    BY <1>6 DEF Wait, Serve, NotBanned, Upgrade, EcdhHandshake, Authenticate,
                NotifyConnected, ReadRequest, ReadBadFrame, ReadEnd, ReadPing,
                Register, SpawnWriter, SendNotice, AcquirePermit, ReaderQueue,
                ReaderPong, Unregister, TryClose, AbortWriter, Setup, Live, Down
  <2>3. Serving' = Serving
    BY <2>2, ServingFrame
  <2> QED BY <2>1, <2>3 DEF PermitsConserved, Serving
<1>7. ASSUME NEW c \in Conns,
             PushEvent(c) \/ WriterPop(c) \/ WriterSend(c) \/ WriterFail(c)
      PROVE  UNCHANGED <<listener, permits, conn>>
  BY <1>7 DEF PushEvent, WriterPop, WriterSend, WriterFail
<1>8. ASSUME NEW r \in Requests,
             HandlerStep(r) \/ HandlerReturn(r) \/ HandlerDies(r) \/ HandlerEncodeFails(r)
      PROVE  UNCHANGED <<listener, permits, conn>>
  BY <1>8 DEF HandlerStep, HandlerBegin, HandlerLookup, HandlerSend, HandlerReturn,
              HandlerDies, HandlerEncodeFails
<1> QED BY <1>1, <1>2, <1>3, <1>4, <1>5, <1>6, <1>7, <1>8 DEF Next, vars

\* max_connections, for every cap and any number of sockets: a permit is free,
\* with the accept loop, or owned by exactly one task of serve_connection.
THEOREM PermitsAreConserved == Spec => []PermitsConserved
<1>1. Init => PermitsConserved
  <2> SUFFICES ASSUME Init PROVE PermitsConserved
    OBVIOUS
  <2>1. Serving = {}
    BY DEF Init, Serving
  <2>2. Cardinality(Serving) = 0
    BY <2>1, FS_EmptySet
  <2> QED BY <2>2, ServerAssumption, SMT DEF Init, PermitsConserved, Serving
<1>2. TypeOK /\ PermitsConserved /\ [Next]_vars => PermitsConserved'
  BY PermitsNext
<1> QED BY <1>1, <1>2, ServerTypeCorrect, PTL DEF Spec

----------------------------------------------------------------------------
(* In-flight permits                                                        *)

\* The tasks of a connection are finitely many.
LEMMA InFlightFinite ==
  ASSUME NEW c \in Conns
  PROVE  IsFiniteSet(InFlight(c)) /\ Cardinality(InFlight(c)) \in Nat
  BY ServerAssumption, FS_Subset, FS_CardinalityType DEF InFlight

\* A step that starts and ends no task leaves the permits where they are.
LEMMA InFlightFrame ==
  ASSUME InFlightConserved, UNCHANGED in_flight,
         \A r \in Requests : req'[r] \in Running <=> req[r] \in Running
  PROVE  InFlightConserved'
<1>1. \A c \in Conns : InFlight(c)' = InFlight(c)
  BY DEF InFlight
<1> QED BY <1>1 DEF InFlightConserved

\* A task is only spawned with a permit of its own connection's semaphore.
LEMMA AcquireConserves ==
  ASSUME TypeOK, Held, InFlightConserved, NEW c \in Conns, AcquirePermit(c)
  PROVE  InFlightConserved'
<1> SUFFICES ASSUME NEW d \in Conns
             PROVE  in_flight'[d] + Cardinality(InFlight(d)') = MaxInFlight
  BY DEF InFlightConserved
<1>1. held[c] \in Requests /\ ConnOf[held[c]] = c /\ req[held[c]] = "read"
  BY DEF Held, AcquirePermit, Step, Task
<1>2. req' = [req EXCEPT ![held[c]] = "spawned"]
  BY DEF AcquirePermit, Task
<1>3. in_flight[d] \in Nat /\ in_flight[d] + Cardinality(InFlight(d)) = MaxInFlight
  BY DEF TypeOK, InFlightConserved
<1>4. CASE d = c
  <2>1. held[c] \notin InFlight(c) /\ InFlight(c)' = InFlight(c) \cup {held[c]}
    BY <1>1, <1>2, SMT DEF InFlight, Running, TypeOK
  <2>2. Cardinality(InFlight(c)') = Cardinality(InFlight(c)) + 1
    BY <2>1, InFlightFinite, FS_AddElement
  <2>3. in_flight'[c] = in_flight[c] - 1
    BY DEF AcquirePermit, TypeOK
  <2>4. Cardinality(InFlight(c)) \in Nat
    BY InFlightFinite
  <2> QED BY ONLY <1>3, <1>4, <2>2, <2>3, <2>4, SMT
<1>5. CASE d # c
  <2>1. InFlight(d)' = InFlight(d)
    BY <1>1, <1>2, <1>5 DEF InFlight, TypeOK
  <2>2. in_flight'[d] = in_flight[d]
    BY <1>5 DEF AcquirePermit, TypeOK
  <2> QED BY <1>3, <2>1, <2>2
<1> QED BY <1>4, <1>5

\* A task that ends, in whatever way, returns the one permit it holds.
LEMMA EndConserves ==
  ASSUME TypeOK, InFlightConserved, NEW r \in Requests, NEW from \in Running,
         NEW to \in {"answered", "lost"}, TaskEnds(r, from, to)
  PROVE  InFlightConserved'
<1> DEFINE c == ConnOf[r]
<1> SUFFICES ASSUME NEW d \in Conns
             PROVE  in_flight'[d] + Cardinality(InFlight(d)') = MaxInFlight
  BY DEF InFlightConserved
<1>1. c \in Conns
  BY ServerAssumption
<1>2. req[r] \in Running /\ req' = [req EXCEPT ![r] = to] /\ to \notin Running
  BY DEF TaskEnds, Task, Running
<1>3. in_flight[d] \in Nat /\ in_flight[d] + Cardinality(InFlight(d)) = MaxInFlight
  BY DEF TypeOK, InFlightConserved
<1>4. in_flight' = [in_flight EXCEPT ![c] = in_flight[c] + 1]
  BY DEF TaskEnds
<1>5. CASE d = c
  <2>1. r \in InFlight(c) /\ InFlight(c)' = InFlight(c) \ {r}
    BY <1>2, SMT DEF InFlight, TypeOK
  <2>2. Cardinality(InFlight(c)') = Cardinality(InFlight(c)) - 1
    BY <1>1, <2>1, InFlightFinite, FS_RemoveElement
  <2>3. in_flight'[c] = in_flight[c] + 1
    BY <1>1, <1>4 DEF TypeOK
  <2>4. Cardinality(InFlight(c)) \in Nat
    BY <1>1, InFlightFinite
  <2> HIDE DEF c
  <2> QED BY ONLY <1>3, <1>5, <2>2, <2>3, <2>4, SMT
<1>6. CASE d # c
  <2>1. InFlight(d)' = InFlight(d)
    BY <1>2, <1>6 DEF InFlight, TypeOK
  <2>2. in_flight'[d] = in_flight[d]
    BY <1>4, <1>6 DEF TypeOK
  <2> QED BY <1>3, <2>1, <2>2
<1> QED BY <1>5, <1>6

\* Every step conserves the in-flight permits.
LEMMA InFlightNext ==
  ASSUME TypeOK, Held, InFlightConserved, [Next]_vars
  PROVE  InFlightConserved'
<1>1. CASE UNCHANGED <<req, in_flight>>
  BY <1>1, InFlightFrame
<1>2. ASSUME NEW c \in Conns, AcquirePermit(c) PROVE InFlightConserved'
  BY <1>2, AcquireConserves
<1>3. ASSUME NEW c \in Conns, NEW r \in Requests, ReadRequest(c, r)
      PROVE  InFlightConserved'
  <2>1. \E to \in {"read", "limited"} : Task(r, "unsent", to) /\ UNCHANGED in_flight
    BY <1>3 DEF ReadRequest
  <2>2. \A q \in Requests : req'[q] \in Running <=> req[q] \in Running
    BY <2>1 DEF Task, Running, TypeOK
  <2> QED BY <2>1, <2>2, InFlightFrame
<1>4. ASSUME NEW r \in Requests,
             HandlerStep(r) \/ HandlerReturn(r) \/ HandlerDies(r) \/ HandlerEncodeFails(r)
      PROVE  InFlightConserved'
  <2>1. \/ \E from \in Running, to \in {"answered", "lost"} : TaskEnds(r, from, to)
        \/ \E from, to \in Running : Task(r, from, to) /\ UNCHANGED in_flight
    BY <1>4 DEF HandlerStep, HandlerBegin, HandlerLookup, HandlerSend, HandlerReturn,
                HandlerDies, HandlerEncodeFails, Running
  <2>2. ASSUME NEW from \in Running, NEW to \in Running, Task(r, from, to),
               UNCHANGED in_flight
        PROVE  InFlightConserved'
    <3>1. \A q \in Requests : req'[q] \in Running <=> req[q] \in Running
      BY <2>2 DEF Task, TypeOK
    <3> QED BY <2>2, <3>1, InFlightFrame
  <2> QED BY <2>1, <2>2, EndConserves
<1>5. ASSUME NEW c \in Conns, Wait(c), \A r \in Requests : ~ReadRequest(c, r)
      PROVE  UNCHANGED <<req, in_flight>>
  BY <1>5 DEF Wait, NotBanned, Upgrade, EcdhHandshake, Authenticate, SetupFails,
              NotifyConnected, NotifyDisconnected, ReadBadFrame, ReadEnd, ReadPing
<1>6. ASSUME NEW c \in Conns, Serve(c), ~AcquirePermit(c)
      PROVE  UNCHANGED <<req, in_flight>>
  BY <1>6 DEF Serve, Register, SpawnWriter, SendNotice, ReaderQueue, ReaderPong,
              Unregister, TryClose, AbortWriter
<1>7. ASSUME NEW c \in Conns,
             ListenAccept(c) \/ PushEvent(c) \/ WriterPop(c) \/ WriterSend(c) \/ WriterFail(c)
      PROVE  UNCHANGED <<req, in_flight>>
  BY <1>7 DEF ListenAccept, PushEvent, WriterPop, WriterSend, WriterFail
<1>8. ASSUME ListenAcquire \/ ListenFail PROVE UNCHANGED <<req, in_flight>>
  BY <1>8 DEF ListenAcquire, ListenFail
<1> QED BY <1>1, <1>2, <1>3, <1>4, <1>5, <1>6, <1>7, <1>8 DEF Next, vars

\* max_in_flight, for every limit: each permit of a connection's semaphore is
\* free or held by a live task of it, so no end of a task, a panic included,
\* leaks one, and there are never more tasks than permits.
THEOREM InFlightIsConserved == Spec => []InFlightConserved
<1>1. Init => TypeOK /\ Held /\ InFlightConserved
  <2> SUFFICES ASSUME Init PROVE Held /\ InFlightConserved
    BY InitType
  <2>1. Held
    BY DEF Init, Held
  <2>2. \A c \in Conns : InFlight(c) = {}
    BY DEF Init, InFlight, Running
  <2>3. \A c \in Conns : Cardinality(InFlight(c)) = 0
    BY <2>2, FS_EmptySet
  <2> QED BY <2>1, <2>3, ServerAssumption, SMT DEF Init, InFlightConserved
<1>2. (TypeOK /\ Held /\ InFlightConserved /\ [Next]_vars)
      => (TypeOK /\ Held /\ InFlightConserved)'
  BY TypeNext, InFlightNext
<1> QED BY <1>1, <1>2, PTL DEF Spec

----------------------------------------------------------------------------
(* Authentication                                                           *)

\* The inductive form of OnlyAuthenticatedServed: a connection past the auth
\* phase is authenticated, so nothing it registers or reads can be otherwise.
PastAuth ==
    HasAuth => /\ \A c \in Conns : conn[c] \in {"insert"} \cup Live \cup Down => c \in authed
               /\ clients \subseteq authed
               /\ \A r \in Requests : req[r] # "unsent" => ConnOf[r] \in authed

\* Every step keeps connections past the auth phase authenticated.
LEMMA AuthNext ==
  ASSUME TypeOK, Held, PastAuth, [Next]_vars
  PROVE  PastAuth'
<1> SUFFICES ASSUME HasAuth PROVE PastAuth'
  BY DEF PastAuth
<1> USE DEF PastAuth
<1>1. CASE UNCHANGED <<conn, authed, clients, req>>
  BY <1>1
<1>2. ASSUME NEW c \in Conns, ListenAccept(c) \/ NotBanned(c) \/ Upgrade(c) \/ EcdhHandshake(c)
      PROVE  PastAuth'
  <2>1. UNCHANGED <<authed, clients, req>>
    BY <1>2 DEF ListenAccept, NotBanned, Upgrade, EcdhHandshake
  <2>2. conn'[c] \in {"ban", "upgrade", "ecdh", "auth"}
    BY <1>2 DEF ListenAccept, NotBanned, Upgrade, EcdhHandshake, Step, TypeOK
  <2>3. \A d \in Conns \ {c} : conn'[d] = conn[d]
    BY <1>2 DEF ListenAccept, NotBanned, Upgrade, EcdhHandshake, Step, TypeOK
  <2> QED BY <2>1, <2>2, <2>3 DEF Live, Down
<1>3. ASSUME NEW c \in Conns, Authenticate(c) PROVE PastAuth'
  BY <1>3 DEF Authenticate, Step, TypeOK
<1>4. ASSUME NEW c \in Conns, SetupFails(c) \/ NotifyDisconnected(c) PROVE PastAuth'
  <2>1. UNCHANGED <<authed, clients, req>>
    BY <1>4 DEF SetupFails, NotifyDisconnected, Leave
  <2>2. conn'[c] = "ended" /\ \A d \in Conns \ {c} : conn'[d] = conn[d]
    BY <1>4 DEF SetupFails, NotifyDisconnected, Leave, TypeOK
  <2> QED BY <2>1, <2>2 DEF Live, Down
<1>5. ASSUME NEW c \in Conns, NEW r \in Requests, ReadRequest(c, r) PROVE PastAuth'
  BY <1>5, SMT DEF ReadRequest, Step, Task, TypeOK, Live
<1>6. ASSUME NEW c \in Conns,
             NotifyConnected(c) \/ ReadBadFrame(c) \/ ReadEnd(c) \/ ReadPing(c)
      PROVE  PastAuth'
  BY <1>6 DEF NotifyConnected, ReadBadFrame, ReadEnd, ReadPing, Step, TypeOK, Live
<1>7. ASSUME NEW c \in Conns, Register(c) \/ Unregister(c) PROVE PastAuth'
  BY <1>7, SMT DEF Register, Unregister, Step, TypeOK, Live
<1>8. ASSUME NEW c \in Conns, AcquirePermit(c) PROVE PastAuth'
  BY <1>8, SMT DEF AcquirePermit, Held, Step, Task, TypeOK, Live
<1>9. ASSUME NEW c \in Conns,
             SpawnWriter(c) \/ SendNotice(c) \/ ReaderQueue(c) \/ ReaderPong(c)
               \/ TryClose(c) \/ AbortWriter(c)
      PROVE  PastAuth'
  <2>1. UNCHANGED <<authed, clients, req>>
    BY <1>9 DEF SpawnWriter, SendNotice, ReaderQueue, ReaderPong, TryClose, AbortWriter
  <2>2. conn[c] \in Live \cup Down /\ \A d \in Conns \ {c} : conn'[d] = conn[d]
    BY <1>9 DEF SpawnWriter, SendNotice, ReaderQueue, ReaderPong, TryClose, AbortWriter,
                Step, TypeOK, Live, Down
  <2> QED BY <2>1, <2>2
<1>10. ASSUME NEW r \in Requests,
              HandlerStep(r) \/ HandlerReturn(r) \/ HandlerDies(r) \/ HandlerEncodeFails(r)
       PROVE  PastAuth'
  <2>1. UNCHANGED <<conn, authed, clients>> /\ req[r] # "unsent"
    BY <1>10 DEF HandlerStep, HandlerBegin, HandlerLookup, HandlerSend, HandlerReturn,
                 HandlerDies, HandlerEncodeFails, Task, TaskEnds
  <2>2. \A q \in Requests \ {r} : req'[q] = req[q]
    BY <1>10 DEF HandlerStep, HandlerBegin, HandlerLookup, HandlerSend, HandlerReturn,
                 HandlerDies, HandlerEncodeFails, Task, TaskEnds, TypeOK
  <2> QED BY <2>1, <2>2
<1>11. ASSUME NEW c \in Conns, PushEvent(c) \/ WriterPop(c) \/ WriterSend(c) \/ WriterFail(c)
       PROVE  UNCHANGED <<conn, authed, clients, req>>
  BY <1>11 DEF PushEvent, WriterPop, WriterSend, WriterFail
<1>12. ASSUME ListenAcquire \/ ListenFail PROVE UNCHANGED <<conn, authed, clients, req>>
  BY <1>12 DEF ListenAcquire, ListenFail
<1> HIDE DEF PastAuth
<1> QED BY <1>1, <1>2, <1>3, <1>4, <1>5, <1>6, <1>7, <1>8, <1>9, <1>10, <1>11, <1>12
        DEF Next, Wait, Serve, vars

\* With an auth_handler, no connection is ever registered and no request ever
\* read, run or answered unless the connection's credential was accepted.
THEOREM UnauthenticatedNeverServed == Spec => []OnlyAuthenticatedServed
<1>1. Init => TypeOK /\ Held /\ PastAuth
  BY InitType, SMT DEF Init, Held, PastAuth, Live, Down
<1>2. TypeOK /\ Held /\ PastAuth /\ [Next]_vars => (TypeOK /\ Held /\ PastAuth)'
  BY TypeNext, AuthNext
<1>3. PastAuth => OnlyAuthenticatedServed
  BY DEF PastAuth, OnlyAuthenticatedServed
<1> QED BY <1>1, <1>2, <1>3, PTL DEF Spec

----------------------------------------------------------------------------
(* At most one answer                                                       *)

Nowhere(r) ==
    /\ delivered[r] = 0
    /\ \A c \in Conns : out[c] # r /\ \A i \in 1 .. Len(queue[c]) : queue[c][i] # r

\* An answer is in one place: on its own connection's channel, with the writer,
\* or on the socket.
Unique(r) ==
    /\ delivered[r] \in {0, 1}
    /\ \A c \in Conns : out[c] = r => c = ConnOf[r] /\ delivered[r] = 0
    /\ \A c \in Conns : \A i \in 1 .. Len(queue[c]) :
          queue[c][i] = r =>
              /\ c = ConnOf[r] /\ delivered[r] = 0 /\ out[c] # r
              /\ \A j \in 1 .. Len(queue[c]) : queue[c][j] = r => j = i

\* Nothing is answered before its task or the reader sends the answer; the
\* reader sends one only to a request it has just refused.
Single ==
    /\ \A r \in Requests : Unique(r)
    /\ \A r \in Requests : req[r] \notin {"limited", "answered"} => Nowhere(r)
    /\ \A c \in Conns :
          conn[c] = "queue" /\ held[c] \in Requests =>
              /\ ConnOf[held[c]] = c /\ req[held[c]] = "limited" /\ Nowhere(held[c])

Carried == \A r \in Requests : (Unique(r) => Unique(r)') /\ (Nowhere(r) => Nowhere(r)')

\* Without a change of channels, writers and sockets every answer stays put.
LEMMA CarriedFrame ==
  ASSUME UNCHANGED <<queue, out, delivered>>
  PROVE  Carried
  BY SMT DEF Carried, Unique, Nowhere

\* A message that is sent on a channel moves no answer but itself.
LEMMA CarriedPush ==
  ASSUME TypeOK, NEW c \in Conns, NEW m \in Messages, Push(c, m),
         UNCHANGED <<out, delivered>>, m \in Requests => Nowhere(m) /\ ConnOf[m] = c
  PROVE  \A r \in Requests :
            (Unique(r) => Unique(r)') /\ (r # m /\ Nowhere(r) => Nowhere(r)')
<1> DEFINE q == queue[c]
<1>1. q \in Seq(Messages)
  BY DEF TypeOK
<1>2. queue'[c] = Append(q, m) /\ \A d \in Conns : d # c => queue'[d] = queue[d]
  BY DEF TypeOK, Push
<1>3. \A i \in 1 .. Len(Append(q, m)) :
        \/ i \in 1 .. Len(q) /\ Append(q, m)[i] = q[i]
        \/ i = Len(q) + 1 /\ Append(q, m)[i] = m
  BY <1>1, SMT
<1>4. ASSUME NEW r \in Requests, r # m, NEW d \in Conns, NEW i \in 1 .. Len(queue'[d]),
             queue'[d][i] = r
      PROVE  i \in 1 .. Len(queue[d]) /\ queue[d][i] = r
  BY <1>2, <1>3, <1>4
<1>5. ASSUME NEW r \in Requests, r # m, Nowhere(r) PROVE Nowhere(r)'
  BY <1>4, <1>5, SMT DEF Nowhere
<1>6. ASSUME NEW r \in Requests, r # m, Unique(r) PROVE Unique(r)'
  <2>1. ASSUME NEW d \in Conns, NEW i \in 1 .. Len(queue'[d]), queue'[d][i] = r
        PROVE  /\ d = ConnOf[r] /\ delivered[r] = 0 /\ out[d] # r
               /\ \A j \in 1 .. Len(queue'[d]) : queue'[d][j] = r => j = i
    <3>1. i \in 1 .. Len(queue[d]) /\ queue[d][i] = r
      BY <1>4, <1>6, <2>1
    <3>2. /\ d = ConnOf[r] /\ delivered[r] = 0 /\ out[d] # r
          /\ \A j \in 1 .. Len(queue[d]) : queue[d][j] = r => j = i
      BY <1>6, <3>1 DEF Unique
    <3> QED BY <1>4, <1>6, <3>2
  <2> QED BY <1>6, <2>1 DEF Unique
<1>7. ASSUME NEW r \in Requests, r = m PROVE Unique(r)'
  <2>1. Nowhere(r) /\ ConnOf[r] = c
    BY <1>7
  <2>2. ASSUME NEW d \in Conns, NEW i \in 1 .. Len(queue'[d]), queue'[d][i] = r
        PROVE  d = c /\ i = Len(q) + 1
    BY <1>2, <1>3, <2>1, <2>2, SMT DEF Nowhere
  <2>3. ASSUME NEW d \in Conns, NEW i \in 1 .. Len(queue'[d]), queue'[d][i] = r
        PROVE  \A j \in 1 .. Len(queue'[d]) : queue'[d][j] = r => j = i
    BY <2>2, <2>3
  <2> QED BY <2>1, <2>2, <2>3, SMT DEF Unique, Nowhere
<1> QED BY <1>5, <1>6, <1>7

\* rx.recv() moves the head of the channel to the writer.
LEMMA CarriedPop ==
  ASSUME TypeOK, NEW c \in Conns, WriterPop(c)
  PROVE  Carried
<1> DEFINE q == queue[c]
<1>1. q \in Seq(Messages) /\ q # <<>> /\ out[c] = "none" /\ delivered' = delivered
  BY DEF TypeOK, WriterPop
<1>2. Len(q) \in Nat /\ 1 \in 1 .. Len(q) /\ Head(q) = q[1]
  BY <1>1, SMT
<1>3. \A i \in 1 .. Len(Tail(q)) :
        i \in Nat /\ i + 1 \in 1 .. Len(q) /\ i + 1 # 1 /\ Tail(q)[i] = q[i + 1]
  BY <1>1, SMT
<1>4. queue'[c] = Tail(q) /\ \A d \in Conns : d # c => queue'[d] = queue[d]
  BY DEF TypeOK, WriterPop
<1>5. out'[c] = q[1] /\ \A d \in Conns : d # c => out'[d] = out[d]
  BY <1>2 DEF TypeOK, WriterPop
<1>6. ASSUME NEW r \in Requests, Nowhere(r) PROVE Nowhere(r)'
  <2>1. ASSUME NEW d \in Conns PROVE out'[d] # r
    BY <1>2, <1>5, <1>6 DEF Nowhere
  <2>2. ASSUME NEW d \in Conns, NEW i \in 1 .. Len(queue'[d]) PROVE queue'[d][i] # r
    <3>1. CASE d = c
      <4>1. i + 1 \in 1 .. Len(q) /\ queue'[d][i] = q[i + 1]
        BY <1>3, <1>4, <2>2, <3>1
      <4> QED BY <1>6, <4>1 DEF Nowhere
    <3>2. CASE d # c
      BY <1>4, <1>6, <2>2, <3>2 DEF Nowhere
    <3> QED BY <3>1, <3>2
  <2> QED BY <1>1, <1>6, <2>1, <2>2 DEF Nowhere
<1>7. ASSUME NEW r \in Requests, Unique(r) PROVE Unique(r)'
  <2>1. ASSUME NEW d \in Conns, out'[d] = r PROVE d = ConnOf[r] /\ delivered[r] = 0
    BY <1>2, <1>5, <1>7, <2>1 DEF Unique
  <2>2. ASSUME NEW d \in Conns, NEW i \in 1 .. Len(queue'[d]), queue'[d][i] = r
        PROVE  /\ d = ConnOf[r] /\ delivered[r] = 0 /\ out'[d] # r
               /\ \A j \in 1 .. Len(queue'[d]) : queue'[d][j] = r => j = i
    <3>1. CASE d = c
      <4>1. i \in Nat /\ i + 1 \in 1 .. Len(q) /\ i + 1 # 1 /\ q[i + 1] = r
        BY <1>3, <1>4, <2>2, <3>1
      <4>2. /\ c = ConnOf[r] /\ delivered[r] = 0
            /\ \A j \in 1 .. Len(q) : q[j] = r => j = i + 1
        BY <1>7, <4>1 DEF Unique
      <4>3. out'[c] # r
        BY <1>2, <1>5, <4>1, <4>2
      <4>4. ASSUME NEW j \in 1 .. Len(queue'[d]), queue'[d][j] = r PROVE j = i
        <5>1. j \in Nat /\ j + 1 \in 1 .. Len(q) /\ q[j + 1] = r
          BY <1>3, <1>4, <3>1, <4>4
        <5>2. j + 1 = i + 1
          BY <4>2, <5>1
        <5> QED BY <4>1, <5>1, <5>2, SMT
      <4> QED BY <3>1, <4>2, <4>3, <4>4
    <3>2. CASE d # c
      BY <1>4, <1>5, <1>7, <2>2, <3>2, SMT DEF Unique
    <3> QED BY <3>1, <3>2
  <2> QED BY <1>1, <1>7, <2>1, <2>2 DEF Unique
<1> QED BY <1>6, <1>7 DEF Carried

\* The message with the writer is written, or dropped with it.
LEMMA CarriedOut ==
  ASSUME TypeOK, NEW c \in Conns, queue' = queue, out' = [out EXCEPT ![c] = "none"],
         \/ delivered' = delivered
         \/ delivered' = [r \in Requests |-> delivered[r] + IF r = out[c] THEN 1 ELSE 0]
  PROVE  Carried
<1>1. out'[c] = "none" /\ \A d \in Conns : d # c => out'[d] = out[d]
  BY DEF TypeOK
<1>2. \A r \in Requests : r # "none" /\ delivered[r] \in Nat
  BY ServerAssumption DEF TypeOK
<1>3. \A r \in Requests : out[c] # r => delivered'[r] = delivered[r]
  BY <1>2, SMT
<1>4. \A r \in Requests : delivered'[r] = delivered[r] \/ delivered'[r] = delivered[r] + 1
  BY <1>2, SMT
<1>5. ASSUME NEW r \in Requests, Nowhere(r) PROVE Nowhere(r)'
  BY <1>1, <1>2, <1>3, <1>5 DEF Nowhere
<1>6. ASSUME NEW r \in Requests, Unique(r), out[c] # r PROVE Unique(r)'
  BY <1>1, <1>2, <1>3, <1>6, SMT DEF Unique
<1>7. ASSUME NEW r \in Requests, Unique(r), out[c] = r PROVE Unique(r)'
  <2>1. c = ConnOf[r] /\ delivered[r] = 0
    BY <1>7 DEF Unique
  <2>2. \A d \in Conns : out'[d] # r
    BY <1>1, <1>2, <1>7, <2>1, SMT DEF Unique
  <2>3. \A d \in Conns : \A i \in 1 .. Len(queue[d]) : queue[d][i] # r
    BY <1>7, <2>1 DEF Unique
  <2>4. delivered'[r] \in {0, 1}
    BY <1>4, <2>1, SMT
  <2> QED BY <2>2, <2>3, <2>4 DEF Unique
<1> QED BY <1>5, <1>6, <1>7 DEF Carried

\* What stays put stays single, while requests only move on before an answer.
LEMMA SingleFrame ==
  ASSUME Single, Carried,
         \A r \in Requests : /\ req[r] \in {"limited", "answered"} => req'[r] = req[r]
                             /\ req'[r] # "answered" \/ req[r] = "answered",
         \A c \in Conns :
            conn'[c] = "queue" /\ held'[c] \in Requests =>
                \/ conn[c] = "queue" /\ held'[c] = held[c]
                \/ /\ ConnOf[held'[c]] = c
                   /\ req[held'[c]] = "unsent" /\ req'[held'[c]] = "limited"
  PROVE  Single'
<1>1. \A r \in Requests : Unique(r)'
  BY DEF Single, Carried
<1>2. \A r \in Requests : req'[r] \notin {"limited", "answered"} => Nowhere(r)'
  BY DEF Single, Carried
<1>3. ASSUME NEW c \in Conns, NEW r \in Requests, conn'[c] = "queue", held'[c] = r
      PROVE  ConnOf[r] = c /\ req'[r] = "limited" /\ Nowhere(r)'
  <2>1. CASE conn[c] = "queue" /\ held[c] = r
    BY <2>1, SMT DEF Single, Carried
  <2>2. CASE ConnOf[r] = c /\ req[r] = "unsent" /\ req'[r] = "limited"
    BY <2>2 DEF Single, Carried
  <2> QED BY <1>3, <2>1, <2>2
<1>4. ASSUME NEW c \in Conns, conn'[c] = "queue", held'[c] \in Requests
      PROVE  ConnOf[held'[c]] = c /\ req'[held'[c]] = "limited" /\ Nowhere(held[c])'
  BY <1>3, <1>4, SMT DEF Nowhere
<1> QED BY <1>1, <1>2, <1>4 DEF Single

\* A message is sent: a control message, or the first answer to a request.
LEMMA SinglePush ==
  ASSUME TypeOK, Single, NEW c \in Conns, NEW m \in Messages, Push(c, m),
         UNCHANGED <<out, delivered>>,
         m \in Requests => /\ Nowhere(m) /\ ConnOf[m] = c
                           /\ req'[m] \in {"limited", "answered"},
         \A r \in Requests : r # m => req'[r] = req[r],
         \A d \in Conns :
            conn'[d] = "queue" /\ held'[d] \in Requests =>
                conn[d] = "queue" /\ held'[d] = held[d] /\ held[d] # m
  PROVE  Single'
<1>1. \A r \in Requests : Unique(r)' /\ (r # m /\ Nowhere(r) => Nowhere(r)')
  BY CarriedPush DEF Single
<1>2. \A r \in Requests : req'[r] \notin {"limited", "answered"} => Nowhere(r)'
  BY <1>1 DEF Single
<1>3. ASSUME NEW d \in Conns, NEW r \in Requests, conn'[d] = "queue", held'[d] = r
      PROVE  ConnOf[r] = d /\ req'[r] = "limited" /\ Nowhere(r)'
  <2>1. conn[d] = "queue" /\ held[d] = r /\ r # m
    BY <1>3
  <2> QED BY <1>1, <2>1 DEF Single
<1>4. ASSUME NEW d \in Conns, conn'[d] = "queue", held'[d] \in Requests
      PROVE  ConnOf[held'[d]] = d /\ req'[held'[d]] = "limited" /\ Nowhere(held[d])'
  BY <1>3, <1>4, SMT DEF Nowhere
<1> QED BY <1>1, <1>2, <1>4 DEF Single

\* The accept loop, the set-up and the reading of messages keep answers single.
LEMMA SingleWait ==
  ASSUME TypeOK, Single, NEW c \in Conns, ListenAccept(c) \/ Wait(c)
  PROVE  Single'
<1> USE DEF Step, Task
<1>1. Carried
  BY CarriedFrame DEF ListenAccept, Wait, NotBanned, Upgrade, EcdhHandshake, Authenticate,
     SetupFails, NotifyConnected, NotifyDisconnected, ReadRequest, ReadBadFrame, ReadEnd,
     ReadPing
<1>2. ASSUME NEW r \in Requests, ReadRequest(c, r) PROVE Single'
  BY <1>1, <1>2, SingleFrame, SMT DEF ReadRequest, TypeOK
<1>3. CASE ReadBadFrame(c)
  <2>1. "error" \notin Requests
    BY ServerAssumption
  <2> QED BY <1>1, <1>3, <2>1, SingleFrame DEF ReadBadFrame, TypeOK
<1>4. CASE ListenAccept(c) \/ NotBanned(c) \/ Upgrade(c) \/ EcdhHandshake(c) \/ Authenticate(c)
  <2>1. UNCHANGED <<req, held>> /\ \A d \in Conns : conn'[d] = "queue" => conn[d] = "queue"
    BY <1>4 DEF ListenAccept, NotBanned, Upgrade, EcdhHandshake, Authenticate, TypeOK
  <2> QED BY <1>1, <2>1, SingleFrame
<1>5. CASE SetupFails(c) \/ NotifyConnected(c) \/ NotifyDisconnected(c) \/ ReadEnd(c)
           \/ ReadPing(c)
  <2>1. UNCHANGED <<req, held>> /\ \A d \in Conns : conn'[d] = "queue" => conn[d] = "queue"
    BY <1>5 DEF SetupFails, NotifyConnected, NotifyDisconnected, ReadEnd, ReadPing, Leave,
       TypeOK
  <2> QED BY <1>1, <2>1, SingleFrame
<1> QED BY <1>2, <1>3, <1>4, <1>5 DEF Wait

\* What serve_connection does on its own keeps answers single.
LEMMA SingleServe ==
  ASSUME TypeOK, Held, Single, NEW c \in Conns, Serve(c)
  PROVE  Single'
<1> USE DEF Step, Task
<1>1. \A d \in Conns : conn'[d] = "queue" => conn[d] = "queue" /\ d # c
  <2>1. \E to : to # "queue" /\ conn' = [conn EXCEPT ![c] = to]
    BY DEF Serve, Register, SpawnWriter, SendNotice, AcquirePermit, ReaderQueue, ReaderPong,
           Unregister, TryClose, AbortWriter
  <2> QED BY <2>1 DEF TypeOK
<1>2. {"event", "pong", "close"} \cap Requests = {} /\ {"event", "pong", "close"} \subseteq Messages
  BY ServerAssumption DEF Messages
<1>3. ASSUME UNCHANGED <<req, held, queue, out, delivered>> PROVE Single'
  BY <1>1, <1>3, CarriedFrame, SingleFrame
<1>4. ASSUME NEW m \in {"event", "pong", "close"}, Push(c, m),
             UNCHANGED <<req, held, out, delivered>>
      PROVE  Single'
  BY <1>1, <1>2, <1>4, SinglePush
<1>5. CASE Register(c) \/ SpawnWriter(c) \/ Unregister(c)
  BY <1>3, <1>5 DEF Register, SpawnWriter, Unregister
<1>6. CASE SendNotice(c) \/ ReaderPong(c) \/ TryClose(c)
  BY <1>3, <1>4, <1>6 DEF SendNotice, ReaderPong, TryClose
<1>7. CASE AcquirePermit(c)
  <2>1. Carried
    BY <1>7, CarriedFrame DEF AcquirePermit
  <2>2. held[c] \in Requests
    BY <1>7 DEF AcquirePermit, Held
  <2>3. req' = [req EXCEPT ![held[c]] = "spawned"] /\ req[held[c]] = "read"
        /\ held' = [held EXCEPT ![c] = "none"]
    BY <1>7 DEF AcquirePermit
  <2> QED BY <1>1, <2>1, <2>2, <2>3, SingleFrame DEF TypeOK
<1>8. CASE ReaderQueue(c)
  <2>1. req' = req /\ \A d \in Conns : d # c => held'[d] = held[d]
    BY <1>8 DEF ReaderQueue, TypeOK
  <2>2. CASE UNCHANGED <<queue, out, delivered>>
    BY <1>1, <2>1, <2>2, CarriedFrame, SingleFrame
  <2>3. CASE Push(c, held[c]) /\ UNCHANGED <<out, delivered>>
    <3>1. held[c] \in Messages
      BY <1>8 DEF ReaderQueue, Held
    <3>2. held[c] \in Requests => /\ Nowhere(held[c]) /\ ConnOf[held[c]] = c
                                  /\ req'[held[c]] = "limited"
      BY <1>8, <2>1 DEF ReaderQueue, Single
    <3>3. \A d \in Conns : conn'[d] = "queue" /\ held'[d] \in Requests =>
             conn[d] = "queue" /\ held'[d] = held[d] /\ held[d] # held[c]
      BY <1>1, <2>1, <3>2, SMT DEF Single
    <3> QED BY <2>1, <2>3, <3>1, <3>2, <3>3, SinglePush
  <2> QED BY <1>8, <2>2, <2>3 DEF ReaderQueue
<1>9. CASE AbortWriter(c)
  <2>1. Carried
    BY <1>9, CarriedOut DEF AbortWriter
  <2> QED BY <1>1, <1>9, <2>1, SingleFrame DEF AbortWriter
<1> QED BY <1>5, <1>6, <1>7, <1>8, <1>9 DEF Serve

\* The task of a request answers it once.
LEMMA SingleTask ==
  ASSUME TypeOK, Single, NEW r \in Requests,
         HandlerStep(r) \/ HandlerReturn(r) \/ HandlerDies(r) \/ HandlerEncodeFails(r)
  PROVE  Single'
<1> USE DEF Task, TaskEnds
<1>1. UNCHANGED <<conn, held, out, delivered>>
  BY DEF HandlerStep, HandlerBegin, HandlerLookup, HandlerSend, HandlerReturn,
         HandlerDies, HandlerEncodeFails
<1>2. /\ req[r] \in {"spawned", "run", "respond", "sending"}
      /\ \A q \in Requests : q # r => req'[q] = req[q]
  BY DEF HandlerStep, HandlerBegin, HandlerLookup, HandlerSend, HandlerReturn,
         HandlerDies, HandlerEncodeFails, TypeOK
<1>3. CASE Push(ConnOf[r], r) /\ Task(r, "sending", "answered")
  <2>1. ConnOf[r] \in Conns /\ r \in Messages
    BY ServerAssumption DEF Messages
  <2>2. Nowhere(r) /\ req'[r] = "answered"
    <3>1. Nowhere(r)
      BY <1>2 DEF Single
    <3>2. req'[r] = "answered"
      BY <1>3 DEF TypeOK
    <3> QED BY <3>1, <3>2
  <2>3. \A d \in Conns : conn[d] = "queue" /\ held[d] \in Requests => held[d] # r
    BY <1>2 DEF Single
  <2> QED BY <1>1, <1>2, <1>3, <2>1, <2>2, <2>3, SinglePush
<1>4. CASE queue' = queue /\ req'[r] # "answered"
  BY <1>1, <1>2, <1>4, CarriedFrame, SingleFrame
<1> QED BY <1>3, <1>4 DEF HandlerStep, HandlerBegin, HandlerLookup, HandlerSend,
        HandlerReturn, HandlerDies, HandlerEncodeFails, TypeOK

\* Every step keeps answers single.
LEMMA SingleNext ==
  ASSUME TypeOK, Held, Single, [Next]_vars
  PROVE  Single'
<1>1. CASE UNCHANGED <<queue, out, delivered, req, conn, held>>
  BY <1>1, CarriedFrame, SingleFrame
<1>2. ASSUME NEW c \in Conns, WriterPop(c) \/ WriterSend(c) \/ WriterFail(c) PROVE Single'
  <2>1. UNCHANGED <<req, conn, held>>
    BY <1>2 DEF WriterPop, WriterSend, WriterFail
  <2>2. Carried
    BY <1>2, CarriedPop, CarriedOut DEF WriterSend, WriterFail
  <2> QED BY <2>1, <2>2, SingleFrame
<1>3. ASSUME NEW c \in Conns, PushEvent(c) PROVE Single'
  <2>1. UNCHANGED <<req, conn, held, out, delivered>>
    BY <1>3 DEF PushEvent
  <2>2. "event" \in Messages /\ "event" \notin Requests
    BY ServerAssumption DEF Messages
  <2> QED BY <1>1, <1>3, <2>1, <2>2, SinglePush DEF PushEvent
<1>4. CASE ListenAcquire \/ ListenFail
  BY <1>1, <1>4 DEF ListenAcquire, ListenFail
<1>5. CASE UNCHANGED vars
  BY <1>1, <1>5 DEF vars
<1> QED BY <1>2, <1>3, <1>4, <1>5, SingleWait, SingleServe, SingleTask DEF Next

\* A request is answered at most once, by its own task or by the reader that
\* refused it, wherever the answer is: queued, with the writer or sent.
THEOREM AnsweredOnce == Spec => []AnsweredAtMostOnce
<1>1. Init => TypeOK /\ Held /\ Single
  BY InitType, ServerAssumption, SMT DEF Init, Held, Single, Unique, Nowhere
<1>2. TypeOK /\ Held /\ Single /\ [Next]_vars => (TypeOK /\ Held /\ Single)'
  BY TypeNext, SingleNext
<1>3. TypeOK /\ Single => AnsweredAtMostOnce
  <2> SUFFICES ASSUME TypeOK, Single, NEW r \in Requests
               PROVE  LET c == ConnOf[r]
                          waiting == {i \in 1 .. Len(queue[c]) : queue[c][i] = r}
                          answers == delivered[r] + Cardinality(waiting)
                                       + IF out[c] = r THEN 1 ELSE 0
                      IN  answers <= IF req[r] \in {"limited", "answered"} THEN 1 ELSE 0
    BY DEF AnsweredAtMostOnce
  <2> DEFINE c == ConnOf[r]
             waiting == {i \in 1 .. Len(queue[c]) : queue[c][i] = r}
  <2>1. c \in Conns /\ Unique(r)
    BY ServerAssumption DEF Single
  <2>2. CASE waiting = {}
    <3>1. Cardinality(waiting) = 0
      BY <2>2, FS_EmptySet
    <3>2. delivered[r] \in {0, 1} /\ (out[c] = r => delivered[r] = 0)
      BY <2>1 DEF Unique
    <3>3. req[r] \notin {"limited", "answered"} => delivered[r] = 0 /\ out[c] # r
      BY <2>1 DEF Single, Nowhere
    <3> QED BY <3>1, <3>2, <3>3, SMT
  <2>3. ASSUME NEW i \in waiting
        PROVE  /\ Cardinality(waiting) = 1 /\ delivered[r] = 0 /\ out[c] # r
               /\ req[r] \in {"limited", "answered"}
    <3>1. /\ delivered[r] = 0 /\ out[c] # r
          /\ \A j \in 1 .. Len(queue[c]) : queue[c][j] = r => j = i
      BY <2>1, <2>3 DEF Unique
    <3>2. waiting = {i}
      BY <2>3, <3>1
    <3>3. Cardinality(waiting) = 1
      BY <3>2, FS_Singleton
    <3>4. req[r] \in {"limited", "answered"}
      BY <2>1, <2>3, SMT DEF Single, Nowhere
    <3> QED BY <3>1, <3>3, <3>4
  <2> QED BY <2>2, <2>3, SMT
<1> QED BY <1>1, <1>2, <1>3, PTL DEF Spec

----------------------------------------------------------------------------
(* No answer is dropped                                                     *)

Over == Down \cup {"ended"}

\* The table holds every connection that is served, and what was read came from
\* one of these.
Placed ==
    /\ \A c \in Conns : conn[c] \in Live => c \in clients
    /\ \A r \in Requests : req[r] # "unsent" => conn[ConnOf[r]] \in Live \cup Over

\* Close is queued by the teardown only, and without a fault a writer ends
\* after Close or is aborted by the teardown.
CloseDue(c) ==
    \/ out[c] = "close"
    \/ \E i \in 1 .. Len(queue[c]) : queue[c][i] = "close"
    \/ faults = 0 /\ writer[c] = "done"

Closing == \A c \in Conns : held[c] # "close" /\ (CloseDue(c) => conn[c] \in Over)

\* serve_connection never goes back from its teardown, nor to its set-up.
LEMMA Onward ==
  ASSUME TypeOK, Next, NEW c \in Conns
  PROVE  /\ conn[c] \in Over => conn'[c] \in Over
         /\ conn[c] \in Live \cup Over => conn'[c] \in Live \cup Over
<1> USE DEF Step, Live, Over, Down, TypeOK
<1>1. ASSUME NEW d \in Conns, NotBanned(d) \/ Upgrade(d) \/ EcdhHandshake(d)
                              \/ Authenticate(d) \/ ListenAccept(d) \/ SetupFails(d)
      PROVE  conn'[c] = conn[c] \/ conn[c] \notin Live \cup Over
  BY <1>1 DEF NotBanned, Upgrade, EcdhHandshake, Authenticate, ListenAccept, SetupFails, Leave
<1>2. ASSUME NEW d \in Conns,
             \/ NotifyConnected(d) \/ NotifyDisconnected(d)
             \/ \E r \in Requests : ReadRequest(d, r)
             \/ ReadBadFrame(d) \/ ReadEnd(d) \/ ReadPing(d)
      PROVE  conn'[c] = conn[c] \/ (conn[c] \in Live /\ conn'[c] \in Live)
                                \/ conn'[c] \in Over
  BY <1>2, SMT DEF NotifyConnected, NotifyDisconnected, ReadRequest, ReadBadFrame, ReadEnd,
     ReadPing, Leave
<1>3. ASSUME NEW d \in Conns, Serve(d)
      PROVE  conn'[c] = conn[c] \/ (conn[c] \in Live \cup {"insert"} /\ conn'[c] \in Live)
                                \/ conn'[c] \in Over
  BY <1>3 DEF Serve, Register, SpawnWriter, SendNotice, AcquirePermit, ReaderQueue,
     ReaderPong, Unregister, TryClose, AbortWriter
<1>4. ASSUME NEW d \in Conns, PushEvent(d) \/ WriterPop(d) \/ WriterSend(d) \/ WriterFail(d)
      PROVE  conn' = conn
  BY <1>4 DEF PushEvent, WriterPop, WriterSend, WriterFail
<1>5. ASSUME NEW r \in Requests,
             HandlerStep(r) \/ HandlerReturn(r) \/ HandlerDies(r) \/ HandlerEncodeFails(r)
      PROVE  conn' = conn
  BY <1>5 DEF HandlerStep, HandlerBegin, HandlerLookup, HandlerSend, HandlerReturn,
     HandlerDies, HandlerEncodeFails
<1>6. ASSUME ListenAcquire \/ ListenFail PROVE conn' = conn
  BY <1>6 DEF ListenAcquire, ListenFail
<1>7. \/ conn'[c] = conn[c] \/ conn[c] \notin Live \cup Over \/ conn'[c] \in Over
      \/ conn[c] \in Live \cup {"insert"} /\ conn'[c] \in Live
  BY <1>1, <1>2, <1>3, <1>4, <1>5, <1>6 DEF Next, Wait
<1> QED BY <1>7

\* Every step keeps Placed.
LEMMA PlacedNext ==
  ASSUME TypeOK, Held, Placed, [Next]_vars
  PROVE  Placed'
<1>1. CASE UNCHANGED <<conn, clients, req>>
  BY <1>1 DEF Placed
<1>2. CASE UNCHANGED vars
  BY <1>1, <1>2 DEF vars
<1>3. CASE Next
  <2>1. ASSUME NEW c \in Conns, conn'[c] \in Live PROVE c \in clients'
    <3> USE DEF Step, Live, TypeOK
    <3>1. CASE UNCHANGED <<conn, clients>>
      BY <2>1, <3>1 DEF Placed
    <3>2. ASSUME NEW d \in Conns, ListenAccept(d) \/ NotBanned(d) \/ Upgrade(d)
                                  \/ EcdhHandshake(d) \/ Authenticate(d)
          PROVE  c \in clients'
      BY <2>1, <3>2, SMT DEF ListenAccept, NotBanned, Upgrade, EcdhHandshake, Authenticate, Placed
    <3>3. ASSUME NEW d \in Conns,
                 \/ SetupFails(d) \/ NotifyConnected(d) \/ NotifyDisconnected(d)
                 \/ \E r \in Requests : ReadRequest(d, r)
                 \/ ReadBadFrame(d) \/ ReadEnd(d) \/ ReadPing(d)
          PROVE  c \in clients'
      <4>1. CASE SetupFails(d) \/ NotifyConnected(d) \/ NotifyDisconnected(d)
        BY <2>1, <4>1 DEF SetupFails, NotifyConnected, NotifyDisconnected, Leave, Placed
      <4>2. CASE \/ \E r \in Requests : ReadRequest(d, r)
                 \/ ReadBadFrame(d) \/ ReadEnd(d) \/ ReadPing(d)
        <5>1. clients' = clients
          BY <4>2 DEF ReadRequest, ReadBadFrame, ReadEnd, ReadPing
        <5>2. PICK to \in {"permit", "queue", "remove", "pong"} : Step(d, "read", to)
          BY <4>2 DEF ReadRequest, ReadBadFrame, ReadEnd, ReadPing
        <5> QED BY <2>1, <5>1, <5>2 DEF Placed
      <4> QED BY <3>3, <4>1, <4>2
    <3>4. ASSUME NEW d \in Conns, Register(d) \/ Unregister(d) PROVE c \in clients'
      BY <2>1, <3>4 DEF Register, Unregister, Placed
    <3>5. ASSUME NEW d \in Conns,
                 \/ SpawnWriter(d) \/ SendNotice(d) \/ AcquirePermit(d) \/ ReaderQueue(d)
                 \/ ReaderPong(d) \/ TryClose(d) \/ AbortWriter(d)
          PROVE  c \in clients'
      <4>1. /\ conn[d] \in Live \/ conn'[d] \notin Live
            /\ \E to : conn' = [conn EXCEPT ![d] = to]
            /\ clients' = clients
        BY <3>5 DEF SpawnWriter, SendNotice, AcquirePermit, ReaderQueue, ReaderPong,
           TryClose, AbortWriter
      <4> QED BY <2>1, <4>1 DEF Placed
    <3>6. ASSUME NEW d \in Conns,
                 PushEvent(d) \/ WriterPop(d) \/ WriterSend(d) \/ WriterFail(d)
          PROVE  UNCHANGED <<conn, clients>>
      BY <3>6 DEF PushEvent, WriterPop, WriterSend, WriterFail
    <3>7. ASSUME NEW r \in Requests, \/ HandlerStep(r) \/ HandlerReturn(r) \/ HandlerDies(r)
                                     \/ HandlerEncodeFails(r)
          PROVE  UNCHANGED <<conn, clients>>
      BY <3>7 DEF HandlerStep, HandlerBegin, HandlerLookup, HandlerSend, HandlerReturn,
         HandlerDies, HandlerEncodeFails
    <3>8. ASSUME ListenAcquire \/ ListenFail PROVE UNCHANGED <<conn, clients>>
      BY <3>8 DEF ListenAcquire, ListenFail
    <3> QED BY <1>3, <3>1, <3>2, <3>3, <3>4, <3>5, <3>6, <3>7, <3>8 DEF Next, Wait, Serve
  <2>2. ASSUME NEW r \in Requests, req'[r] # "unsent"
        PROVE  conn'[ConnOf[r]] \in Live \cup Over
    <3>1. ConnOf[r] \in Conns
      BY ServerAssumption
    <3>2. CASE req[r] # "unsent"
      BY <1>3, <3>1, <3>2, Onward DEF Placed
    <3>3. CASE req[r] = "unsent"
      <4>1. ASSUME NEW c \in Conns, NEW q \in Requests, ReadRequest(c, q), q = r
            PROVE  conn'[ConnOf[r]] \in Live
        BY <4>1 DEF ReadRequest, Step, TypeOK, Live
      <4>2. ASSUME NEW c \in Conns, NEW q \in Requests, ReadRequest(c, q), q # r
            PROVE  req'[r] = req[r]
        BY <4>2 DEF ReadRequest, Task, TypeOK
      <4>3. ASSUME NEW c \in Conns, AcquirePermit(c) PROVE req'[r] = req[r]
        BY <3>3, <4>3 DEF AcquirePermit, Held, Task, TypeOK
      <4>4. ASSUME NEW q \in Requests, \/ HandlerStep(q) \/ HandlerReturn(q) \/ HandlerDies(q)
                                       \/ HandlerEncodeFails(q)
            PROVE  req'[r] = req[r]
        BY <3>3, <4>4 DEF HandlerStep, HandlerBegin, HandlerLookup, HandlerSend,
           HandlerReturn, HandlerDies, HandlerEncodeFails, Task, TaskEnds, TypeOK
      <4>5. CASE req' = req
        BY <2>2, <3>3, <4>5
      <4>6. ASSUME NEW c \in Conns,
                   \/ ListenAccept(c) \/ PushEvent(c) \/ WriterPop(c) \/ WriterSend(c)
                   \/ WriterFail(c) \/ NotBanned(c) \/ Upgrade(c) \/ EcdhHandshake(c)
                   \/ Authenticate(c) \/ SetupFails(c) \/ NotifyConnected(c)
                   \/ NotifyDisconnected(c) \/ ReadBadFrame(c) \/ ReadEnd(c) \/ ReadPing(c)
            PROVE  req' = req
        BY <4>6 DEF ListenAccept, PushEvent, WriterPop, WriterSend, WriterFail, NotBanned,
           Upgrade, EcdhHandshake, Authenticate, SetupFails, NotifyConnected,
           NotifyDisconnected, ReadBadFrame, ReadEnd, ReadPing
      <4>7. ASSUME NEW c \in Conns,
                   \/ Register(c) \/ SpawnWriter(c) \/ SendNotice(c) \/ ReaderQueue(c)
                   \/ ReaderPong(c) \/ Unregister(c) \/ TryClose(c) \/ AbortWriter(c)
            PROVE  req' = req
        BY <4>7 DEF Register, SpawnWriter, SendNotice, ReaderQueue, ReaderPong, Unregister,
           TryClose, AbortWriter
      <4>8. ASSUME ListenAcquire \/ ListenFail PROVE req' = req
        BY <4>8 DEF ListenAcquire, ListenFail
      <4> QED BY <1>3, <2>2, <3>3, <4>1, <4>2, <4>3, <4>4, <4>5, <4>6, <4>7, <4>8
              DEF Next, Wait, Serve
    <3> QED BY <3>2, <3>3
  <2> QED BY <2>1, <2>2 DEF Placed
<1> QED BY <1>2, <1>3

\* Faults are never taken back.
LEMMA FaultsGrow ==
  ASSUME TypeOK, Next
  PROVE  faults' = 0 => faults = 0
<1>1. ASSUME ListenAcquire \/ ListenFail PROVE faults' = faults \/ Fault
  BY <1>1 DEF ListenAcquire, ListenFail
<1>2. ASSUME NEW c \in Conns, ListenAccept(c) \/ Wait(c) PROVE faults' = faults \/ Fault
  BY <1>2 DEF ListenAccept, Wait, NotBanned, Upgrade, EcdhHandshake, Authenticate,
     SetupFails, NotifyConnected, NotifyDisconnected, ReadRequest, ReadBadFrame,
     ReadEnd, ReadPing
<1>3. ASSUME NEW c \in Conns, Serve(c) PROVE faults' = faults \/ Fault
  BY <1>3 DEF Serve, Register, SpawnWriter, SendNotice, AcquirePermit, ReaderQueue,
     ReaderPong, Unregister, TryClose, AbortWriter
<1>4. ASSUME NEW c \in Conns, PushEvent(c) \/ WriterPop(c) \/ WriterSend(c) \/ WriterFail(c)
      PROVE  faults' = faults \/ Fault
  BY <1>4 DEF PushEvent, WriterPop, WriterSend, WriterFail
<1>5. ASSUME NEW r \in Requests,
             HandlerStep(r) \/ HandlerReturn(r) \/ HandlerDies(r) \/ HandlerEncodeFails(r)
      PROVE  faults' = faults \/ Fault
  BY <1>5 DEF HandlerStep, HandlerBegin, HandlerLookup, HandlerSend, HandlerReturn,
     HandlerDies, HandlerEncodeFails
<1>6. faults' = faults \/ Fault
  BY <1>1, <1>2, <1>3, <1>4, <1>5 DEF Next
<1>7. faults \in Nat /\ (Fault => faults' = faults + 1)
  BY SMT DEF TypeOK, Fault
<1> QED BY ONLY <1>6, <1>7

\* Sending another message does not queue a Close.
LEMMA CloseDuePush ==
  ASSUME TypeOK, NEW c \in Conns, NEW m \in Messages, Push(c, m), m # "close",
         UNCHANGED <<out, writer>>, faults' = 0 => faults = 0, NEW d \in Conns, CloseDue(d)'
  PROVE  CloseDue(d)
<1> DEFINE q == queue[c]
<1>1. q \in Seq(Messages)
  BY DEF TypeOK
<1>2. queue'[c] = Append(q, m) /\ \A e \in Conns : e # c => queue'[e] = queue[e]
  BY DEF TypeOK, Push
<1>3. \A i \in 1 .. Len(Append(q, m)) :
        Append(q, m)[i] = "close" => i \in 1 .. Len(q) /\ q[i] = "close"
  BY <1>1, SMT
<1> QED BY <1>2, <1>3 DEF CloseDue

\* Nothing but the teardown makes a Close due.
LEMMA CloseDueNext ==
  ASSUME TypeOK, Held, Closing, Next, NEW d \in Conns, CloseDue(d)'
  PROVE  CloseDue(d) \/ conn'[d] \in Over
<1> USE DEF Fault
<1>1. ASSUME UNCHANGED <<out, queue, writer>>, faults' = 0 => faults = 0 PROVE CloseDue(d)
  BY <1>1 DEF CloseDue
<1>2. {"event", "pong"} \subseteq Messages /\ "close" \in Messages
  BY DEF Messages
<1>3. faults' = 0 => faults = 0
  BY FaultsGrow
<1>4. ASSUME NEW c \in Conns, ListenAccept(c) \/ Wait(c) PROVE CloseDue(d)
  <2>1. UNCHANGED <<out, queue, writer>>
    BY <1>4 DEF Wait, ListenAccept, NotBanned, Upgrade, EcdhHandshake, Authenticate,
       SetupFails, NotifyConnected, NotifyDisconnected, ReadRequest, ReadBadFrame, ReadEnd,
       ReadPing
  <2> QED BY <1>1, <1>3, <2>1
<1>5. ASSUME NEW c \in Conns, Register(c) \/ Unregister(c) \/ AcquirePermit(c)
      PROVE  CloseDue(d)
  BY <1>1, <1>3, <1>5 DEF Register, Unregister, AcquirePermit
<1>6. ASSUME NEW c \in Conns, SpawnWriter(c) PROVE CloseDue(d)
  BY <1>3, <1>6 DEF SpawnWriter, CloseDue, TypeOK
<1>7. ASSUME NEW c \in Conns,
             SendNotice(c) \/ ReaderQueue(c) \/ ReaderPong(c) \/ PushEvent(c)
      PROVE  CloseDue(d)
  <2>1. UNCHANGED <<out, writer>>
    BY <1>7 DEF SendNotice, ReaderQueue, ReaderPong, PushEvent
  <2>2. queue' = queue \/ \E m \in Messages : m # "close" /\ Push(c, m)
    BY <1>2, <1>7 DEF SendNotice, ReaderQueue, ReaderPong, PushEvent, Held, Closing, Step
  <2> QED BY <1>1, <1>3, <2>1, <2>2, CloseDuePush
<1>8. ASSUME NEW c \in Conns, TryClose(c) \/ AbortWriter(c)
      PROVE  CloseDue(d) \/ conn'[d] \in Over
  <2>1. conn'[c] \in Over
    BY <1>8 DEF TryClose, AbortWriter, Step, TypeOK, Over, Down
  <2>2. ASSUME d # c PROVE CloseDue(d)
    BY <1>3, <1>8, <2>2 DEF TryClose, AbortWriter, Push, TypeOK, CloseDue
  <2> QED BY <2>1, <2>2
<1>9. ASSUME NEW c \in Conns, WriterPop(c) PROVE CloseDue(d)
  <2> DEFINE q == queue[c]
  <2>1. q \in Seq(Messages) /\ q # <<>>
    BY <1>9 DEF WriterPop, TypeOK
  <2>2. 1 \in 1 .. Len(q) /\ Head(q) = q[1]
    BY <2>1, SMT
  <2>3. \A i \in 1 .. Len(Tail(q)) : i + 1 \in 1 .. Len(q) /\ Tail(q)[i] = q[i + 1]
    BY <2>1, SMT
  <2>4. /\ queue'[c] = Tail(q) /\ out'[c] = Head(q) /\ writer' = writer
        /\ \A e \in Conns : e # c => queue'[e] = queue[e] /\ out'[e] = out[e]
    BY <1>9 DEF WriterPop, TypeOK
  <2>5. CASE d = c
    <3>1. CASE out'[c] = "close"
      BY <2>2, <2>4, <2>5, <3>1 DEF CloseDue
    <3>2. CASE \E i \in 1 .. Len(queue'[c]) : queue'[c][i] = "close"
      BY <2>3, <2>4, <2>5, <3>2, SMT DEF CloseDue
    <3>3. CASE faults' = 0 /\ writer'[c] = "done"
      BY <1>3, <2>4, <2>5, <3>3 DEF CloseDue
    <3> QED BY <2>5, <3>1, <3>2, <3>3 DEF CloseDue
  <2>6. CASE d # c
    BY <1>3, <2>4, <2>6 DEF CloseDue
  <2> QED BY <2>5, <2>6
<1>10. ASSUME NEW c \in Conns, WriterSend(c) \/ WriterFail(c) PROVE CloseDue(d)
  <2>1. queue' = queue
    BY <1>10 DEF WriterSend, WriterFail
  <2>2. out'[d] = "close" => out[d] = "close"
    BY <1>10 DEF WriterSend, WriterFail, TypeOK
  <2>3. faults' = 0 /\ writer'[d] = "done" => writer[d] = "done" \/ out[d] = "close"
    BY <1>10, SMT DEF WriterSend, WriterFail, TypeOK
  <2> QED BY <1>3, <2>1, <2>2, <2>3 DEF CloseDue
<1>11. ASSUME NEW r \in Requests,
              HandlerStep(r) \/ HandlerReturn(r) \/ HandlerDies(r) \/ HandlerEncodeFails(r)
       PROVE  CloseDue(d)
  <2>1. UNCHANGED <<out, writer>>
    BY <1>11 DEF HandlerStep, HandlerBegin, HandlerLookup, HandlerSend, HandlerReturn,
       HandlerDies, HandlerEncodeFails
  <2>2. queue' = queue \/ Push(ConnOf[r], r)
    BY <1>11 DEF HandlerStep, HandlerBegin, HandlerLookup, HandlerSend, HandlerReturn,
       HandlerDies, HandlerEncodeFails
  <2>3. ConnOf[r] \in Conns /\ r \in Messages /\ r # "close"
    BY ServerAssumption DEF Messages
  <2> QED BY <1>1, <1>3, <2>1, <2>2, <2>3, CloseDuePush
<1>12. ASSUME ListenAcquire \/ ListenFail PROVE CloseDue(d)
  BY <1>1, <1>3, <1>12 DEF ListenAcquire, ListenFail
<1> QED BY <1>4, <1>5, <1>6, <1>7, <1>8, <1>9, <1>10, <1>11, <1>12 DEF Next, Serve

\* Every step keeps Closing.
LEMMA ClosingNext ==
  ASSUME TypeOK, Held, Closing, [Next]_vars
  PROVE  Closing'
<1>1. CASE UNCHANGED vars
  BY <1>1 DEF vars, Closing, CloseDue
<1>2. CASE Next
  <2>1. ASSUME NEW d \in Conns PROVE held'[d] # "close"
    <3>1. held[d] # "close" /\ "close" \notin Requests
      BY ServerAssumption DEF Closing
    <3>2. ASSUME NEW c \in Conns,
                 \/ \E r \in Requests : ReadRequest(c, r)
                 \/ ReadBadFrame(c) \/ AcquirePermit(c) \/ ReaderQueue(c)
          PROVE  held'[d] # "close"
      <4>1. \E m \in Requests \cup {"error", "none"} : held' = [held EXCEPT ![c] = m]
        BY <3>2 DEF ReadRequest, ReadBadFrame, AcquirePermit, ReaderQueue
      <4> QED BY <3>1, <4>1 DEF TypeOK
    <3>3. ASSUME NEW c \in Conns,
                 \/ ListenAccept(c) \/ PushEvent(c) \/ WriterPop(c) \/ WriterSend(c)
                 \/ WriterFail(c) \/ NotBanned(c) \/ Upgrade(c) \/ EcdhHandshake(c)
                 \/ Authenticate(c) \/ SetupFails(c) \/ NotifyConnected(c)
                 \/ NotifyDisconnected(c) \/ ReadEnd(c) \/ ReadPing(c)
          PROVE  held' = held
      BY <3>3 DEF ListenAccept, PushEvent, WriterPop, WriterSend, WriterFail, NotBanned,
         Upgrade, EcdhHandshake, Authenticate, SetupFails, NotifyConnected,
         NotifyDisconnected, ReadEnd, ReadPing
    <3>4. ASSUME NEW c \in Conns,
                 \/ Register(c) \/ SpawnWriter(c) \/ SendNotice(c) \/ ReaderPong(c)
                 \/ Unregister(c) \/ TryClose(c) \/ AbortWriter(c)
          PROVE  held' = held
      BY <3>4 DEF Register, SpawnWriter, SendNotice, ReaderPong, Unregister, TryClose,
         AbortWriter
    <3>5. ASSUME NEW r \in Requests, \/ HandlerStep(r) \/ HandlerReturn(r) \/ HandlerDies(r)
                                     \/ HandlerEncodeFails(r)
          PROVE  held' = held
      BY <3>5 DEF HandlerStep, HandlerBegin, HandlerLookup, HandlerSend, HandlerReturn,
         HandlerDies, HandlerEncodeFails
    <3>6. ASSUME ListenAcquire \/ ListenFail PROVE held' = held
      BY <3>6 DEF ListenAcquire, ListenFail
    <3> QED BY <1>2, <3>1, <3>2, <3>3, <3>4, <3>5, <3>6 DEF Next, Wait, Serve
  <2>2. ASSUME NEW d \in Conns, CloseDue(d)' PROVE conn'[d] \in Over
    BY <1>2, <2>2, CloseDueNext, Onward DEF Closing
  <2> QED BY <2>1, <2>2 DEF Closing
<1> QED BY <1>1, <1>2

\* The task of a request gives an answer up only for a connection that is no
\* longer in the table, or whose writer is gone.
LEMMA LostNext ==
  ASSUME TypeOK, Held, Placed, Closing, Next, NEW r \in Requests,
         req'[r] = "lost", req[r] # "lost", faults' = 0
  PROVE  conn'[ConnOf[r]] \in Over
<1> USE DEF Task, TaskEnds
<1>0. req \in [Requests -> Running \cup {"unsent", "read", "limited", "answered", "lost"}]
  BY DEF TypeOK
<1>1. ASSUME NEW q \in Requests, q # r,
             HandlerStep(q) \/ HandlerReturn(q) \/ HandlerDies(q) \/ HandlerEncodeFails(q)
      PROVE  FALSE
  <2>1. \E to : req' = [req EXCEPT ![q] = to]
    BY <1>1 DEF HandlerStep, HandlerBegin, HandlerLookup, HandlerSend, HandlerReturn,
       HandlerDies, HandlerEncodeFails
  <2> QED BY <1>0, <1>1, <2>1
<1>2. CASE HandlerDies(r) \/ HandlerEncodeFails(r)
  <2>1. faults' = faults + 1 /\ faults \in Nat
    BY <1>2, SMT DEF HandlerDies, HandlerEncodeFails, Fault, TypeOK
  <2> QED BY ONLY <2>1, faults' = 0
<1>3. ConnOf[r] \in Conns
  BY ServerAssumption
<1>4. CASE HandlerLookup(r)
  <2>1. ConnOf[r] \notin clients /\ req[r] = "respond" /\ conn' = conn
    BY <1>0, <1>4 DEF HandlerLookup
  <2> QED BY <1>3, <2>1 DEF Placed
<1>5. CASE HandlerSend(r)
  <2>1. writer[ConnOf[r]] = "done" /\ conn' = conn /\ faults = 0
    BY <1>0, <1>5 DEF HandlerSend, Open
  <2> QED BY <1>3, <2>1 DEF Closing, CloseDue
<1>6. CASE HandlerBegin(r) \/ HandlerReturn(r)
  BY <1>0, <1>6 DEF HandlerBegin, HandlerReturn
<1>7. ASSUME NEW c \in Conns,
             (\E q \in Requests : ReadRequest(c, q)) \/ AcquirePermit(c)
      PROVE  FALSE
  <2>1. \E q, to : to # "lost" /\ req' = [req EXCEPT ![q] = to]
    BY <1>7, SMT DEF ReadRequest, AcquirePermit
  <2> QED BY <1>0, <2>1
<1>8. ASSUME NEW c \in Conns,
             \/ ListenAccept(c) \/ PushEvent(c) \/ WriterPop(c) \/ WriterSend(c)
             \/ WriterFail(c) \/ NotBanned(c) \/ Upgrade(c) \/ EcdhHandshake(c)
             \/ Authenticate(c) \/ SetupFails(c) \/ NotifyConnected(c)
             \/ NotifyDisconnected(c) \/ ReadBadFrame(c) \/ ReadEnd(c) \/ ReadPing(c)
      PROVE  FALSE
  BY <1>8 DEF ListenAccept, PushEvent, WriterPop, WriterSend, WriterFail, NotBanned,
     Upgrade, EcdhHandshake, Authenticate, SetupFails, NotifyConnected,
     NotifyDisconnected, ReadBadFrame, ReadEnd, ReadPing
<1>9. ASSUME NEW c \in Conns,
             \/ Register(c) \/ SpawnWriter(c) \/ SendNotice(c) \/ ReaderQueue(c)
             \/ ReaderPong(c) \/ Unregister(c) \/ TryClose(c) \/ AbortWriter(c)
      PROVE  FALSE
  BY <1>9 DEF Register, SpawnWriter, SendNotice, ReaderQueue, ReaderPong, Unregister,
     TryClose, AbortWriter
<1>10. ASSUME ListenAcquire \/ ListenFail PROVE FALSE
  BY <1>10 DEF ListenAcquire, ListenFail
<1> QED BY <1>1, <1>2, <1>4, <1>5, <1>6, <1>7, <1>8, <1>9, <1>10
        DEF Next, Wait, Serve, HandlerStep

\* Without a failing socket, codec or filter an answer is only lost to a
\* connection whose teardown has begun: backpressure pauses, it drops nothing.
THEOREM NothingDropped == Spec => []NeverDropped
<1> DEFINE Inv == TypeOK /\ Held /\ Placed /\ Closing /\ NeverDropped
<1>1. Init => Inv
  <2>1. Init => Placed /\ NeverDropped
    BY SMT DEF Init, Placed, NeverDropped, Live
  <2>2. Init => Closing
    BY SMT DEF Init, Closing, CloseDue
  <2> QED BY <2>1, <2>2, InitType DEF Init, Held
<1>2. Inv /\ [Next]_vars => Inv'
  <2> SUFFICES ASSUME Inv, [Next]_vars PROVE Inv'
    OBVIOUS
  <2>1. TypeOK' /\ Held' /\ Placed' /\ Closing'
    BY TypeNext, PlacedNext, ClosingNext
  <2>2. CASE UNCHANGED vars
    BY <2>1, <2>2 DEF vars, NeverDropped
  <2>3. CASE Next
    <3> SUFFICES ASSUME NEW r \in Requests, req'[r] = "lost", faults' = 0
                 PROVE  conn'[ConnOf[r]] \in Over
      BY <2>1 DEF NeverDropped, Over
    <3>1. CASE req[r] # "lost"
      BY <2>3, <3>1, LostNext
    <3>2. CASE req[r] = "lost"
      <4>1. faults = 0 /\ ConnOf[r] \in Conns
        BY <2>3, FaultsGrow, ServerAssumption
      <4> QED BY <2>3, <3>2, <4>1, Onward DEF NeverDropped, Over
    <3> QED BY <3>1, <3>2
  <2> QED BY <2>2, <2>3
<1>3. Inv => NeverDropped
  OBVIOUS
<1> QED BY <1>1, <1>2, <1>3, PTL DEF Spec
=============================================================================
