-------------------------- MODULE ServerConnection --------------------------
(***************************************************************************)
(* The server runtime of wscall: the accept loop with its connection       *)
(* permits, serve_connection from the ban check to the teardown, the       *)
(* writer task, and the task spawned for every request or event.           *)
(*                                                                         *)
(* One action is the code between two suspension points or two accesses of *)
(* state another task can see.  A request is a member of Requests, sent on *)
(* the connection ConnOf gives it; an ApiRequest and an EventEmit take the *)
(* same steps.  What a frame contains, and what handlers compute, is out   *)
(* of sight; that they may never return is not.                            *)
(***************************************************************************)
EXTENDS Integers, Sequences, FiniteSets

CONSTANTS
    Conns,           \* sockets that may be accepted
    Requests,        \* ApiRequests and EventEmits
    ConnOf,          \* the connection a request is sent on
    MaxConnections,  \* max_connections
    MaxInFlight,     \* max_in_flight
    QueueCap,        \* SERVER_OUTBOUND_QUEUE_CAPACITY
    HasAuth,         \* whether an auth_handler is configured
    MaxEvents,       \* bound: events pushed through a ServerHandle
    MaxFaults        \* bound: failures of sockets, codecs and panics

ASSUME ServerAssumption ==
    /\ MaxConnections \in Nat \ {0} /\ MaxInFlight \in Nat \ {0}
    /\ QueueCap \in Nat \ {0}
    /\ HasAuth \in BOOLEAN
    /\ MaxEvents \in Nat /\ MaxFaults \in Nat
    /\ IsFiniteSet(Conns) /\ IsFiniteSet(Requests)
    /\ ConnOf \in [Requests -> Conns]
    /\ Requests \cap {"event", "error", "pong", "close", "none"} = {}

VARIABLES
    listener, permits,  \* the accept loop, and the free connection permits
    conn,               \* progress of serve_connection
    authed,             \* connections whose credential was accepted
    clients,            \* ServerState.clients
    held,               \* the message the reader is busy with
    writer, queue, out, \* the writer task, its channel, the message it is sending
    req,                \* progress of the task of every request
    in_flight,          \* free permits of each connection's semaphore
    identity,           \* requests that were given their auth context
    delivered,          \* answers that left on the socket, per request
    events, faults

serveVars == <<listener, permits, conn, authed, clients, held>>
outVars == <<writer, queue, out, delivered>>
taskVars == <<req, in_flight, identity>>
boundVars == <<events, faults>>
vars == <<serveVars, outVars, taskVars, boundVars>>

Messages == Requests \cup {"event", "error", "pong", "close"}
Setup == {"ban", "upgrade", "ecdh", "auth", "insert"}
Live == {"notify", "spawn", "notice", "read", "queue", "pong", "permit", "remove"}
Down == {"close", "grace", "goodbye"}
Running == {"spawned", "run", "respond", "sending"}

\* The progress of every task, and the permits of both semaphores as counts that
\* never underflow: nobody takes a permit that is not there.
TypeOK ==
    /\ listener \in {"acquire", "accept", "failed"} /\ permits \in Nat
    /\ conn \in [Conns -> {"none", "ended"} \cup Setup \cup Live \cup Down]
    /\ authed \in SUBSET Conns /\ clients \in SUBSET Conns
    /\ held \in [Conns -> Messages \cup {"none"}]
    /\ writer \in [Conns -> {"none", "run", "done"}]
    /\ queue \in [Conns -> Seq(Messages)]
    /\ out \in [Conns -> Messages \cup {"none"}]
    /\ delivered \in [Requests -> Nat]
    /\ req \in [Requests -> Running \cup {"unsent", "read", "limited", "answered", "lost"}]
    /\ in_flight \in [Conns -> Nat] /\ identity \in SUBSET Requests
    /\ events \in 0 .. MaxEvents /\ faults \in 0 .. MaxFaults

Init ==
    /\ listener = "acquire" /\ permits = MaxConnections
    /\ conn = [c \in Conns |-> "none"]
    /\ authed = {} /\ clients = {}
    /\ held = [c \in Conns |-> "none"]
    /\ writer = [c \in Conns |-> "none"]
    /\ queue = [c \in Conns |-> <<>>]
    /\ out = [c \in Conns |-> "none"]
    /\ delivered = [r \in Requests |-> 0]
    /\ req = [r \in Requests |-> "unsent"]
    /\ in_flight = [c \in Conns |-> MaxInFlight]
    /\ identity = {}
    /\ events = 0 /\ faults = 0

Step(c, from, to) == conn[c] = from /\ conn' = [conn EXCEPT ![c] = to]
Task(r, from, to) == req[r] = from /\ req' = [req EXCEPT ![r] = to]
\* The task of r ends, by returning or by a panic, and drops its permit.
TaskEnds(r, from, to) ==
    Task(r, from, to) /\ in_flight' = [in_flight EXCEPT ![ConnOf[r]] = @ + 1]
Fault == faults < MaxFaults /\ faults' = faults + 1 /\ UNCHANGED events

\* The channel: a full one blocks send() and fails try_send(), a dropped
\* receiver fails both.
Open(c) == writer[c] # "done"
HasRoom(c) == Open(c) /\ Len(queue[c]) < QueueCap
Push(c, m) == queue' = [queue EXCEPT ![c] = Append(@, m)]

----------------------------------------------------------------------------
(* listen                                                                   *)

\* Mutant of ListenAcquire: accepting does not wait for a permit.
ListenAcquireUncapped ==
    /\ listener = "acquire" /\ listener' = "accept"
    /\ permits' = permits - 1
    /\ UNCHANGED <<conn, authed, clients, held, outVars, taskVars, boundVars>>

ListenAcquire ==
    /\ listener = "acquire" /\ listener' = "accept"
    /\ permits > 0 /\ permits' = permits - 1
    /\ UNCHANGED <<conn, authed, clients, held, outVars, taskVars, boundVars>>

ListenAccept(c) ==
    /\ listener = "accept" /\ listener' = "acquire"
    /\ Step(c, "none", "ban")
    /\ UNCHANGED <<permits, authed, clients, held, outVars, taskVars, boundVars>>

\* An accept error ends listen(); its permit is dropped, connections live on.
ListenFail ==
    /\ listener = "accept" /\ listener' = "failed" /\ Fault
    /\ permits' = permits + 1
    /\ UNCHANGED <<conn, authed, clients, held, outVars, taskVars>>

----------------------------------------------------------------------------
(* serve_connection: from the ban check to a registered connection          *)

\* Mutant of Leave: the permit is forgotten on an early return.
LeaveLeaks(c) == conn' = [conn EXCEPT ![c] = "ended"] /\ UNCHANGED permits

\* The spawned task ends and drops its permit.
Leave(c) == conn' = [conn EXCEPT ![c] = "ended"] /\ permits' = permits + 1

\* An early return: a banned address, a failed upgrade or key exchange, or no
\* acceptable credential.
SetupFails(c) ==
    /\ conn[c] \in {"ban", "upgrade", "ecdh"} \cup (IF HasAuth THEN {"auth"} ELSE {})
    /\ Leave(c)
    /\ UNCHANGED <<listener, authed, clients, held, outVars, taskVars, boundVars>>

NotBanned(c) ==
    /\ Step(c, "ban", "upgrade")
    /\ UNCHANGED <<listener, permits, authed, clients, held, outVars, taskVars, boundVars>>

Upgrade(c) ==
    /\ Step(c, "upgrade", "ecdh")
    /\ UNCHANGED <<listener, permits, authed, clients, held, outVars, taskVars, boundVars>>

EcdhHandshake(c) ==
    /\ Step(c, "ecdh", "auth")
    /\ UNCHANGED <<listener, permits, authed, clients, held, outVars, taskVars, boundVars>>

\* Mutant of Authenticate: a missing credential is let through.
AuthenticateLax(c) ==
    /\ Step(c, "auth", "insert")
    /\ \/ authed' = authed \cup {c}
       \/ UNCHANGED authed
    /\ UNCHANGED <<listener, permits, clients, held, outVars, taskVars, boundVars>>

\* The credential is accepted, or none is asked for.
Authenticate(c) ==
    /\ Step(c, "auth", "insert")
    /\ authed' = IF HasAuth THEN authed \cup {c} ELSE authed
    /\ UNCHANGED <<listener, permits, clients, held, outVars, taskVars, boundVars>>

Register(c) ==
    /\ Step(c, "insert", "notify")
    /\ clients' = clients \cup {c}
    /\ UNCHANGED <<listener, permits, authed, held, outVars, taskVars, boundVars>>

\* join_all of the on_connected handlers has returned.
NotifyConnected(c) ==
    /\ Step(c, "notify", "spawn")
    /\ UNCHANGED <<listener, permits, authed, clients, held, outVars, taskVars, boundVars>>

SpawnWriter(c) ==
    /\ Step(c, "spawn", "notice")
    /\ writer' = [writer EXCEPT ![c] = "run"]
    /\ UNCHANGED <<listener, permits, authed, clients, held, queue, out, delivered,
                   taskVars, boundVars>>

\* The system.notice event: encoded and sent with try_send; a failure of either
\* ends the connection.
SendNotice(c) ==
    /\ \/ HasRoom(c) /\ Step(c, "notice", "read") /\ Push(c, "event") /\ UNCHANGED boundVars
       \/ ~HasRoom(c) /\ Step(c, "notice", "remove") /\ UNCHANGED <<queue, boundVars>>
       \/ Fault /\ Step(c, "notice", "remove") /\ UNCHANGED queue
    /\ UNCHANGED <<listener, permits, authed, clients, held, writer, out, delivered, taskVars>>

----------------------------------------------------------------------------
(* The reader loop                                                          *)

\* A request is decoded; the rate limiter lets it through to the in-flight
\* semaphore, or has it answered (503, or an empty ack) by the reader itself.
ReadRequest(c, r) ==
    /\ ConnOf[r] = c /\ held' = [held EXCEPT ![c] = r]
    /\ \/ Step(c, "read", "permit") /\ Task(r, "unsent", "read")
       \/ Step(c, "read", "queue") /\ Task(r, "unsent", "limited")
    /\ UNCHANGED <<listener, permits, authed, clients, outVars, in_flight, identity,
                   boundVars>>

\* A permit of the in-flight semaphore, then spawn.
AcquirePermit(c) ==
    /\ Step(c, "permit", "read")
    /\ in_flight[c] > 0 /\ in_flight' = [in_flight EXCEPT ![c] = @ - 1]
    /\ Task(held[c], "read", "spawned") /\ held' = [held EXCEPT ![c] = "none"]
    /\ UNCHANGED <<listener, permits, authed, clients, outVars, identity, boundVars>>

\* A frame too short, or whose declared length is wrong or above the limit:
\* the 413 answer.
ReadBadFrame(c) ==
    /\ Step(c, "read", "queue")
    /\ held' = [held EXCEPT ![c] = "error"]
    /\ UNCHANGED <<listener, permits, authed, clients, outVars, taskVars, boundVars>>

\* Close, end of stream, a socket or decode error, a message above
\* max_message_size, or the idle timeout.
ReadEnd(c) ==
    /\ Step(c, "read", "remove")
    /\ UNCHANGED <<listener, permits, authed, clients, held, outVars, taskVars, boundVars>>

ReadPing(c) ==
    /\ Step(c, "read", "pong")
    /\ UNCHANGED <<listener, permits, authed, clients, held, outVars, taskVars, boundVars>>

\* Mutant of ReaderQueue: the answer is queued and the task spawned as well.
ReaderQueueTwice(c) ==
    /\ Step(c, "queue", IF held[c] \in Requests THEN "permit" ELSE "read")
    /\ HasRoom(c) /\ Push(c, held[c])
    /\ req' = [r \in Requests |-> IF r = held[c] THEN "read" ELSE req[r]]
    /\ UNCHANGED <<listener, permits, authed, clients, held, writer, out, delivered,
                   in_flight, identity, boundVars>>

\* queue_for in the reader: waits for room; a dropped receiver, or a message
\* that cannot be encoded, is ignored.
ReaderQueue(c) ==
    /\ Step(c, "queue", "read") /\ held' = [held EXCEPT ![c] = "none"]
    /\ \/ HasRoom(c) /\ Push(c, held[c]) /\ UNCHANGED boundVars
       \/ ~Open(c) /\ UNCHANGED <<queue, boundVars>>
       \/ Fault /\ UNCHANGED queue
    /\ UNCHANGED <<listener, permits, authed, clients, writer, out, delivered, taskVars>>

ReaderPong(c) ==
    /\ \/ HasRoom(c) /\ Step(c, "pong", "read") /\ Push(c, "pong")
       \/ ~Open(c) /\ Step(c, "pong", "remove") /\ UNCHANGED queue
    /\ UNCHANGED <<listener, permits, authed, clients, held, writer, out, delivered,
                   taskVars, boundVars>>

----------------------------------------------------------------------------
(* Teardown                                                                 *)

Unregister(c) ==
    /\ Step(c, "remove", "close")
    /\ clients' = clients \ {c}
    /\ UNCHANGED <<listener, permits, authed, held, outVars, taskVars, boundVars>>

TryClose(c) ==
    /\ Step(c, "close", "grace")
    /\ IF HasRoom(c) THEN Push(c, "close") ELSE UNCHANGED queue
    /\ UNCHANGED <<listener, permits, authed, clients, held, writer, out, delivered,
                   taskVars, boundVars>>

\* Mutant of AbortWriter: the writer is awaited, neither timed out nor aborted.
AwaitWriter(c) ==
    /\ Step(c, "grace", "goodbye") /\ ~Open(c)
    /\ UNCHANGED <<listener, permits, authed, clients, held, outVars, taskVars, boundVars>>

\* Mutant of AbortWriter: the timeout drops the handle, which aborts nothing.
DetachWriter(c) ==
    /\ Step(c, "grace", "goodbye")
    /\ UNCHANGED <<listener, permits, authed, clients, held, outVars, taskVars, boundVars>>

\* The writer has returned or SERVER_CLOSE_GRACE is over; then abort().
AbortWriter(c) ==
    /\ Step(c, "grace", "goodbye")
    /\ writer' = [writer EXCEPT ![c] = "done"] /\ out' = [out EXCEPT ![c] = "none"]
    /\ UNCHANGED <<listener, permits, authed, clients, held, queue, delivered,
                   taskVars, boundVars>>

\* join_all of the on_disconnected handlers has returned, and the task ends.
NotifyDisconnected(c) ==
    /\ conn[c] = "goodbye" /\ Leave(c)
    /\ UNCHANGED <<listener, authed, clients, held, outVars, taskVars, boundVars>>

----------------------------------------------------------------------------
(* The writer task                                                          *)

\* rx.recv(): the message leaves the channel ...
WriterPop(c) ==
    /\ writer[c] = "run" /\ out[c] = "none" /\ queue[c] # <<>>
    /\ out' = [out EXCEPT ![c] = Head(queue[c])]
    /\ queue' = [queue EXCEPT ![c] = Tail(@)]
    /\ UNCHANGED <<serveVars, writer, delivered, taskVars, boundVars>>

\* ... and is written to the socket; Close is the last one.
WriterSend(c) ==
    /\ writer[c] = "run" /\ out[c] # "none"
    /\ out' = [out EXCEPT ![c] = "none"]
    /\ delivered' = [r \in Requests |-> delivered[r] + IF r = out[c] THEN 1 ELSE 0]
    /\ writer' = IF out[c] = "close" THEN [writer EXCEPT ![c] = "done"] ELSE writer
    /\ UNCHANGED <<serveVars, queue, taskVars, boundVars>>

\* The socket or the codec refuses the message, or an idle writer's Ping.
WriterFail(c) ==
    /\ writer[c] = "run" /\ Fault
    /\ writer' = [writer EXCEPT ![c] = "done"] /\ out' = [out EXCEPT ![c] = "none"]
    /\ UNCHANGED <<serveVars, queue, delivered, taskVars>>

----------------------------------------------------------------------------
(* process_packet in the task of request r                                  *)

\* run_api_request or run_event begins: lookup_auth_context reads the table.
HandlerBegin(r) ==
    /\ Task(r, "spawned", "run")
    /\ identity' = IF ConnOf[r] \in clients \cap authed
                   THEN identity \cup {r} ELSE identity
    /\ UNCHANGED <<serveVars, outVars, in_flight, boundVars>>

\* Filters and handler are done; their errors and the handler's panic are
\* answers too.
HandlerReturn(r) ==
    /\ Task(r, "run", "respond")
    /\ UNCHANGED <<serveVars, outVars, in_flight, identity, boundVars>>

\* Mutant of HandlerDies: the permit is returned by hand after process_packet.
HandlerDiesLeaks(r) ==
    /\ Task(r, "run", "lost") /\ Fault
    /\ UNCHANGED <<serveVars, outVars, in_flight, identity>>

\* A filter or the exception handler panics: the task dies, unanswered.
HandlerDies(r) ==
    /\ TaskEnds(r, "run", "lost") /\ Fault
    /\ UNCHANGED <<serveVars, outVars, identity>>

\* queue_for: the sender is cloned out of the table ...
HandlerLookup(r) ==
    /\ \/ ConnOf[r] \in clients /\ Task(r, "respond", "sending") /\ UNCHANGED in_flight
       \/ ConnOf[r] \notin clients /\ TaskEnds(r, "respond", "lost")
    /\ UNCHANGED <<serveVars, outVars, identity, boundVars>>

\* The answer cannot be encoded with the shared codec.
HandlerEncodeFails(r) ==
    /\ TaskEnds(r, "respond", "lost") /\ Fault
    /\ UNCHANGED <<serveVars, outVars, identity>>

\* Mutant of HandlerSend: try_send, as events are sent.
HandlerTrySend(r) ==
    /\ IF HasRoom(ConnOf[r])
       THEN Push(ConnOf[r], r) /\ TaskEnds(r, "sending", "answered")
       ELSE UNCHANGED queue /\ TaskEnds(r, "sending", "lost")
    /\ UNCHANGED <<serveVars, writer, out, delivered, identity, boundVars>>

\* ... and awaited with backpressure.
HandlerSend(r) ==
    /\ \/ HasRoom(ConnOf[r]) /\ Push(ConnOf[r], r) /\ TaskEnds(r, "sending", "answered")
       \/ ~Open(ConnOf[r]) /\ UNCHANGED queue /\ TaskEnds(r, "sending", "lost")
    /\ UNCHANGED <<serveVars, writer, out, delivered, identity, boundVars>>

\* What a task does without waiting for a handler of the application.
HandlerStep(r) == HandlerBegin(r) \/ HandlerLookup(r) \/ HandlerSend(r)

----------------------------------------------------------------------------
\* broadcast_event and send_event_to, for one recipient: try_send.
PushEvent(c) ==
    /\ events < MaxEvents /\ events' = events + 1 /\ c \in clients
    /\ IF HasRoom(c) THEN Push(c, "event") ELSE UNCHANGED queue
    /\ UNCHANGED <<serveVars, writer, out, delivered, taskVars, faults>>

\* Steps that wait for the peer or for a handler of the application.
Wait(c) ==
    \/ NotBanned(c) \/ Upgrade(c) \/ EcdhHandshake(c) \/ Authenticate(c) \/ SetupFails(c)
    \/ NotifyConnected(c) \/ NotifyDisconnected(c)
    \/ \E r \in Requests : ReadRequest(c, r)
    \/ ReadBadFrame(c) \/ ReadEnd(c) \/ ReadPing(c)

\* Steps serve_connection takes on its own.
Serve(c) ==
    \/ Register(c) \/ SpawnWriter(c) \/ SendNotice(c)
    \/ AcquirePermit(c) \/ ReaderQueue(c) \/ ReaderPong(c)
    \/ Unregister(c) \/ TryClose(c) \/ AbortWriter(c)

Next ==
    \/ ListenAcquire \/ ListenFail
    \/ \E c \in Conns :
        \/ ListenAccept(c) \/ Wait(c) \/ Serve(c) \/ PushEvent(c)
        \/ WriterPop(c) \/ WriterSend(c) \/ WriterFail(c)
    \/ \E r \in Requests :
        \/ HandlerStep(r) \/ HandlerReturn(r) \/ HandlerDies(r) \/ HandlerEncodeFails(r)

Spec == Init /\ [][Next]_vars

(***************************************************************************)
(* The runtime schedules every task that can move, and the grace period    *)
(* ends.  Nothing is assumed of the peer, of a socket that takes no more   *)
(* bytes, or of the application's handlers.                                *)
(***************************************************************************)
Fairness ==
    /\ \A c \in Conns : WF_vars(Serve(c))
    /\ \A r \in Requests : WF_vars(HandlerStep(r))

FairSpec == Spec /\ Fairness

----------------------------------------------------------------------------
(* Properties.                                                              *)

\* max_connections: permits are neither lost nor duplicated on any of the
\* early returns and teardown paths, nor by a failing accept, so the number of
\* sockets being served never exceeds the cap and never shrinks it.
PermitsConserved ==
    permits + Cardinality({c \in Conns : conn[c] \notin {"none", "ended"}})
            + (IF listener = "accept" THEN 1 ELSE 0) = MaxConnections

InFlight(c) == {r \in Requests : ConnOf[r] = c /\ req[r] \in Running}

\* max_in_flight: every permit of a connection's semaphore is free or with a
\* live task of that connection, one blocked on a full queue included.  Tasks
\* that panic, cannot encode their answer or find the connection gone give it
\* back, or the reader would stop for good.
InFlightConserved ==
    \A c \in Conns : in_flight[c] + Cardinality(InFlight(c)) = MaxInFlight

\* "unauthenticated connections never reach your routes": whatever the order
\* of handshake failures, a request only ever runs, or is even answered, on a
\* connection whose credential was accepted.
OnlyAuthenticatedServed ==
    HasAuth => /\ clients \subseteq authed
               /\ \A r \in Requests : req[r] # "unsent" => ConnOf[r] \in authed

\* A request is answered at most once, by its own task or by the reader, and
\* one that was limited is never run.
AnsweredAtMostOnce ==
    \A r \in Requests :
        LET c == ConnOf[r]
            waiting == {i \in 1 .. Len(queue[c]) : queue[c][i] = r}
            answers == delivered[r] + Cardinality(waiting) + IF out[c] = r THEN 1 ELSE 0
        IN answers <= IF req[r] \in {"limited", "answered"} THEN 1 ELSE 0

\* queue_for: "a slow consumer pauses the producer rather than being dropped".
\* Without a failing socket, codec or filter, an answer is only lost to a
\* connection whose teardown has begun.
NeverDropped ==
    \A r \in Requests :
        req[r] = "lost" /\ faults = 0 => conn[ConnOf[r]] \in Down \cup {"ended"}

\* Once the reader loop has ended the teardown runs to the handlers of
\* on_disconnected, even if the peer takes no more bytes.
TeardownCompletes == \A c \in Conns : conn[c] = "remove" ~> conn[c] = "goodbye"

\* "Aborting the writer drops the channel receiver so any in-flight handler
\* `queue_for` calls fail fast instead of hanging."
NoHandlerHangs ==
    \A r \in Requests :
        conn[ConnOf[r]] \in {"goodbye", "ended"} ~> req[r] # "sending"

\* "The identity context is [...] accessible from every route/event handler":
\* a handler on an authenticated connection was given its context.
IdentityVisible ==
    \A r \in Requests :
        req[r] \in {"run", "respond", "sending", "answered"} /\ ConnOf[r] \in authed
            => r \in identity
=============================================================================
