--------------------------- MODULE ClientSession ---------------------------
(***************************************************************************)
(* The client runtime of wscall: one WscallClient shared by the tasks that *)
(* issue calls, by the connection supervisor, by the writer, heartbeat and *)
(* reader tasks of every connection it has opened, and by close().         *)
(*                                                                         *)
(* One action is one atomic access of the shared state (an atomic, an      *)
(* ArcSwap cell, a DashMap operation, a channel operation) with the local  *)
(* code around it, so every preemption of the multi-threaded runtime is    *)
(* an interleaving.  A call is a member of ApiCalls (call()) or EventCalls *)
(* (send_event()); its payload is its identity.  A connection is named by  *)
(* its generation.                                                         *)
(***************************************************************************)
EXTENDS Naturals, Sequences

CONSTANTS
    ApiCalls,       \* invocations of WscallClient::call
    EventCalls,     \* invocations of WscallClient::send_event
    Closers,        \* invocations of WscallClient::close
    MaxGen,         \* bound: connection attempts
    MaxFaults,      \* bound: errors and cancellations injected in a behaviour
    QueueCap,       \* CLIENT_OUTBOUND_QUEUE_CAPACITY
    Beats,          \* whether Pings and Pongs travel on a live connection
    AutoReconnect   \* WscallClientConfig.auto_reconnect

Calls == ApiCalls \cup EventCalls
Kinds == {"api", "event"}
Kind(c) == IF c \in ApiCalls THEN "api" ELSE "event"
Gens == 1 .. MaxGen
Roles == {"writer", "heartbeat", "reader"}
Tasks == Roles \X Gens
Actors == Tasks \cup Closers
Control == {"beat", "close"}  \* a Ping or Pong, and Close
Unanswered == {"none", "closed", "dropped"}

ASSUME ConstantsAssumption ==
    /\ MaxGen \in Nat \ {0}
    /\ MaxFaults \in Nat
    /\ QueueCap \in Nat \ {0}
    /\ Beats \in BOOLEAN
    /\ AutoReconnect \in BOOLEAN
    /\ ApiCalls \cap EventCalls = {}
    /\ Calls \cap (Control \cup Unanswered) = {}
    /\ Closers \cap Tasks = {}

VARIABLES
    is_connected, shutdown, connection_generation,
    writer,      \* generation whose sender the ArcSwap cell holds, 0 for None
    next_id,     \* next_request_id and next_event_id
    pending,     \* pending_api and pending_event: sets of <<id, call>>
    queue,       \* the outbound mpsc channel of each generation
    fired,       \* generations whose disconnect signal was sent
    sup, ready,  \* the supervisor, and the outcome of connect()
    pc,          \* progress of every task and of every close()
    closeTx, closeGen,         \* locals of close()
    call, reqId, tx, result,   \* progress and locals of every call
    broken,      \* generations whose socket got a Close or failed to send
    wire,        \* where the request of each call is beyond the queue
    faults       \* errors and cancellations so far

flagVars == <<is_connected, shutdown, connection_generation, writer>>
mapVars == <<next_id, pending>>
supVars == <<sup, ready, fired>>
closeVars == <<closeTx, closeGen>>
callVars == <<call, reqId, tx, result>>
netVars == <<broken, wire, faults>>
vars == <<flagVars, mapVars, queue, supVars, pc, closeVars, callVars, netVars>>

CallPcs == {"idle", "insert", "load", "send", "fail", "wait", "expired"}
Returned == {"refused", "closed", "replied", "timeout", "cancelled"}
Teardown == {"store", "api", "event", "signal"}
ActorPcs == {"none", "idle", "load", "gen", "run", "send", "check", "swap", "done"}
              \cup Teardown
Stages == {"none", "server", "answered", "received"}
SupPcs == {"top", "bump", "dial", "publish", "connect", "emit", "await",
           "after", "sleep", "stopped"}

\* Type invariant of the client: generations stay within MaxGen, and every call
\* that has returned has exactly one of its outcomes.
TypeOK ==
    /\ is_connected \in BOOLEAN /\ shutdown \in BOOLEAN
    /\ connection_generation \in 0 .. MaxGen /\ writer \in 0 .. MaxGen
    /\ next_id \in [Kinds -> Nat]
    /\ pending \in [Kinds -> SUBSET (Nat \X Calls)]
    /\ queue \in [Gens -> Seq(Calls \cup Control)]
    /\ fired \in SUBSET Gens
    /\ sup \in SupPcs /\ ready \in {"pending", "ok", "err"}
    /\ pc \in [Actors -> ActorPcs]
    /\ closeTx \in [Closers -> 0 .. MaxGen]
    /\ closeGen \in [Closers -> 0 .. MaxGen]
    /\ call \in [Calls -> CallPcs \cup Returned]
    /\ reqId \in [Calls -> Nat]
    /\ tx \in [Calls -> 0 .. MaxGen]
    /\ result \in [Calls -> Calls \cup Unanswered]
    /\ broken \in SUBSET Gens
    /\ wire \in [Calls -> Stages]
    /\ faults \in 0 .. MaxFaults

Init ==
    /\ is_connected = FALSE /\ shutdown = FALSE
    /\ connection_generation = 0 /\ writer = 0
    /\ next_id = [k \in Kinds |-> 0]
    /\ pending = [k \in Kinds |-> {}]
    /\ queue = [g \in Gens |-> <<>>]
    /\ fired = {}
    /\ sup = "top" /\ ready = "pending"
    /\ pc = [a \in Actors |-> IF a \in Closers THEN "idle" ELSE "none"]
    /\ closeTx = [k \in Closers |-> 0]
    /\ closeGen = [k \in Closers |-> 0]
    /\ call = [c \in Calls |-> "idle"]
    /\ reqId = [c \in Calls |-> 0]
    /\ tx = [c \in Calls |-> 0]
    /\ result = [c \in Calls |-> "none"]
    /\ broken = {}
    /\ wire = [c \in Calls |-> "none"]
    /\ faults = 0

----------------------------------------------------------------------------
(* The correlation maps and the outbound channel.                           *)

\* The entries of map k under id: at most one.
Entry(k, id) == {e \in pending[k] : e[1] = id}

Remove(k, id) == pending' = [pending EXCEPT ![k] = @ \ Entry(k, id)]

\* Resolve the oneshot of the calls D with v.
Resolve(D, v) == result' = [d \in Calls |-> IF d \in D THEN v ELSE result[d]]

Owners(E) == {e[2] : e \in E}

\* The receiver half lives until the writer task has returned.
RxAlive(g) == pc[<<"writer", g>>] # "done"

\* mpsc::Sender::send, completed: waits while the channel is full.
Enqueue(g, m) ==
    /\ RxAlive(g)
    /\ Len(queue[g]) < QueueCap
    /\ queue' = [queue EXCEPT ![g] = Append(@, m)]

Fault == faults < MaxFaults /\ faults' = faults + 1
Goto(a, to) == pc' = [pc EXCEPT ![a] = to]
CallGoto(c, to) == call' = [call EXCEPT ![c] = to]

----------------------------------------------------------------------------
(* call() and send_event(), which differ only in the map and the counter.   *)

\* The early return on a disconnected client.
CallCheck(c) ==
    /\ ready = "ok" /\ call[c] = "idle"
    /\ CallGoto(c, IF is_connected THEN "insert" ELSE "refused")
    /\ UNCHANGED <<flagVars, mapVars, queue, supVars, pc, closeVars,
                   reqId, tx, result, netVars>>

\* Take the next id and register the oneshot; an entry already under that id
\* is displaced and its sender dropped.
CallInsert(c) ==
    LET k == Kind(c)
        id == next_id[k] + 1 IN
    /\ call[c] = "insert" /\ CallGoto(c, "load")
    /\ next_id' = [next_id EXCEPT ![k] = id]
    /\ reqId' = [reqId EXCEPT ![c] = id]
    /\ pending' = [pending EXCEPT ![k] = (@ \ Entry(k, id)) \cup {<<id, c>>}]
    /\ Resolve(Owners(Entry(k, id)), "dropped")
    /\ UNCHANGED <<flagVars, queue, supVars, pc, closeVars, tx, netVars>>

\* send_outbound: load the writer handle ...
CallLoad(c) ==
    /\ call[c] = "load"
    /\ CallGoto(c, IF writer = 0 THEN "fail" ELSE "send")
    /\ tx' = [tx EXCEPT ![c] = writer]
    /\ UNCHANGED <<flagVars, mapVars, queue, supVars, pc, closeVars,
                   reqId, result, netVars>>

\* ... and send through it.
CallSend(c) ==
    /\ call[c] = "send"
    /\ \/ Enqueue(tx[c], c) /\ CallGoto(c, "wait")
       \/ ~RxAlive(tx[c]) /\ CallGoto(c, "fail") /\ UNCHANGED queue
    /\ UNCHANGED <<flagVars, mapVars, supVars, pc, closeVars,
                   reqId, tx, result, netVars>>

CallFail(c) ==
    /\ call[c] = "fail" /\ CallGoto(c, "refused")
    /\ Remove(Kind(c), reqId[c])
    /\ UNCHANGED <<flagVars, next_id, queue, supVars, pc, closeVars,
                   reqId, tx, result, netVars>>

\* Mutant of CallReturn: ConnectionClosed is reported as Disconnected.
CallReturnMerged(c) ==
    /\ call[c] = "wait" /\ result[c] # "none"
    /\ CallGoto(c, IF result[c] \in {"closed", "dropped"} THEN "refused" ELSE "replied")
    /\ UNCHANGED <<flagVars, mapVars, queue, supVars, pc, closeVars,
                   reqId, tx, result, netVars>>

\* Mutant of CallReturn: the oneshot's outcome is returned unconverted.
CallReturnRaw(c) ==
    /\ call[c] = "wait" /\ result[c] # "none" /\ CallGoto(c, result[c])
    /\ UNCHANGED <<flagVars, mapVars, queue, supVars, pc, closeVars,
                   reqId, tx, result, netVars>>

\* The oneshot was completed, or its sender dropped, before the timeout.
CallReturn(c) ==
    /\ call[c] = "wait" /\ result[c] # "none"
    /\ CallGoto(c, CASE result[c] = "closed" -> "closed"
                     [] result[c] = "dropped" -> "refused"
                     [] OTHER -> "replied")
    /\ UNCHANGED <<flagVars, mapVars, queue, supVars, pc, closeVars,
                   reqId, tx, result, netVars>>

\* Mutant of CallTimeout: the receiver is awaited without a timeout.
CallTimeoutNever(c) == call[c] = "never" /\ UNCHANGED vars

\* default_timeout elapses; an answer may still arrive before the removal.
CallTimeout(c) ==
    /\ call[c] = "wait" /\ result[c] = "none" /\ CallGoto(c, "expired")
    /\ UNCHANGED <<flagVars, mapVars, queue, supVars, pc, closeVars,
                   reqId, tx, result, netVars>>

\* Mutant of CallExpire: the entry of a timed-out call is kept.
CallExpireLeaks(c) ==
    /\ call[c] = "expired" /\ CallGoto(c, "timeout")
    /\ UNCHANGED <<flagVars, mapVars, queue, supVars, pc, closeVars,
                   reqId, tx, result, netVars>>

CallExpire(c) ==
    /\ call[c] = "expired" /\ CallGoto(c, "timeout")
    /\ Remove(Kind(c), reqId[c])
    /\ UNCHANGED <<flagVars, next_id, queue, supVars, pc, closeVars,
                   reqId, tx, result, netVars>>

\* The application drops the future at one of its two suspension points.
CallCancel(c) ==
    /\ call[c] \in {"send", "wait"} /\ CallGoto(c, "cancelled") /\ Fault
    /\ UNCHANGED <<flagVars, mapVars, queue, supVars, pc, closeVars,
                   reqId, tx, result, broken, wire>>

CallStep(c) ==
    \/ CallInsert(c) \/ CallLoad(c) \/ CallSend(c) \/ CallFail(c)
    \/ CallReturn(c) \/ CallTimeout(c) \/ CallExpire(c)

----------------------------------------------------------------------------
(* handle_disconnect, run by the tasks of a connection and by close().      *)

Generation(a) == IF a \in Closers THEN closeGen[a] ELSE a[2]

HdCheck(a) ==
    /\ pc[a] = "check"
    /\ Goto(a, IF connection_generation = Generation(a) THEN "swap" ELSE "done")
    /\ UNCHANGED <<flagVars, mapVars, queue, supVars, closeVars, callVars, netVars>>

\* Mutant of HdSwap: a load in place of the swap.
HdSwapLoad(a) ==
    /\ pc[a] = "swap" /\ Goto(a, IF is_connected THEN "store" ELSE "done")
    /\ UNCHANGED <<flagVars, mapVars, queue, supVars, closeVars, callVars, netVars>>

HdSwap(a) ==
    /\ pc[a] = "swap"
    /\ Goto(a, IF is_connected THEN "store" ELSE "done")
    /\ is_connected' = FALSE
    /\ UNCHANGED <<shutdown, connection_generation, writer, mapVars, queue,
                   supVars, closeVars, callVars, netVars>>

\* Mutant of HdStore: the dead connection's handle stays published.
HdStoreKept(a) ==
    /\ pc[a] = "store" /\ Goto(a, "api")
    /\ UNCHANGED <<flagVars, mapVars, queue, supVars, closeVars, callVars, netVars>>

HdStore(a) ==
    /\ pc[a] = "store" /\ Goto(a, "api")
    /\ writer' = 0
    /\ UNCHANGED <<is_connected, shutdown, connection_generation, mapVars,
                   queue, supVars, closeVars, callVars, netVars>>

\* Fail every waiter of one map; the step after "api" is "event".
HdDrain(a, k) ==
    /\ pc[a] = k /\ Goto(a, IF k = "api" THEN "event" ELSE "signal")
    /\ pending' = [pending EXCEPT ![k] = {}]
    /\ Resolve(Owners(pending[k]), "closed")
    /\ UNCHANGED <<flagVars, next_id, queue, supVars, closeVars,
                   call, reqId, tx, netVars>>

\* emit_disconnected has awaited the handlers; close() signals nobody.
HdSignal(a) ==
    /\ pc[a] = "signal" /\ Goto(a, "done")
    /\ fired' = IF a \in Closers THEN fired ELSE fired \cup {Generation(a)}
    /\ UNCHANGED <<flagVars, mapVars, queue, sup, ready, closeVars, callVars, netVars>>

HandleDisconnect(a) ==
    \/ HdCheck(a) \/ HdSwap(a) \/ HdStore(a) \/ HdSignal(a)
    \/ \E k \in Kinds : HdDrain(a, k)

----------------------------------------------------------------------------
(* close()                                                                  *)

CloseBegin(k) ==
    /\ ready = "ok" /\ pc[k] = "idle" /\ Goto(k, "load")
    /\ shutdown' = TRUE
    /\ UNCHANGED <<is_connected, connection_generation, writer, mapVars, queue,
                   supVars, closeVars, callVars, netVars>>

CloseLoad(k) ==
    /\ pc[k] = "load" /\ Goto(k, IF writer = 0 THEN "gen" ELSE "send")
    /\ closeTx' = [closeTx EXCEPT ![k] = writer]
    /\ UNCHANGED <<flagVars, mapVars, queue, supVars, closeGen, callVars, netVars>>

CloseSend(k) ==
    /\ pc[k] = "send" /\ Goto(k, "gen")
    /\ \/ Enqueue(closeTx[k], "close")
       \/ ~RxAlive(closeTx[k]) /\ UNCHANGED queue
    /\ UNCHANGED <<flagVars, mapVars, supVars, closeVars, callVars, netVars>>

CloseGen(k) ==
    /\ pc[k] = "gen" /\ Goto(k, "check")
    /\ closeGen' = [closeGen EXCEPT ![k] = connection_generation]
    /\ UNCHANGED <<flagVars, mapVars, queue, supVars, closeTx, callVars, netVars>>

CloseStep(k) == CloseLoad(k) \/ CloseSend(k) \/ CloseGen(k)

----------------------------------------------------------------------------
(* run_connection_supervisor and establish_connection                       *)

SupGoto(from, to) == sup = from /\ sup' = to

SupTop ==
    /\ SupGoto("top", IF shutdown THEN "stopped" ELSE "bump")
    /\ UNCHANGED <<flagVars, mapVars, queue, ready, fired, pc, closeVars,
                   callVars, netVars>>

SupBump ==
    /\ connection_generation < MaxGen
    /\ SupGoto("bump", "dial")
    /\ connection_generation' = connection_generation + 1
    /\ UNCHANGED <<is_connected, shutdown, writer, mapVars, queue, ready, fired,
                   pc, closeVars, callVars, netVars>>

\* Dialling, the key exchange and the auth exchange succeed or fail; a failed
\* first attempt is reported by connect() and ends the supervisor.
SupDial ==
    /\ \/ SupGoto("dial", "publish") /\ UNCHANGED <<ready, faults>>
       \/ ready = "pending" /\ SupGoto("dial", "stopped") /\ ready' = "err" /\ Fault
       \/ ready # "pending" /\ SupGoto("dial", "after") /\ UNCHANGED ready /\ Fault
    /\ UNCHANGED <<flagVars, mapVars, queue, fired, pc, closeVars, callVars,
                   broken, wire>>

SupStoreWriter ==
    /\ SupGoto("publish", "connect")
    /\ writer' = connection_generation
    /\ UNCHANGED <<is_connected, shutdown, connection_generation, mapVars, queue,
                   ready, fired, pc, closeVars, callVars, netVars>>

\* Mutant of SupSetConnected: the id counters restart with the connection.
SupSetConnectedFresh ==
    /\ SupGoto("connect", "emit")
    /\ is_connected' = TRUE
    /\ next_id' = [k \in Kinds |-> 0]
    /\ UNCHANGED <<shutdown, connection_generation, writer, pending, queue,
                   ready, fired, pc, closeVars, callVars, netVars>>

SupSetConnected ==
    /\ SupGoto("connect", "emit")
    /\ is_connected' = TRUE
    /\ UNCHANGED <<shutdown, connection_generation, writer, mapVars, queue,
                   ready, fired, pc, closeVars, callVars, netVars>>

\* emit_connected has awaited its handlers; only now do the tasks start.
SupSpawn ==
    /\ SupGoto("emit", "await")
    /\ pc' = [a \in Actors |->
                IF a \in Roles \X {connection_generation} THEN "run" ELSE pc[a]]
    /\ ready' = "ok"
    /\ UNCHANGED <<flagVars, mapVars, queue, fired, closeVars, callVars, netVars>>

\* Mutant of SupWake: the supervisor watches the flag, not the signal.
SupWakeFlag ==
    /\ SupGoto("await", "after") /\ ~is_connected
    /\ UNCHANGED <<flagVars, mapVars, queue, ready, fired, pc, closeVars,
                   callVars, netVars>>

\* disconnect_rx completes when the signal is sent, or when the three tasks
\* that own it have returned without sending it.
SupWake ==
    /\ SupGoto("await", "after")
    /\ \/ connection_generation \in fired
       \/ \A r \in Roles : pc[<<r, connection_generation>>] = "done"
    /\ UNCHANGED <<flagVars, mapVars, queue, ready, fired, pc, closeVars,
                   callVars, netVars>>

SupAfter ==
    /\ SupGoto("after", IF shutdown \/ ~AutoReconnect THEN "stopped" ELSE "sleep")
    /\ UNCHANGED <<flagVars, mapVars, queue, ready, fired, pc, closeVars,
                   callVars, netVars>>

SupSleep ==
    /\ SupGoto("sleep", "top")
    /\ UNCHANGED <<flagVars, mapVars, queue, ready, fired, pc, closeVars,
                   callVars, netVars>>

\* What the supervisor does without waiting for a handler of the application.
SupStep ==
    \/ SupTop \/ SupBump \/ SupDial \/ SupStoreWriter \/ SupSetConnected
    \/ SupWake \/ SupAfter \/ SupSleep

Supervisor == SupStep \/ SupSpawn

----------------------------------------------------------------------------
(* The writer, heartbeat and reader tasks of generation g.                  *)

\* Mutant of WriterPop: the frame is peeked at, and stays queued.
WriterPopPeeks(g) ==
    LET m == Head(queue[g]) IN
    /\ pc[<<"writer", g>>] = "run" /\ queue[g] # <<>> /\ m # "close"
    /\ wire' = IF m \in Calls THEN [wire EXCEPT ![m] = "server"] ELSE wire
    /\ UNCHANGED <<flagVars, mapVars, queue, supVars, pc, closeVars, callVars,
                   broken, faults>>

\* A frame leaves the queue: sent, lost to an encode error (packets only), or
\* lost to a sink error that ends the loop.
WriterPop(g) ==
    LET m == Head(queue[g]) IN
    /\ pc[<<"writer", g>>] = "run" /\ queue[g] # <<>> /\ m # "close"
    /\ queue' = [queue EXCEPT ![g] = Tail(@)]
    /\ \/ /\ wire' = IF m \in Calls THEN [wire EXCEPT ![m] = "server"] ELSE wire
          /\ UNCHANGED <<pc, broken, faults>>
       \/ m \in Calls /\ Fault /\ UNCHANGED <<pc, broken, wire>>
       \/ /\ Goto(<<"writer", g>>, "check") /\ broken' = broken \cup {g}
          /\ IF g \in broken THEN UNCHANGED faults ELSE Fault
          /\ UNCHANGED wire
    /\ UNCHANGED <<flagVars, mapVars, supVars, closeVars, callVars>>

\* Mutant of WriterClose: Close is sent and the loop goes on.
WriterCloseGoesOn(g) ==
    /\ pc[<<"writer", g>>] = "run" /\ queue[g] # <<>> /\ Head(queue[g]) = "close"
    /\ queue' = [queue EXCEPT ![g] = Tail(@)] /\ broken' = broken \cup {g}
    /\ UNCHANGED <<flagVars, mapVars, supVars, pc, closeVars, callVars, wire, faults>>

WriterClose(g) ==
    /\ pc[<<"writer", g>>] = "run" /\ queue[g] # <<>> /\ Head(queue[g]) = "close"
    /\ queue' = [queue EXCEPT ![g] = Tail(@)]
    /\ Goto(<<"writer", g>>, "check") /\ broken' = broken \cup {g}
    /\ UNCHANGED <<flagVars, mapVars, supVars, closeVars, callVars, wire, faults>>

\* recv() yields None once every sender is gone.
WriterStarved(g) ==
    /\ pc[<<"writer", g>>] = "run" /\ queue[g] = <<>>
    /\ writer # g
    /\ pc[<<"heartbeat", g>>] = "done" /\ pc[<<"reader", g>>] = "done"
    /\ \A c \in Calls : ~(call[c] = "send" /\ tx[c] = g)
    /\ \A k \in Closers : ~(pc[k] = "send" /\ closeTx[k] = g)
    /\ Goto(<<"writer", g>>, "check")
    /\ UNCHANGED <<flagVars, mapVars, queue, supVars, closeVars, callVars, netVars>>

\* Without Beats the interval outlasts a connection: a tick is seen only once
\* the connection is superseded or its receiver is gone.
HeartbeatTick(g) ==
    /\ pc[<<"heartbeat", g>>] = "run"
    /\ Beats \/ ~RxAlive(g) \/ connection_generation # g
    /\ Goto(<<"heartbeat", g>>, IF connection_generation = g THEN "send" ELSE "done")
    /\ UNCHANGED <<flagVars, mapVars, queue, supVars, closeVars, callVars, netVars>>

\* The heartbeat's Ping, or the reader's Pong, goes through the same queue.
TaskSend(r, g) ==
    /\ pc[<<r, g>>] = "send"
    /\ \/ Enqueue(g, "beat") /\ Goto(<<r, g>>, "run")
       \/ ~RxAlive(g) /\ Goto(<<r, g>>, "check") /\ UNCHANGED queue
    /\ UNCHANGED <<flagVars, mapVars, supVars, closeVars, callVars, netVars>>

\* handle_packet for ApiResponse and EventAck: whoever holds the id gets it,
\* on whichever connection it arrives.  A frame that does not decode is lost.
ReaderReply(g) ==
    /\ pc[<<"reader", g>>] = "run"
    /\ \E c \in Calls :
        /\ wire[c] = "answered" /\ tx[c] = g
        /\ wire' = [wire EXCEPT ![c] = "received"]
        /\ \/ /\ Remove(Kind(c), reqId[c])
              /\ Resolve(Owners(Entry(Kind(c), reqId[c])), c)
              /\ UNCHANGED faults
           \/ Fault /\ UNCHANGED <<pending, result>>
    /\ UNCHANGED <<flagVars, next_id, queue, supVars, pc, closeVars, call, reqId,
                   tx, broken>>

ReaderPing(g) ==
    /\ Beats
    /\ pc[<<"reader", g>>] = "run" /\ Goto(<<"reader", g>>, "send")
    /\ UNCHANGED <<flagVars, mapVars, queue, supVars, closeVars, callVars, netVars>>

\* Mutant of ReaderStop: the task returns without handle_disconnect.
ReaderStopSilent(g) ==
    /\ pc[<<"reader", g>>] = "run" /\ Goto(<<"reader", g>>, "done")
    /\ broken' = broken \cup {g}
    /\ IF g \in broken THEN UNCHANGED faults ELSE Fault
    /\ UNCHANGED <<flagVars, mapVars, queue, supVars, closeVars, callVars, wire>>

\* End of stream, Close, a protocol error or CLIENT_IDLE_TIMEOUT.
ReaderStop(g) ==
    /\ pc[<<"reader", g>>] = "run" /\ Goto(<<"reader", g>>, "check")
    /\ broken' = broken \cup {g}
    /\ IF g \in broken THEN UNCHANGED faults ELSE Fault
    /\ UNCHANGED <<flagVars, mapVars, queue, supVars, closeVars, callVars, wire>>

\* External: the server runs a request once and answers on its connection.
ServerAnswer(c) ==
    /\ wire[c] = "server"
    /\ wire' = [wire EXCEPT ![c] = "answered"]
    /\ UNCHANGED <<flagVars, mapVars, queue, supVars, pc, closeVars, callVars,
                   broken, faults>>

WriterStep(g) == WriterPop(g) \/ WriterClose(g) \/ WriterStarved(g)
HeartbeatStep(g) == HeartbeatTick(g) \/ TaskSend("heartbeat", g)

\* What a task of a connection does without waiting for the peer; a reader
\* whose socket has failed is ended by the idle timeout at the latest.
TaskStep(t) ==
    LET g == t[2] IN
    \/ t[1] = "writer" /\ WriterStep(g)
    \/ t[1] = "heartbeat" /\ HeartbeatStep(g)
    \/ t[1] = "reader" /\ (TaskSend("reader", g) \/ (g \in broken /\ ReaderStop(g)))

Next ==
    \/ \E c \in Calls : CallCheck(c) \/ CallStep(c) \/ CallCancel(c) \/ ServerAnswer(c)
    \/ \E a \in Actors : HandleDisconnect(a)
    \/ \E k \in Closers : CloseBegin(k) \/ CloseStep(k)
    \/ Supervisor
    \/ \E g \in Gens : \/ WriterStep(g) \/ HeartbeatStep(g) \/ TaskSend("reader", g)
                       \/ ReaderReply(g) \/ ReaderPing(g) \/ ReaderStop(g)

Spec == Init /\ [][Next]_vars

\* No call is in progress, so none that an on_connected handler may await.
Quiet == \A c \in Calls : call[c] \in {"idle"} \cup Returned

(***************************************************************************)
(* Every task the runtime has started keeps being scheduled, every timer   *)
(* fires, a dial ends and a socket takes what is written to it or fails.   *)
(* An on_connected handler may return at any time, but must only once no   *)
(* call it could be awaiting is left.  Nothing is assumed of the           *)
(* application otherwise, of the server's answers, or of how long a task   *)
(* stalls.                                                                 *)
(***************************************************************************)
Fairness ==
    /\ \A c \in Calls : WF_vars(CallStep(c))
    /\ \A k \in Closers : WF_vars(CloseStep(k) \/ HandleDisconnect(k))
    /\ WF_vars(SupStep) /\ WF_vars(Quiet /\ SupSpawn)
    /\ \A t \in Tasks : WF_vars(TaskStep(t) \/ HandleDisconnect(t))

FairSpec == Spec /\ Fairness

----------------------------------------------------------------------------
(* Properties.                                                              *)

\* handle_packet hands an answer to whoever holds its id, on whichever
\* connection it arrives: that caller is always the one the answer is for,
\* late answers of an earlier connection included.
ReplyMatchesCall == \A c \in Calls : result[c] \in Calls => result[c] = c

\* A caller waiting for an answer waits on the connection the client is using,
\* or handle_disconnect has yet to drain its map.  No interleaving of call()
\* with the store-None-then-drain order leaves a waiter behind that only the
\* timeout can end.
NoOrphanedWaiter ==
    \A c \in Calls :
        call[c] = "wait" /\ result[c] = "none" =>
            \/ writer = tx[c]
            \/ \E a \in Actors : pc[a] \in {"store", "api", Kind(c)}

\* A correlation entry belongs to a call still in progress, or to one whose
\* future the application dropped: answers, failures, timeouts and drains all
\* clean up behind themselves, whoever comes first.
PendingIsOwned ==
    \A k \in Kinds : \A e \in pending[k] :
        /\ Kind(e[2]) = k /\ reqId[e[2]] = e[1]
        /\ call[e[2]] \in (CallPcs \ {"idle", "insert"}) \cup {"cancelled"}

\* ClientError::Disconnected promises more than it says: the request is in no
\* queue and never reached a socket, so it did not run and never will.
RefusedNeverRan ==
    \A c \in Calls :
        call[c] = "refused" =>
            /\ wire[c] = "none"
            /\ \A g \in Gens : \A i \in 1 .. Len(queue[g]) : queue[g][i] # c

\* What the application sees of a call at p.
Status(p) ==
    CASE p = "idle" -> "idle"
      [] p = "refused" -> "refused"
      [] p = "replied" -> "replied"
      [] p \in {"closed", "timeout", "cancelled"} -> "lost"
      [] OTHER -> "open"

Contract == INSTANCE CallContract WITH
    status <- [c \in Calls |-> Status(call[c])],
    executed <- {c \in Calls : wire[c] \in {"answered", "received"}}

\* call() and send_event() over reconnecting sockets implement CallContract: a
\* request runs at most once, only its own answer completes it, and a refused
\* one never runs.
KeepsContract == Contract!ContractSpec

\* While the client says it is connected, none of the three tasks that serve
\* the current connection has returned: whichever ends first takes the flag
\* down before it does.
ConnectedIsServed ==
    is_connected /\ sup = "await" =>
        \A r \in Roles : pc[<<r, connection_generation>>] # "done"

\* When the supervisor has returned nothing will reconnect, so the client must
\* not be left claiming a connection.
StoppedIsDisconnected == sup = "stopped" => ~is_connected

\* When a connection's own task takes it down, its on_disconnected handlers
\* have finished before the next connection is published: the supervisor waits
\* for the signal they precede, or for all three tasks.
TeardownBeforeReconnect ==
    sup \in {"publish", "connect"} =>
        \A t \in Tasks : t[2] + 1 = connection_generation => pc[t] \notin Teardown

\* A send on the full queue of a connection whose writer is yet to be spawned:
\* the on_connected handlers still run.
Jammed(c) ==
    /\ sup = "emit" /\ call[c] = "send" /\ tx[c] = connection_generation
    /\ Len(queue[tx[c]]) = QueueCap

\* A call that was issued ends, with an answer, an error or a timeout, blocked
\* sends included.  There is one exception, for ever: default_timeout does not
\* cover the send, and a handler of on_connected that awaits a send on a full
\* queue keeps the writer that would empty it from being spawned.
CallsReturn ==
    \A c \in Calls : \/ call[c] # "idle" ~> call[c] \in Returned
                     \/ <>[]Jammed(c)

\* The socket of the current connection has failed, or close() has queued Close
\* on it.
Doomed ==
    \/ connection_generation \in broken
    \/ \E k \in Closers : /\ closeTx[k] = connection_generation
                          /\ pc[k] \notin {"load", "send"}

\* However a connection ends, and whoever took the flag down first (close()
\* holds no signal, the task of an older connection a spent one), the
\* supervisor gets to know: the last of the three tasks to return drops the
\* signal it awaits.
EndIsNoticed == sup = "await" /\ Doomed ~> sup # "await"

\* README: "Unexpected disconnects trigger automatic reconnect attempts".  A
\* client that is told it is disconnected, and was not closed, has a supervisor
\* that leaves its connection.
DisconnectTriggersReconnect ==
    AutoReconnect /\ sup = "await" /\ ~is_connected ~> sup # "await" \/ shutdown

\* README: "Calling `close()` stops reconnect attempts."  Once close() has
\* returned the client does not become connected again.
NoConnectAfterClose ==
    [][(\E k \in Closers : pc[k] = "done") => (is_connected' => is_connected)]_vars
=============================================================================
