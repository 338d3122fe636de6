------------------------ MODULE ClientWaiterProofs -------------------------
(***************************************************************************)
(* No caller is left waiting on a dead connection, and a connection that   *)
(* is claimed is served: for any number of calls, close() invocations,     *)
(* connections and faults.  The last part is on the order of teardowns and *)
(* connections.                                                            *)
(***************************************************************************)
EXTENDS ClientSessionProofs

\* Leaves are first-order reasoning unless they name SMT.
USE Zenon

Ended == Teardown \cup {"done"}

Unborn(g) == g \notin fired /\ \A r \in Roles : pc[<<r, g>>] = "none"

\* The tasks of a connection start when the supervisor has published it, and
\* one of them that has begun its teardown, or ended, has taken the flag down.
Spawned ==
    /\ sup \in {"dial", "publish", "connect", "emit", "await"} =>
          connection_generation \in Gens
    /\ \A g \in Gens :
          \/ g > connection_generation
          \/ g = connection_generation /\ sup \in {"dial", "publish", "connect", "emit"}
          => Unborn(g)
    /\ (sup = "await" /\ is_connected) =>
          /\ \A r \in Roles : pc[<<r, connection_generation>>] \notin Ended
          /\ connection_generation \notin fired

Storing == \E a \in Actors : pc[a] = "store"

\* A published handle is that of the connection the supervisor serves, or some
\* handle_disconnect is about to clear it.
Published ==
    writer # 0 => \/ Storing
                  \/ sup = "connect"
                  \/ sup \in {"emit", "await"} /\ is_connected

\* From its registration on, a call without an outcome is in its map.
Registered ==
    \A c \in Calls :
        (call[c] \in {"load", "send", "fail", "wait", "expired"} /\ result[c] = "none")
            => <<reqId[c], c>> \in pending[Kind(c)]

DrainDue(k) == \E a \in Actors : pc[a] \in {"store", "api", k}

\* A caller that has loaded a handle and has no outcome holds the current one,
\* or the drain of its map is yet to come.
Attended ==
    \A c \in Calls :
        call[c] \in {"send", "wait"} =>
            tx[c] # 0 /\ (result[c] = "none" => writer = tx[c] \/ DrainDue(Kind(c)))

----------------------------------------------------------------------------
(* The tasks and the flag.                                                  *)

\* A task is not a close().
LEMMA TasksAreActors ==
  ASSUME NEW r \in Roles, NEW g \in Gens
  PROVE  <<r, g>> \in Actors /\ <<r, g>> \notin Closers
  BY ConstantsAssumption, SMT DEF Actors, Tasks

\* An actor that has started moves on, and takes the flag down before it ends
\* the current connection.
LEMMA SpawnedMove ==
  ASSUME TypeOK, Spawned, NEW a \in Actors, NEW to,
         pc[a] # "none", pc' = [pc EXCEPT ![a] = to],
         UNCHANGED <<sup, connection_generation, fired>>, is_connected' => is_connected,
         to \in Ended => \/ a \in Closers \/ pc[a] \in Ended \/ ~is_connected'
                         \/ a[2] # connection_generation
  PROVE  Spawned'
<1>1. pc \in [Actors -> ActorPcs]
  BY DEF TypeOK
<1>2. \A g \in Gens : Unborn(g) => Unborn(g)'
  BY <1>1, TasksAreActors DEF Unborn
<1>3. ASSUME sup = "await", is_connected', NEW r \in Roles
      PROVE  pc'[<<r, connection_generation>>] \notin Ended
  <2> DEFINE t == <<r, connection_generation>>
  <2>1. t \in Actors /\ t \notin Closers /\ t[2] = connection_generation
    BY <1>3, TasksAreActors DEF Spawned
  <2>2. pc[t] \notin Ended
    BY <1>3 DEF Spawned
  <2>3. CASE a = t
    BY <1>1, <1>3, <2>1, <2>2, <2>3
  <2>4. CASE a # t
    BY <1>1, <2>1, <2>2, <2>4
  <2> QED BY <2>3, <2>4
<1> QED BY <1>2, <1>3 DEF Spawned

\* Spawned only depends on the flag, the supervisor, the tasks and the signals.
LEMMA SpawnedFrame ==
  ASSUME Spawned, UNCHANGED <<is_connected, connection_generation, sup, fired, pc>>
  PROVE  Spawned'
  BY DEF Spawned, Unborn

\* The teardown keeps Spawned.
LEMMA SpawnedDisconnect ==
  ASSUME TypeOK, Spawned, NEW a \in Actors, HandleDisconnect(a)
  PROVE  Spawned'
<1> USE DEF Goto, flagVars, supVars
<1>1. CASE HdCheck(a)
  BY <1>1, SpawnedMove DEF HdCheck, Generation, Ended, Teardown
<1>2. CASE HdSwap(a)
  BY <1>2, SpawnedMove DEF HdSwap
<1>3. CASE HdStore(a)
  BY <1>3, SpawnedMove DEF HdStore, Ended, Teardown
<1>4. ASSUME NEW k \in Kinds, HdDrain(a, k) PROVE Spawned'
  BY <1>4, SpawnedMove DEF HdDrain, Ended, Teardown, Kinds
<1>5. CASE HdSignal(a)
  <2>1. pc[a] = "signal" /\ pc' = [pc EXCEPT ![a] = "done"]
        /\ UNCHANGED <<sup, connection_generation, is_connected>>
    BY <1>5 DEF HdSignal
  <2>2. pc[a] \in Ended /\ pc[a] # "none"
    BY <2>1 DEF Ended, Teardown
  <2>3. CASE a \in Closers
    <3>1. fired' = fired
      BY <1>5, <2>3 DEF HdSignal
    <3> QED BY <2>1, <2>2, <3>1, SpawnedMove
  <2>4. CASE a \notin Closers
    <3>1. PICK r \in Roles, g \in Gens : a = <<r, g>>
      BY <2>4, SMT DEF Actors, Tasks
    <3>2. fired' = fired \cup {g}
      BY <1>5, <2>4, <3>1 DEF HdSignal, Generation
    <3>3. ~Unborn(g)
      BY <2>1, <3>1 DEF Unborn
    <3>4. ~(sup = "await" /\ is_connected /\ g = connection_generation)
      BY <2>2, <3>1 DEF Spawned
    <3>5. pc \in [Actors -> ActorPcs]
      BY DEF TypeOK
    <3>6. \A h \in Gens : Unborn(h) => Unborn(h)'
      BY <2>1, <3>1, <3>2, <3>3, <3>5, TasksAreActors DEF Unborn
    <3>7. ASSUME sup = "await", is_connected, NEW q \in Roles
          PROVE  /\ pc'[<<q, connection_generation>>] \notin Ended
                 /\ connection_generation \notin fired'
      <4>1. <<q, connection_generation>> \in Actors /\ <<q, connection_generation>> # a
        BY <3>1, <3>4, <3>7, TasksAreActors DEF Spawned
      <4>2. pc'[<<q, connection_generation>>] = pc[<<q, connection_generation>>]
        BY <2>1, <3>5, <4>1
      <4> QED BY <3>2, <3>4, <3>7, <4>2 DEF Spawned
    <3>8. "writer" \in Roles
      BY DEF Roles
    <3> QED BY <2>1, <3>6, <3>7, <3>8 DEF Spawned
  <2> QED BY <2>3, <2>4
<1> QED BY <1>1, <1>2, <1>3, <1>4, <1>5 DEF HandleDisconnect

\* The tasks of a connection keep Spawned.
LEMMA SpawnedTask ==
  ASSUME TypeOK, Spawned, NEW g \in Gens,
         \/ WriterStep(g) \/ HeartbeatStep(g) \/ TaskSend("reader", g) \/ ReaderReply(g)
         \/ ReaderPing(g) \/ ReaderStop(g)
  PROVE  Spawned'
<1> USE DEF Goto, flagVars, supVars, Ended, Teardown
<1>1. \A r \in Roles : <<r, g>> \in Actors /\ <<r, g>>[2] = g
  BY TasksAreActors
<1>2. "writer" \in Roles /\ "heartbeat" \in Roles /\ "reader" \in Roles
  BY DEF Roles
<1>3. CASE WriterPop(g)
  <2>1. CASE UNCHANGED pc
    BY <1>3, <2>1, SpawnedFrame DEF WriterPop
  <2>2. CASE Goto(<<"writer", g>>, "check")
    BY <1>1, <1>2, <1>3, <2>2, SpawnedMove DEF WriterPop
  <2> QED BY <1>3, <2>1, <2>2 DEF WriterPop
<1>4. CASE WriterClose(g)
  BY <1>1, <1>2, <1>4, SpawnedMove DEF WriterClose
<1>5. CASE WriterStarved(g)
  BY <1>1, <1>2, <1>5, SpawnedMove DEF WriterStarved
<1>6. CASE HeartbeatTick(g)
  BY <1>1, <1>2, <1>6, SpawnedMove DEF HeartbeatTick
<1>7. ASSUME NEW r \in Roles, TaskSend(r, g) PROVE Spawned'
  BY <1>1, <1>7, SpawnedMove DEF TaskSend
<1>8. CASE ReaderReply(g)
  BY <1>8, SpawnedFrame DEF ReaderReply
<1>9. CASE ReaderPing(g)
  BY <1>1, <1>2, <1>9, SpawnedMove DEF ReaderPing
<1>10. CASE ReaderStop(g)
  BY <1>1, <1>2, <1>10, SpawnedMove DEF ReaderStop
<1> QED BY <1>2, <1>3, <1>4, <1>5, <1>6, <1>7, <1>8, <1>9, <1>10 DEF WriterStep, HeartbeatStep

\* The supervisor keeps Spawned.
LEMMA SpawnedSupervisor ==
  ASSUME TypeOK, Spawned, Supervisor
  PROVE  Spawned'
<1> USE DEF SupGoto, flagVars
<1>1. CASE SupTop \/ SupDial \/ SupStoreWriter \/ SupSetConnected \/ SupWake
           \/ SupAfter \/ SupSleep
  BY <1>1 DEF SupTop, SupDial, SupStoreWriter, SupSetConnected, SupWake, SupAfter,
     SupSleep, Spawned, Unborn
<1>2. CASE SupBump
  <2>1. connection_generation' = connection_generation + 1
        /\ connection_generation' \in Gens /\ connection_generation \in Nat
    BY <1>2, ConstantsAssumption, SMT DEF SupBump, TypeOK, Gens
  <2>2. \A g \in Gens : g \in Nat
    BY SMT DEF Gens
  <2> QED BY <1>2, <2>1, <2>2, SMT DEF SupBump, Spawned, Unborn
<1>3. CASE SupSpawn
  <2> DEFINE g == connection_generation
  <2>1. /\ sup = "emit" /\ sup' = "await" /\ g \in Gens /\ Unborn(g)
        /\ UNCHANGED <<is_connected, connection_generation, fired>>
    BY <1>3 DEF SupSpawn, Spawned
  <2>2. pc' = [a \in Actors |-> IF a \in Roles \X {g} THEN "run" ELSE pc[a]]
    BY <1>3 DEF SupSpawn
  <2>3. \A h \in Gens : h > g /\ Unborn(h) => Unborn(h)'
    <3>1. \A h \in Gens : h > g => h # g
      BY <2>1, SMT DEF Gens
    <3> QED BY <2>1, <2>2, <3>1, TasksAreActors DEF Unborn
  <2>4. \A r \in Roles : pc'[<<r, g>>] = "run"
    BY <2>1, <2>2, TasksAreActors
  <2>5. "run" \notin Ended
    BY DEF Ended, Teardown
  <2> QED BY <2>1, <2>3, <2>4, <2>5 DEF Spawned, Unborn
<1> QED BY <1>1, <1>2, <1>3 DEF Supervisor, SupStep

\* Every step keeps Spawned.
LEMMA SpawnedNext ==
  ASSUME TypeOK, Spawned, [Next]_vars
  PROVE  Spawned'
<1> USE DEF flagVars, supVars
<1>1. ASSUME NEW c \in Calls,
             CallCheck(c) \/ CallStep(c) \/ CallCancel(c) \/ ServerAnswer(c)
      PROVE  Spawned'
  BY <1>1, SpawnedFrame DEF CallCheck, CallStep, CallCancel, ServerAnswer, CallInsert,
     CallLoad, CallSend, CallFail, CallReturn, CallTimeout, CallExpire
<1>2. ASSUME NEW k \in Closers, CloseBegin(k) \/ CloseStep(k) PROVE Spawned'
  <2>1. k \in Actors
    BY DEF Actors
  <2> QED BY <1>2, <2>1, SpawnedMove, SMT
          DEF CloseBegin, CloseStep, CloseLoad, CloseSend, CloseGen, Goto
<1>3. CASE UNCHANGED vars
  BY <1>3, SpawnedFrame DEF vars
<1> QED BY <1>1, <1>2, <1>3, SpawnedDisconnect, SpawnedTask, SpawnedSupervisor DEF Next

\* Initially no task runs.
LEMMA SpawnedInit == Init => Spawned
  BY TasksAreActors DEF Init, Spawned, Unborn

\* While the client says it is connected, none of the three tasks that serve
\* the current connection has returned, for any number of connections.
THEOREM ConnectionIsServed == Spec => []ConnectedIsServed
<1>1. Spawned => ConnectedIsServed
  BY DEF Spawned, ConnectedIsServed, Ended
<1> QED BY <1>1, InitType, NextType, SpawnedInit, SpawnedNext, PTL DEF Spec

\* The flag is up only while the supervisor looks after the connection.
Claimed == is_connected => sup \in {"emit", "await"}

\* Every step keeps Claimed: the supervisor leaves a connection when its signal
\* was sent or its tasks have ended, and then the flag is down.
LEMMA ClaimedNext ==
  ASSUME TypeOK, Spawned, Claimed, [Next]_vars
  PROVE  Claimed'
<1> USE DEF flagVars, supVars
<1>1. CASE UNCHANGED sup /\ (is_connected' => is_connected)
  BY <1>1 DEF Claimed
<1>2. CASE Supervisor
  <2> USE DEF SupGoto
  <2>1. CASE SupWake
    <3>1. "writer" \in Roles /\ "done" \in Ended
      BY DEF Roles, Ended
    <3> QED BY <2>1, <3>1 DEF SupWake, Spawned, Claimed
  <2>2. CASE SupTop \/ SupBump \/ SupDial \/ SupStoreWriter \/ SupSetConnected
             \/ SupSpawn \/ SupAfter \/ SupSleep
    BY <2>2 DEF SupTop, SupBump, SupDial, SupStoreWriter, SupSetConnected, SupSpawn,
       SupAfter, SupSleep, Claimed
  <2> QED BY <1>2, <2>1, <2>2 DEF Supervisor, SupStep
<1>3. ASSUME NEW c \in Calls,
             CallCheck(c) \/ CallStep(c) \/ CallCancel(c) \/ ServerAnswer(c)
      PROVE  Claimed'
  BY <1>1, <1>3 DEF CallCheck, CallStep, CallCancel, ServerAnswer, CallInsert,
     CallLoad, CallSend, CallFail, CallReturn, CallTimeout, CallExpire
<1>4. ASSUME NEW a \in Actors, HandleDisconnect(a) PROVE Claimed'
  BY <1>1, <1>4 DEF HandleDisconnect, HdCheck, HdSwap, HdStore, HdSignal, HdDrain
<1>5. ASSUME NEW k \in Closers, CloseBegin(k) \/ CloseStep(k) PROVE Claimed'
  BY <1>1, <1>5 DEF CloseBegin, CloseStep, CloseLoad, CloseSend, CloseGen
<1>6. ASSUME NEW g \in Gens,
             \/ WriterStep(g) \/ HeartbeatStep(g) \/ TaskSend("reader", g) \/ ReaderReply(g)
             \/ ReaderPing(g) \/ ReaderStop(g)
      PROVE  Claimed'
  BY <1>1, <1>6 DEF WriterStep, WriterPop, WriterClose, WriterStarved, HeartbeatStep,
     HeartbeatTick, TaskSend, ReaderReply, ReaderPing, ReaderStop
<1>7. CASE UNCHANGED vars
  BY <1>1, <1>7 DEF vars
<1> QED BY <1>2, <1>3, <1>4, <1>5, <1>6, <1>7 DEF Next

\* A client whose supervisor has returned, which nothing will reconnect, does
\* not claim a connection.
THEOREM StoppedClaimsNothing == Spec => []StoppedIsDisconnected
<1>1. Init => Claimed
  BY DEF Init, Claimed
<1>2. Claimed => StoppedIsDisconnected
  BY DEF Claimed, StoppedIsDisconnected
<1> QED BY <1>1, <1>2, InitType, NextType, SpawnedInit, SpawnedNext, ClaimedNext, PTL
        DEF Spec

----------------------------------------------------------------------------
(* The published handle.                                                    *)

DrainsKept == (Storing => Storing') /\ \A k \in Kinds : DrainDue(k) => DrainDue(k)'

\* An actor outside the drains moves: the drains that are due stay due.
LEMMA DrainsMove ==
  ASSUME TypeOK, NEW a \in Actors, NEW to, pc' = [pc EXCEPT ![a] = to],
         pc[a] \notin {"store", "api", "event"}
  PROVE  DrainsKept
<1>1. \A b \in Actors : pc[b] \in {"store", "api", "event"} => pc'[b] = pc[b]
  BY DEF TypeOK
<1> QED BY <1>1 DEF DrainsKept, Storing, DrainDue, Kinds

\* Steps of the tasks and of close() outside handle_disconnect leave the drains.
LEMMA DrainsTask ==
  ASSUME TypeOK,
         \/ \E g \in Gens : \/ WriterStep(g) \/ HeartbeatStep(g) \/ TaskSend("reader", g) \/ ReaderReply(g)
                            \/ ReaderPing(g) \/ ReaderStop(g)
         \/ \E k \in Closers : CloseBegin(k) \/ CloseStep(k)
  PROVE  DrainsKept
<1> USE DEF Goto
<1>1. ASSUME UNCHANGED pc PROVE DrainsKept
  BY <1>1 DEF DrainsKept, Storing, DrainDue
<1>2. ASSUME NEW k \in Closers, CloseBegin(k) \/ CloseStep(k) PROVE DrainsKept
  <2>1. k \in Actors
    BY DEF Actors
  <2> QED BY <1>2, <2>1, DrainsMove
          DEF CloseBegin, CloseStep, CloseLoad, CloseSend, CloseGen
<1>3. ASSUME NEW g \in Gens,
             \/ WriterStep(g) \/ HeartbeatStep(g) \/ TaskSend("reader", g) \/ ReaderReply(g)
             \/ ReaderPing(g) \/ ReaderStop(g)
      PROVE  DrainsKept
  <2>1. <<"writer", g>> \in Actors /\ <<"heartbeat", g>> \in Actors
        /\ <<"reader", g>> \in Actors
    BY TasksAreActors DEF Roles
  <2>2. CASE WriterStep(g)
    BY <1>1, <2>1, <2>2, DrainsMove DEF WriterStep, WriterPop, WriterClose, WriterStarved
  <2>3. CASE HeartbeatStep(g) \/ TaskSend("reader", g)
    BY <2>1, <2>3, DrainsMove DEF HeartbeatStep, HeartbeatTick, TaskSend
  <2>4. CASE ReaderReply(g)
    BY <1>1, <2>4 DEF ReaderReply
  <2>5. CASE ReaderPing(g) \/ ReaderStop(g)
    BY <2>1, <2>5, DrainsMove DEF ReaderPing, ReaderStop
  <2> QED BY <1>3, <2>2, <2>3, <2>4, <2>5
<1> QED BY <1>2, <1>3

\* The supervisor starts tasks only where none were: the drains stay due.
LEMMA DrainsSupervisor ==
  ASSUME TypeOK, Spawned, Supervisor
  PROVE  DrainsKept
<1>1. CASE SupSpawn
  <2> DEFINE g == connection_generation
  <2>1. g \in Gens /\ Unborn(g)
    BY <1>1 DEF SupSpawn, SupGoto, Spawned
  <2>2. pc' = [a \in Actors |-> IF a \in Roles \X {g} THEN "run" ELSE pc[a]]
    BY <1>1 DEF SupSpawn
  <2>3. \A a \in Actors : pc[a] # "none" => pc'[a] = pc[a]
    BY <2>1, <2>2, SMT DEF Unborn
  <2> QED BY <2>3 DEF DrainsKept, Storing, DrainDue, Kinds
<1>2. CASE UNCHANGED pc
  BY <1>2 DEF DrainsKept, Storing, DrainDue
<1> QED BY <1>1, <1>2 DEF Supervisor, SupStep, SupTop, SupBump, SupDial, SupStoreWriter,
        SupSetConnected, SupWake, SupAfter, SupSleep

\* Published depends on the handle, the supervisor, the flag and the drains.
LEMMA PublishedFrame ==
  ASSUME Published, DrainsKept, UNCHANGED <<writer, sup, is_connected>>
  PROVE  Published'
  BY DEF Published, DrainsKept

\* The teardown keeps Published: whoever takes the flag down clears the handle.
LEMMA PublishedDisconnect ==
  ASSUME TypeOK, Published, NEW a \in Actors, HandleDisconnect(a)
  PROVE  Published'
<1> USE DEF Goto, flagVars, supVars
<1>1. CASE HdCheck(a)
  BY <1>1, DrainsMove, PublishedFrame DEF HdCheck
<1>2. CASE HdSwap(a)
  <2>1. CASE is_connected
    <3>1. pc' = [pc EXCEPT ![a] = "store"]
      BY <1>2, <2>1 DEF HdSwap
    <3>2. Storing'
      BY <3>1 DEF TypeOK, Storing
    <3> QED BY <3>2 DEF Published
  <2>2. CASE ~is_connected
    <3>1. DrainsKept
      BY <1>2, DrainsMove DEF HdSwap
    <3> QED BY <1>2, <2>2, <3>1 DEF HdSwap, Published, DrainsKept
  <2> QED BY <2>1, <2>2
<1>3. CASE HdStore(a)
  BY <1>3 DEF HdStore, Published
<1>4. ASSUME NEW k \in Kinds, HdDrain(a, k) PROVE Published'
  <2>1. \A b \in Actors : pc[b] = "store" => pc'[b] = "store"
    BY <1>4 DEF HdDrain, TypeOK, Kinds
  <2>2. Storing => Storing'
    BY <2>1 DEF Storing
  <2> QED BY <1>4, <2>2 DEF HdDrain, Published
<1>5. CASE HdSignal(a)
  BY <1>5, DrainsMove, PublishedFrame DEF HdSignal
<1> QED BY <1>1, <1>2, <1>3, <1>4, <1>5 DEF HandleDisconnect

\* The supervisor keeps Published: it leaves a connection only once its flag is
\* down, and publishes the next handle before it raises the flag.
LEMMA PublishedSupervisor ==
  ASSUME TypeOK, Spawned, Published, Supervisor
  PROVE  Published'
<1> USE DEF SupGoto, flagVars
<1>1. DrainsKept
  BY DrainsSupervisor
<1>2. CASE SupWake
  <2>1. sup = "await" /\ ~is_connected
    <3>1. "writer" \in Roles /\ "done" \in Ended
      BY DEF Roles, Ended
    <3> QED BY <1>2, <3>1 DEF SupWake, Spawned
  <2> QED BY <1>1, <1>2, <2>1 DEF SupWake, Published, DrainsKept
<1>3. CASE SupTop \/ SupBump \/ SupDial \/ SupStoreWriter \/ SupSetConnected
           \/ SupSpawn \/ SupAfter \/ SupSleep
  BY <1>1, <1>3 DEF SupTop, SupBump, SupDial, SupStoreWriter, SupSetConnected, SupSpawn,
     SupAfter, SupSleep, Published, DrainsKept
<1> QED BY <1>2, <1>3 DEF Supervisor, SupStep

\* Every step keeps Published.
LEMMA PublishedNext ==
  ASSUME TypeOK, Spawned, Published, [Next]_vars
  PROVE  Published'
<1> USE DEF flagVars, supVars
<1>1. CASE UNCHANGED <<writer, sup, is_connected, pc>>
  BY <1>1 DEF Published, Storing
<1>2. ASSUME NEW c \in Calls,
             CallCheck(c) \/ CallStep(c) \/ CallCancel(c) \/ ServerAnswer(c)
      PROVE  Published'
  BY <1>1, <1>2 DEF CallCheck, CallStep, CallCancel, ServerAnswer, CallInsert,
     CallLoad, CallSend, CallFail, CallReturn, CallTimeout, CallExpire
<1>3. ASSUME NEW k \in Closers, CloseBegin(k) \/ CloseStep(k) PROVE Published'
  BY <1>3, DrainsTask, PublishedFrame
  DEF CloseBegin, CloseStep, CloseLoad, CloseSend, CloseGen
<1>4. ASSUME NEW g \in Gens,
             \/ WriterStep(g) \/ HeartbeatStep(g) \/ TaskSend("reader", g) \/ ReaderReply(g)
             \/ ReaderPing(g) \/ ReaderStop(g)
      PROVE  Published'
  BY <1>4, DrainsTask, PublishedFrame
  DEF WriterStep, WriterPop, WriterClose, WriterStarved, HeartbeatStep, HeartbeatTick,
      TaskSend, ReaderReply, ReaderPing, ReaderStop
<1>5. CASE UNCHANGED vars
  BY <1>1, <1>5 DEF vars
<1> QED BY <1>2, <1>3, <1>4, <1>5, PublishedDisconnect, PublishedSupervisor DEF Next

----------------------------------------------------------------------------
(* The registration of a call.                                              *)

InProgress == {"load", "send", "fail", "wait", "expired"}

\* A call that only moves on stays registered.
LEMMA RegisteredMove ==
  ASSUME TypeOK, Registered, NEW c \in Calls, NEW to, CallGoto(c, to),
         UNCHANGED <<reqId, result, pending>>, to \in InProgress => call[c] \in InProgress
  PROVE  Registered'
<1>1. call' = [d \in Calls |-> IF d = c THEN to ELSE call[d]]
  BY DEF TypeOK, CallGoto
<1> QED BY <1>1 DEF Registered, InProgress

\* Removing the entry of a call that returns leaves every other one registered.
LEMMA RegisteredRemove ==
  ASSUME TypeOK, Correlation, Registered, NEW c \in Calls, NEW to, CallGoto(c, to),
         to \notin InProgress, UNCHANGED <<reqId, result>>, Remove(Kind(c), reqId[c])
  PROVE  Registered'
<1> SUFFICES ASSUME NEW d \in Calls, call'[d] \in InProgress, result'[d] = "none"
             PROVE  <<reqId[d], d>> \in pending'[Kind(d)]
  BY DEF Registered, InProgress
<1>1. call' = [f \in Calls |-> IF f = c THEN to ELSE call[f]]
  BY DEF TypeOK, CallGoto
<1>2. d # c /\ call[d] \in InProgress /\ result[d] = "none"
  BY <1>1
<1>3. Kind(d) \in Kinds /\ Kind(c) \in Kinds
  BY DEF Kind, Kinds
<1>4. <<reqId[d], d>> \in pending[Kind(d)]
  BY <1>2 DEF Registered, InProgress
<1>5. reqId[d] > 0
  BY <1>3, <1>4 DEF Correlation
<1>6. Kind(d) # Kind(c) \/ reqId[d] # reqId[c]
  BY <1>2, <1>5 DEF Correlation
<1> QED BY <1>3, <1>4, <1>6 DEF TypeOK, Remove, Entry

\* Steps of call() and send_event() keep Registered.
LEMMA RegisteredCall ==
  ASSUME TypeOK, Correlation, Registered, NEW c \in Calls,
         CallCheck(c) \/ CallStep(c) \/ CallCancel(c) \/ ServerAnswer(c)
  PROVE  Registered'
<1> USE DEF InProgress, mapVars, callVars
<1>1. CASE CallCheck(c)
  BY <1>1, RegisteredMove DEF CallCheck
<1>2. CASE CallInsert(c)
  <2> DEFINE k == Kind(c)
             id == next_id[k] + 1
  <2>1. result' = result /\ pending' = [pending EXCEPT ![k] = @ \cup {<<id, c>>}]
    BY <1>2, InsertFresh
  <2>2. k \in Kinds /\ \A d \in Calls : Kind(d) \in Kinds
    BY DEF Kind, Kinds
  <2>3. call' = [d \in Calls |-> IF d = c THEN "load" ELSE call[d]]
    BY <1>2 DEF TypeOK, CallInsert, CallGoto
  <2>4. reqId' = [d \in Calls |-> IF d = c THEN id ELSE reqId[d]]
    BY <1>2 DEF TypeOK, CallInsert
  <2>5. \A j \in Kinds : pending[j] \subseteq pending'[j]
    BY <2>1 DEF TypeOK
  <2>6. <<id, c>> \in pending'[k]
    BY <2>1, <2>2 DEF TypeOK
  <2> SUFFICES ASSUME NEW d \in Calls, call'[d] \in InProgress, result'[d] = "none"
               PROVE  <<reqId'[d], d>> \in pending'[Kind(d)]
    BY DEF Registered
  <2>7. CASE d = c
    BY <2>4, <2>6, <2>7
  <2>8. CASE d # c
    <3>1. <<reqId[d], d>> \in pending[Kind(d)]
      BY <2>1, <2>3, <2>8 DEF Registered
    <3> QED BY <2>2, <2>4, <2>5, <2>8, <3>1
  <2> QED BY <2>7, <2>8
<1>3. CASE CallLoad(c)
  BY <1>3, RegisteredMove DEF CallLoad
<1>4. CASE CallSend(c)
  BY <1>4, RegisteredMove DEF CallSend
<1>5. CASE CallFail(c)
  BY <1>5, RegisteredRemove DEF CallFail
<1>6. CASE CallReturn(c)
  BY <1>6, RegisteredMove DEF CallReturn
<1>7. CASE CallTimeout(c)
  BY <1>7, RegisteredMove DEF CallTimeout
<1>8. CASE CallExpire(c)
  BY <1>8, RegisteredRemove DEF CallExpire
<1>9. CASE CallCancel(c)
  BY <1>9, RegisteredMove DEF CallCancel
<1>10. CASE ServerAnswer(c)
  BY <1>10 DEF ServerAnswer, Registered
<1> QED BY <1>1, <1>2, <1>3, <1>4, <1>5, <1>6, <1>7, <1>8, <1>9, <1>10 DEF CallStep

\* Whoever takes an entry out of a map resolves its owner.
LEMMA RegisteredResolve ==
  ASSUME TypeOK, Registered, UNCHANGED <<call, reqId>>, NEW k \in Kinds,
         NEW E \in SUBSET pending[k], NEW v, v # "none",
         pending' = [pending EXCEPT ![k] = @ \ E], Resolve(Owners(E), v)
  PROVE  Registered'
<1> SUFFICES ASSUME NEW d \in Calls, call[d] \in InProgress, result'[d] = "none"
             PROVE  <<reqId[d], d>> \in pending'[Kind(d)]
  BY DEF Registered, InProgress
<1>1. result' = [f \in Calls |-> IF f \in Owners(E) THEN v ELSE result[f]]
  BY DEF Resolve
<1>2. result[d] = "none" /\ d \notin Owners(E)
  BY <1>1
<1>3. <<reqId[d], d>> \in pending[Kind(d)]
  BY <1>2 DEF Registered, InProgress
<1>4. \A e \in E : e[2] \in Owners(E)
  BY DEF Owners
<1>5. <<reqId[d], d>> \notin E
  BY <1>2, <1>4
<1>6. Kind(d) \in Kinds
  BY DEF Kind, Kinds
<1> QED BY <1>3, <1>5, <1>6 DEF TypeOK

\* Every step keeps Registered.
LEMMA RegisteredNext ==
  ASSUME TypeOK, Correlation, Registered, [Next]_vars
  PROVE  Registered'
<1> USE DEF mapVars, callVars
<1>1. CASE UNCHANGED <<call, reqId, result, pending>>
  BY <1>1 DEF Registered
<1>2. ASSUME NEW a \in Actors, HandleDisconnect(a) PROVE Registered'
  <2>1. ASSUME NEW k \in Kinds, HdDrain(a, k) PROVE Registered'
    <3>1. pending' = [pending EXCEPT ![k] = @ \ pending[k]]
      BY <2>1 DEF HdDrain
    <3> QED BY <2>1, <3>1, RegisteredResolve DEF HdDrain
  <2> QED BY <1>1, <1>2, <2>1 DEF HandleDisconnect, HdCheck, HdSwap, HdStore, HdSignal
<1>3. ASSUME NEW k \in Closers, CloseBegin(k) \/ CloseStep(k) PROVE Registered'
  BY <1>1, <1>3 DEF CloseBegin, CloseStep, CloseLoad, CloseSend, CloseGen
<1>4. CASE Supervisor
  BY <1>1, <1>4 DEF Supervisor, SupStep, SupTop, SupBump, SupDial, SupStoreWriter,
     SupSetConnected, SupSpawn, SupWake, SupAfter, SupSleep
<1>5. ASSUME NEW g \in Gens, ReaderReply(g) PROVE Registered'
  <2>1. PICK c \in Calls :
          \/ /\ Remove(Kind(c), reqId[c])
             /\ Resolve(Owners(Entry(Kind(c), reqId[c])), c)
          \/ UNCHANGED <<pending, result>>
    BY <1>5 DEF ReaderReply
  <2>2. UNCHANGED <<call, reqId>>
    BY <1>5 DEF ReaderReply
  <2>3. Kind(c) \in Kinds /\ c # "none"
    BY ConstantsAssumption DEF Kind, Kinds, Unanswered
  <2>4. Entry(Kind(c), reqId[c]) \in SUBSET pending[Kind(c)]
    BY DEF Entry
  <2> QED BY <1>1, <2>1, <2>2, <2>3, <2>4, RegisteredResolve DEF Remove
<1>6. ASSUME NEW g \in Gens, WriterStep(g) \/ HeartbeatStep(g) \/ TaskSend("reader", g) \/ ReaderPing(g) \/ ReaderStop(g)
      PROVE  Registered'
  BY <1>1, <1>6 DEF WriterStep, WriterPop, WriterClose, WriterStarved, HeartbeatStep,
     HeartbeatTick, TaskSend, ReaderPing, ReaderStop
<1>7. CASE UNCHANGED vars
  BY <1>1, <1>7 DEF vars
<1> QED BY <1>2, <1>3, <1>4, <1>5, <1>6, <1>7, RegisteredCall DEF Next

----------------------------------------------------------------------------
(* No waiter is left behind.                                                *)

\* While the handle and the due drains stay, so do the callers they serve.
LEMMA AttendedFrame ==
  ASSUME Attended, DrainsKept, UNCHANGED <<writer, call, tx>>,
         \A d \in Calls : result'[d] = "none" => result[d] = "none"
  PROVE  Attended'
<1>1. \A d \in Calls : Kind(d) \in Kinds
  BY DEF Kind, Kinds
<1> QED BY <1>1 DEF Attended, DrainsKept

\* A call that moves on keeps the handle it has loaded.
LEMMA AttendedMove ==
  ASSUME TypeOK, Attended, NEW c \in Calls, NEW to, CallGoto(c, to),
         UNCHANGED <<writer, pc, tx, result>>,
         to \in {"send", "wait"} => call[c] \in {"send", "wait"}
  PROVE  Attended'
<1>1. call' = [d \in Calls |-> IF d = c THEN to ELSE call[d]]
  BY DEF TypeOK, CallGoto
<1> QED BY <1>1 DEF Attended, DrainDue

\* Steps of call() and send_event() keep Attended.
LEMMA AttendedCall ==
  ASSUME TypeOK, Correlation, Attended, NEW c \in Calls,
         CallCheck(c) \/ CallStep(c) \/ CallCancel(c) \/ ServerAnswer(c)
  PROVE  Attended'
<1> USE DEF flagVars, callVars
<1>1. CASE CallCheck(c)
  BY <1>1, AttendedMove DEF CallCheck
<1>2. CASE CallInsert(c)
  BY <1>2, InsertFresh, AttendedMove DEF CallInsert
<1>3. CASE CallLoad(c)
  <2>1. call' = [d \in Calls |-> IF d = c THEN IF writer = 0 THEN "fail" ELSE "send"
                                 ELSE call[d]]
    BY <1>3 DEF TypeOK, CallLoad, CallGoto
  <2>2. tx' = [d \in Calls |-> IF d = c THEN writer ELSE tx[d]]
    BY <1>3 DEF TypeOK, CallLoad
  <2>3. UNCHANGED <<writer, pc, result>>
    BY <1>3 DEF CallLoad
  <2> QED BY <2>1, <2>2, <2>3 DEF Attended, DrainDue
<1>4. CASE CallSend(c)
  BY <1>4, AttendedMove DEF CallSend
<1>5. CASE CallFail(c) \/ CallReturn(c) \/ CallTimeout(c) \/ CallExpire(c) \/ CallCancel(c)
  BY <1>5, AttendedMove DEF CallFail, CallReturn, CallTimeout, CallExpire, CallCancel
<1>6. CASE ServerAnswer(c)
  BY <1>6 DEF ServerAnswer, Attended, DrainDue
<1> QED BY <1>1, <1>2, <1>3, <1>4, <1>5, <1>6 DEF CallStep

\* handle_disconnect keeps Attended: the handle is cleared before the maps are
\* drained, and a drain resolves every call registered in its map.
LEMMA AttendedDisconnect ==
  ASSUME TypeOK, Correlation, Registered, Attended, NEW a \in Actors, HandleDisconnect(a)
  PROVE  Attended'
<1> USE DEF Goto, flagVars, callVars
<1>1. CASE HdCheck(a) \/ HdSwap(a) \/ HdSignal(a)
  BY <1>1, DrainsMove, AttendedFrame DEF HdCheck, HdSwap, HdSignal
<1>2. CASE HdStore(a)
  <2>1. pc'[a] = "api" /\ UNCHANGED <<call, tx, result>>
    BY <1>2 DEF TypeOK, HdStore
  <2>2. \A k : DrainDue(k)'
    BY <2>1 DEF DrainDue
  <2> QED BY <2>1, <2>2 DEF Attended
<1>3. ASSUME NEW k \in Kinds, HdDrain(a, k) PROVE Attended'
  <2>1. UNCHANGED <<writer, call, tx>>
    BY <1>3 DEF HdDrain
  <2>2. result' = [d \in Calls |-> IF d \in Owners(pending[k]) THEN "closed" ELSE result[d]]
    BY <1>3 DEF HdDrain, Resolve
  <2>3. pc[a] = k /\ pc' = [pc EXCEPT ![a] = IF k = "api" THEN "event" ELSE "signal"]
    BY <1>3 DEF HdDrain
  <2> SUFFICES ASSUME NEW d \in Calls, call[d] \in {"send", "wait"}, result'[d] = "none",
                      writer # tx[d]
               PROVE  DrainDue(Kind(d))'
    BY <2>1, <2>2 DEF Attended
  <2>4. result[d] = "none" /\ d \notin Owners(pending[k])
    BY <2>2
  <2>5. <<reqId[d], d>> \in pending[Kind(d)]
    BY <2>4 DEF Registered
  <2>6. Kind(d) # k
    BY <2>4, <2>5, SMT DEF Owners
  <2>7. PICK b \in Actors : pc[b] \in {"store", "api", Kind(d)}
    BY <2>4 DEF Attended, DrainDue
  <2>8. CASE k = "api"
    <3>1. Kind(d) = "event" /\ pc'[a] = "event"
      BY <2>3, <2>6, <2>8 DEF TypeOK, Kind, Kinds
    <3> QED BY <3>1 DEF DrainDue
  <2>9. CASE k = "event"
    <3>1. Kind(d) = "api" /\ pc'[b] = pc[b]
      BY <2>3, <2>6, <2>7, <2>9 DEF TypeOK, Kind, Kinds
    <3> QED BY <2>7, <3>1 DEF DrainDue
  <2> QED BY <2>8, <2>9 DEF Kinds
<1> QED BY <1>1, <1>2, <1>3 DEF HandleDisconnect

\* The supervisor keeps Attended: it publishes a handle only over an empty
\* one, or while the drains of the previous connection are still due.
LEMMA AttendedSupervisor ==
  ASSUME TypeOK, Spawned, Published, Attended, Supervisor
  PROVE  Attended'
<1> USE DEF flagVars, callVars
<1>1. DrainsKept
  BY DrainsSupervisor
<1>2. CASE SupStoreWriter
  <2>1. sup = "publish" /\ UNCHANGED <<call, tx, result>>
    BY <1>2 DEF SupStoreWriter, SupGoto
  <2>2. writer = 0 \/ Storing'
    BY <1>1, <2>1 DEF Published, DrainsKept
  <2>3. \A d \in Calls : Kind(d) \in Kinds
    BY DEF Kind, Kinds
  <2>4. Storing' => \A d \in Calls : DrainDue(Kind(d))'
    BY DEF Storing, DrainDue
  <2> QED BY <1>1, <2>1, <2>2, <2>3, <2>4 DEF Attended, DrainsKept
<1>3. CASE UNCHANGED <<writer, call, tx, result>>
  BY <1>1, <1>3, AttendedFrame
<1> QED BY <1>2, <1>3 DEF Supervisor, SupStep, SupTop, SupBump, SupDial, SupSetConnected,
        SupSpawn, SupWake, SupAfter, SupSleep

\* Every step keeps Attended.
LEMMA AttendedNext ==
  ASSUME TypeOK, Correlation, Spawned, Published, Registered, Attended, [Next]_vars
  PROVE  Attended'
<1> USE DEF flagVars, callVars
<1>1. ASSUME NEW k \in Closers, CloseBegin(k) \/ CloseStep(k) PROVE Attended'
  BY <1>1, DrainsTask, AttendedFrame
  DEF CloseBegin, CloseStep, CloseLoad, CloseSend, CloseGen
<1>2. ASSUME NEW g \in Gens, ReaderReply(g) PROVE Attended'
  <2>1. PICK c \in Calls : \/ Resolve(Owners(Entry(Kind(c), reqId[c])), c)
                           \/ result' = result
    BY <1>2 DEF ReaderReply
  <2>2. c # "none"
    BY ConstantsAssumption DEF Unanswered
  <2>3. \A d \in Calls : result'[d] = "none" => result[d] = "none"
    BY <2>1, <2>2 DEF Resolve
  <2>4. UNCHANGED <<writer, call, tx>>
    BY <1>2 DEF ReaderReply
  <2> QED BY <1>2, <2>3, <2>4, DrainsTask, AttendedFrame
<1>3. ASSUME NEW g \in Gens, WriterStep(g) \/ HeartbeatStep(g) \/ TaskSend("reader", g) \/ ReaderPing(g) \/ ReaderStop(g)
      PROVE  Attended'
  BY <1>3, DrainsTask, AttendedFrame
  DEF WriterStep, WriterPop, WriterClose, WriterStarved, HeartbeatStep, HeartbeatTick,
      TaskSend, ReaderPing, ReaderStop
<1>4. CASE UNCHANGED vars
  BY <1>4 DEF vars, Attended, DrainDue
<1> QED BY <1>1, <1>2, <1>3, <1>4, AttendedCall, AttendedDisconnect, AttendedSupervisor
        DEF Next

WaiterInv == TypeOK /\ Correlation /\ Spawned /\ Published /\ Registered /\ Attended

\* A fresh client satisfies all of them.
LEMMA WaiterInit == Init => WaiterInv
<1>1. Init => Published /\ Registered /\ Attended
  BY DEF Init, Published, Registered, Attended
<1> QED BY <1>1, InitType, CorrelationInit, SpawnedInit DEF WaiterInv

\* A caller waiting for its answer waits on the connection in use, or the drain
\* of its map is yet to come: store-None-then-drain against insert-then-load
\* leaves no waiter behind, for any number of calls, closes and connections.
THEOREM NoWaiterIsOrphaned == Spec => []NoOrphanedWaiter
<1>1. WaiterInv /\ [Next]_vars => WaiterInv'
  BY NextType, CorrelationNext, SpawnedNext, PublishedNext, RegisteredNext, AttendedNext
  DEF WaiterInv
<1>2. WaiterInv => NoOrphanedWaiter
  BY DEF WaiterInv, Attended, DrainDue, NoOrphanedWaiter
<1> QED BY <1>1, <1>2, WaiterInit, PTL DEF Spec

----------------------------------------------------------------------------
(* The tasks of a connection run at most one teardown between them while it *)
(* is the current one, and that teardown is over before the next dial.      *)

\* A task of the current connection that takes it down does so alone, with the
\* flag lowered and the signal to come, while the supervisor waits for it.  A
\* task of an older connection may be in its teardown at any time.
Orderly ==
    /\ \A t \in Tasks :
          (t[2] = connection_generation /\ pc[t] \in Teardown) =>
              sup = "await" /\ ~is_connected /\ connection_generation \notin fired
    /\ \A t, u \in Tasks :
          ( /\ t[2] = connection_generation /\ pc[t] \in Teardown
            /\ u[2] = connection_generation /\ pc[u] \in Teardown ) => t = u
    /\ sup \in {"dial", "publish", "connect"} =>
          \A t \in Tasks : t[2] + 1 = connection_generation => pc[t] \notin Teardown

\* Nothing enters a teardown, and the flag is not raised.
LEMMA OrderlyMove ==
  ASSUME Orderly, \A t \in Tasks : pc'[t] \in Teardown => pc[t] \in Teardown,
         UNCHANGED <<sup, connection_generation, fired>>, is_connected' => is_connected
  PROVE  Orderly'
  BY DEF Orderly

\* An actor that moves anywhere but into a teardown lets nothing into one.
LEMMA NobodyEnters ==
  ASSUME TypeOK, NEW a \in Actors, NEW to, pc' = [pc EXCEPT ![a] = to],
         to \in Teardown => pc[a] \in Teardown
  PROVE  \A t \in Tasks : pc'[t] \in Teardown => pc[t] \in Teardown
<1>1. pc' = [b \in Actors |-> IF b = a THEN to ELSE pc[b]]
  BY DEF TypeOK
<1> QED BY <1>1 DEF Actors

\* handle_disconnect keeps Orderly: the swap lets one task of a connection in.
LEMMA OrderlyDisconnect ==
  ASSUME TypeOK, Spawned, Claimed, Orderly, NEW a \in Actors, HandleDisconnect(a)
  PROVE  Orderly'
<1> USE DEF Goto, flagVars, supVars, closeVars
<1>1. pc \in [Actors -> ActorPcs] /\ \A t \in Tasks : t \in Actors /\ t \notin Closers
  BY ConstantsAssumption DEF TypeOK, Actors
<1>2. UNCHANGED <<sup, connection_generation>> /\ (is_connected' => is_connected)
  <2>1. UNCHANGED <<sup, connection_generation>>
    BY DEF HandleDisconnect, HdCheck, HdSwap, HdStore, HdSignal, HdDrain
  <2>2. ASSUME HdSwap(a) PROVE ~is_connected'
    BY <2>2 DEF HdSwap
  <2>3. ASSUME ~HdSwap(a) PROVE is_connected' = is_connected
    BY <2>3 DEF HandleDisconnect, HdCheck, HdStore, HdSignal, HdDrain
  <2> QED BY ONLY <2>1, <2>2, <2>3
<1>3. CASE HdCheck(a)
  BY <1>2, <1>3, OrderlyMove, NobodyEnters DEF HdCheck, Teardown
<1>4. CASE HdSwap(a)
  <2>1. CASE ~is_connected
    BY <1>2, <1>4, <2>1, OrderlyMove, NobodyEnters DEF HdSwap, Teardown
  <2>2. CASE is_connected
    <3>1. /\ pc[a] = "swap" /\ pc' = [pc EXCEPT ![a] = "store"]
          /\ fired' = fired /\ ~is_connected'
      BY <1>4, <2>2 DEF HdSwap
    <3>2. sup \in {"emit", "await"}
      BY <2>2 DEF Claimed
    <3>3. \A t \in Tasks : t[2] = connection_generation => pc[t] \notin Teardown
      BY <2>2 DEF Orderly
    <3>4. \A t \in Tasks :
             (t[2] = connection_generation /\ pc'[t] \in Teardown) => t = a
      BY <1>1, <3>1, <3>3
    <3>5. ASSUME a \in Tasks, a[2] = connection_generation
          PROVE  sup = "await" /\ connection_generation \notin fired
      <4>1. PICK r \in Roles : a = <<r, connection_generation>>
        BY <3>5, SMT DEF Tasks
      <4>2. connection_generation \in Gens
        BY <3>2 DEF Spawned
      <4>3. sup # "emit"
        BY <3>1, <4>1, <4>2 DEF Spawned, Unborn
      <4> QED BY <2>2, <3>2, <4>3 DEF Spawned
    <3> QED BY <1>2, <3>1, <3>2, <3>4, <3>5 DEF Orderly
  <2> QED BY <2>1, <2>2
<1>5. CASE HdStore(a)
  BY <1>2, <1>5, OrderlyMove, NobodyEnters DEF HdStore, Teardown
<1>6. ASSUME NEW k \in Kinds, HdDrain(a, k) PROVE Orderly'
  BY <1>2, <1>6, OrderlyMove, NobodyEnters DEF HdDrain, Teardown, Kinds
<1>7. CASE HdSignal(a)
  <2>1. pc[a] = "signal" /\ pc' = [pc EXCEPT ![a] = "done"]
    BY <1>7 DEF HdSignal
  <2>2. \A t \in Tasks : pc'[t] \in Teardown => pc[t] \in Teardown /\ t # a
    BY <1>1, <2>1 DEF Teardown
  <2>3. CASE a \in Closers
    BY <1>2, <1>7, <2>2, <2>3, OrderlyMove DEF HdSignal
  <2>4. CASE a \in Tasks
    <3>1. fired' = fired \cup {a[2]}
      BY <1>1, <1>7, <2>4 DEF HdSignal, Generation
    <3>2. a[2] = connection_generation =>
             \A t \in Tasks : t[2] = connection_generation => pc'[t] \notin Teardown
      BY <2>1, <2>2, <2>4 DEF Orderly, Teardown
    <3>3. CASE a[2] = connection_generation
      BY <1>2, <2>2, <3>2, <3>3 DEF Orderly
    <3>4. CASE a[2] # connection_generation
      BY <1>2, <2>2, <3>1, <3>4 DEF Orderly
    <3> QED BY <3>3, <3>4
  <2> QED BY <2>3, <2>4 DEF Actors
<1> QED BY <1>3, <1>4, <1>5, <1>6, <1>7 DEF HandleDisconnect

\* The supervisor keeps Orderly: what it waits for, the signal or the end of the
\* tasks, ends the one teardown of the connection it served.
LEMMA OrderlySupervisor ==
  ASSUME TypeOK, Spawned, Orderly, Supervisor
  PROVE  Orderly'
<1> USE DEF SupGoto, flagVars, closeVars
<1>1. \A t \in Tasks : t \in Actors /\ t \notin Closers
  BY ConstantsAssumption DEF Actors
<1>2. fired' = fired
  BY DEF Supervisor, SupStep, SupTop, SupBump, SupDial, SupStoreWriter, SupSetConnected, SupSpawn,
     SupWake, SupAfter, SupSleep
<1>3. CASE SupTop \/ SupAfter \/ SupSleep
  <2>1. /\ sup # "await" /\ pc' = pc /\ connection_generation' = connection_generation
        /\ sup' \notin {"dial", "publish", "connect"}
    BY <1>3 DEF SupTop, SupAfter, SupSleep
  <2> QED BY <2>1 DEF Orderly
<1>4. CASE SupBump
  <2>1. /\ sup = "bump" /\ pc' = pc /\ sup' = "dial"
        /\ connection_generation' = connection_generation + 1
    BY <1>4 DEF SupBump
  <2>2. \A t \in Tasks : t[2] = connection_generation => pc[t] \notin Teardown
    BY <2>1 DEF Orderly
  <2>3. connection_generation \in Nat /\ \A t \in Tasks : t[2] \in Nat
    BY SMT DEF TypeOK, Tasks, Gens
  <2>4. \A t \in Tasks : t[2] + 1 = connection_generation' => t[2] = connection_generation
    BY ONLY <2>1, <2>3, SMT
  <2>5. ASSUME NEW t \in Tasks, t[2] = connection_generation' PROVE pc'[t] \notin Teardown
    <3>1. PICK r \in Roles, g \in Gens : t = <<r, g>> /\ g = connection_generation'
      BY <2>5, SMT DEF Tasks
    <3>2. g > connection_generation
      BY ONLY <2>1, <2>3, <3>1, SMT
    <3>3. pc[t] = "none"
      BY <3>1, <3>2 DEF Spawned, Unborn
    <3> QED BY <2>1, <3>3 DEF Teardown
  <2> QED BY <2>1, <2>2, <2>4, <2>5 DEF Orderly
<1>5. CASE SupDial
  <2>1. /\ sup = "dial" /\ pc' = pc /\ connection_generation' = connection_generation
        /\ sup' \in {"publish", "stopped", "after"}
    BY <1>5 DEF SupDial
  <2> QED BY <2>1 DEF Orderly
<1>6. CASE SupStoreWriter \/ SupSetConnected
  <2>1. /\ sup \in {"publish", "connect"} /\ sup' \in {"connect", "emit"} /\ pc' = pc
        /\ connection_generation' = connection_generation
    BY <1>6 DEF SupStoreWriter, SupSetConnected
  <2> QED BY <1>2, <2>1 DEF Orderly
<1>7. CASE SupSpawn
  <2>1. /\ sup = "emit" /\ sup' = "await"
        /\ connection_generation' = connection_generation
    BY <1>7 DEF SupSpawn
  <2>2. \A a \in Actors : pc'[a] \in {"run", pc[a]}
    BY <1>7 DEF SupSpawn
  <2>3. \A t \in Tasks : t[2] = connection_generation => pc'[t] \notin Teardown
    BY <1>1, <2>1, <2>2 DEF Orderly, Teardown
  <2> QED BY <2>1, <2>3 DEF Orderly
<1>8. CASE SupWake
  <2>1. /\ sup' = "after" /\ pc' = pc /\ connection_generation' = connection_generation
    BY <1>8 DEF SupWake
  <2>2. ASSUME NEW t \in Tasks, t[2] = connection_generation PROVE pc[t] \notin Teardown
    <3>1. PICK r \in Roles : t = <<r, connection_generation>>
      BY <2>2, SMT DEF Tasks
    <3>2. connection_generation \in fired \/ pc[t] = "done"
      BY <1>8, <3>1 DEF SupWake
    <3> QED BY <2>2, <3>2 DEF Orderly, Teardown
  <2> QED BY <2>1, <2>2 DEF Orderly
<1> QED BY <1>3, <1>4, <1>5, <1>6, <1>7, <1>8 DEF Supervisor, SupStep

\* The tasks of a connection keep Orderly: they reach handle_disconnect only at
\* its check.
LEMMA OrderlyTask ==
  ASSUME TypeOK, Orderly, NEW g \in Gens,
         \/ WriterStep(g) \/ HeartbeatStep(g) \/ TaskSend("reader", g) \/ ReaderReply(g)
         \/ ReaderPing(g) \/ ReaderStop(g)
  PROVE  Orderly'
<1> USE DEF Goto, flagVars, supVars, closeVars
<1>1. <<"writer", g>> \in Actors /\ <<"heartbeat", g>> \in Actors
      /\ <<"reader", g>> \in Actors
  BY TasksAreActors DEF Roles
<1>2. UNCHANGED <<sup, connection_generation, fired, is_connected>>
  BY DEF WriterStep, WriterPop, WriterClose, WriterStarved, HeartbeatStep, HeartbeatTick,
     TaskSend, ReaderReply, ReaderPing, ReaderStop
<1>3. \/ pc' = pc
      \/ \E a \in Actors, to \in {"run", "send", "check", "done"} :
            pc' = [pc EXCEPT ![a] = to]
  BY <1>1 DEF WriterStep, WriterPop, WriterClose, WriterStarved, HeartbeatStep, HeartbeatTick,
     TaskSend, ReaderReply, ReaderPing, ReaderStop
<1>4. \A to \in {"run", "send", "check", "done"} : to \notin Teardown
  BY DEF Teardown
<1>5. \A t \in Tasks : pc'[t] \in Teardown => pc[t] \in Teardown
  BY <1>3, <1>4, NobodyEnters
<1> QED BY <1>2, <1>5, OrderlyMove

\* Every step keeps Orderly.
LEMMA OrderlyNext ==
  ASSUME TypeOK, Spawned, Claimed, Orderly, [Next]_vars
  PROVE  Orderly'
<1> USE DEF flagVars, supVars, closeVars
<1>1. ASSUME NEW c \in Calls,
             CallCheck(c) \/ CallStep(c) \/ CallCancel(c) \/ ServerAnswer(c)
      PROVE  Orderly'
  <2>1. UNCHANGED <<sup, connection_generation, fired, is_connected, pc>>
    BY <1>1 DEF CallCheck, CallStep, CallCancel, ServerAnswer, CallInsert,
       CallLoad, CallSend, CallFail, CallReturn, CallTimeout, CallExpire
  <2> QED BY <2>1, OrderlyMove
<1>2. ASSUME NEW k \in Closers, CloseBegin(k) \/ CloseStep(k) PROVE Orderly'
  <2>1. k \in Actors
    BY DEF Actors
  <2>2. UNCHANGED <<sup, connection_generation, fired, is_connected>>
    BY <1>2 DEF CloseBegin, CloseStep, CloseLoad, CloseSend, CloseGen
  <2>3. \E to \in {"load", "gen", "send", "check"} : pc' = [pc EXCEPT ![k] = to]
    BY <1>2 DEF CloseBegin, CloseStep, CloseLoad, CloseSend, CloseGen, Goto
  <2>4. \A to \in {"load", "gen", "send", "check"} : to \notin Teardown
    BY DEF Teardown
  <2> QED BY <2>1, <2>2, <2>3, <2>4, OrderlyMove, NobodyEnters
<1>3. CASE UNCHANGED vars
  BY <1>3, OrderlyMove DEF vars
<1> QED BY <1>1, <1>2, <1>3, OrderlyDisconnect, OrderlyTask, OrderlySupervisor DEF Next

\* When the next connection is published, no task of the one before it is still
\* running its on_disconnected handlers: the supervisor waits for the signal,
\* or for the ends of all three tasks, and the swap admits one task.  Nothing is
\* assumed of how long a task stalls or a dial takes.
THEOREM TeardownsPrecede == Spec => []TeardownBeforeReconnect
<1> DEFINE Inv == TypeOK /\ Spawned /\ Claimed /\ Orderly
<1>1. Init => Inv
  <2>1. Init => Claimed
    BY DEF Init, Claimed
  <2>2. Init => Orderly
    BY ConstantsAssumption DEF Init, Orderly, Actors, Teardown
  <2> QED BY <2>1, <2>2, InitType, SpawnedInit
<1>2. Inv /\ [Next]_vars => Inv'
  BY NextType, SpawnedNext, ClaimedNext, OrderlyNext
<1>3. Inv => TeardownBeforeReconnect
  BY DEF Orderly, TeardownBeforeReconnect
<1> QED BY <1>1, <1>2, <1>3, PTL DEF Spec
=============================================================================
