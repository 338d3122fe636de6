------------------------ MODULE ClientSessionProofs ------------------------
(***************************************************************************)
(* Machine-checked safety of ClientSession, for any number of calls,       *)
(* close() invocations, connections, faults and any queue capacity.        *)
(***************************************************************************)
EXTENDS ClientSession, TLAPS

\* Leaves are first-order reasoning unless they name SMT.
USE Zenon

\* The initial state of WscallClient is well typed.
LEMMA InitType == Init => TypeOK
<1> SUFFICES ASSUME Init PROVE TypeOK
  OBVIOUS
<1>1. 0 \in 0 .. MaxGen /\ 0 \in 0 .. MaxFaults
  BY ConstantsAssumption, SMT
<1>2. pc \in [Actors -> ActorPcs]
  BY DEF Init, ActorPcs
<1>3. queue \in [Gens -> Seq(Calls \cup Control)]
  BY SMT DEF Init
<1>4. pending \in [Kinds -> SUBSET (Nat \X Calls)]
  BY DEF Init
<1>5. result \in [Calls -> Calls \cup Unanswered]
  BY DEF Init, Unanswered
<1> QED BY <1>1, <1>2, <1>3, <1>4, <1>5 DEF Init, TypeOK, CallPcs, Stages, SupPcs

\* A send keeps the channels sequences of requests and control frames.
LEMMA EnqueueType ==
  ASSUME TypeOK, NEW g, NEW m \in Calls \cup Control, Enqueue(g, m)
  PROVE  queue' \in [Gens -> Seq(Calls \cup Control)]
<1>1. CASE g \in Gens
  <2>1. Append(queue[g], m) \in Seq(Calls \cup Control)
    BY <1>1, SMT DEF TypeOK
  <2> QED BY <1>1, <2>1 DEF TypeOK, Enqueue
<1>2. CASE g \notin Gens
  BY <1>2 DEF TypeOK, Enqueue
<1> QED BY <1>1, <1>2

\* Steps of call() and send_event() preserve the type invariant.
LEMMA CallType ==
  ASSUME TypeOK, NEW c \in Calls,
         CallCheck(c) \/ CallStep(c) \/ CallCancel(c) \/ ServerAnswer(c)
  PROVE  TypeOK'
<1> USE DEF CallGoto, CallPcs, Returned, flagVars, mapVars, supVars, closeVars,
            callVars, netVars
<1>1. CASE CallCheck(c)
  BY <1>1 DEF TypeOK, CallCheck
<1>2. CASE CallInsert(c)
  <2>1. Kind(c) \in Kinds
    BY DEF Kind, Kinds
  <2>2. next_id[Kind(c)] + 1 \in Nat
    BY <2>1, SMT DEF TypeOK
  <2> DEFINE k == Kind(c)
             id == next_id[k] + 1
             D == Owners(Entry(k, id))
  <2>3. pending' \in [Kinds -> SUBSET (Nat \X Calls)]
    BY <1>2, <2>1, <2>2, SMT DEF TypeOK, CallInsert, Entry
  <2>4. result' \in [Calls -> Calls \cup Unanswered]
    BY <1>2 DEF TypeOK, CallInsert, Resolve, Unanswered
  <2> QED BY <1>2, <2>1, <2>2, <2>3, <2>4 DEF TypeOK, CallInsert
<1>3. CASE CallLoad(c)
  BY <1>3 DEF TypeOK, CallLoad
<1>4. CASE CallSend(c)
  <2>1. queue' \in [Gens -> Seq(Calls \cup Control)]
    BY <1>4, EnqueueType DEF CallSend, TypeOK
  <2> QED BY <1>4, <2>1 DEF TypeOK, CallSend
<1>5. CASE CallFail(c)
  BY <1>5 DEF TypeOK, CallFail, Remove, Kind, Kinds
<1>6. CASE CallReturn(c)
  BY <1>6 DEF TypeOK, CallReturn
<1>7. CASE CallTimeout(c)
  BY <1>7 DEF TypeOK, CallTimeout
<1>8. CASE CallExpire(c)
  BY <1>8 DEF TypeOK, CallExpire, Remove, Kind, Kinds
<1>9. CASE CallCancel(c)
  BY <1>9, ConstantsAssumption, SMT DEF TypeOK, CallCancel, Fault
<1>10. CASE ServerAnswer(c)
  BY <1>10 DEF TypeOK, ServerAnswer, Stages
<1> QED BY <1>1, <1>2, <1>3, <1>4, <1>5, <1>6, <1>7, <1>8, <1>9, <1>10 DEF CallStep

\* Steps of handle_disconnect preserve the type invariant.
LEMMA DisconnectType ==
  ASSUME TypeOK, NEW a \in Actors, HandleDisconnect(a)
  PROVE  TypeOK'
<1> USE DEF Goto, ActorPcs, Teardown, flagVars, mapVars, supVars, closeVars,
            callVars, netVars
<1>1. CASE HdCheck(a)
  BY <1>1 DEF TypeOK, HdCheck
<1>2. CASE HdSwap(a)
  BY <1>2 DEF TypeOK, HdSwap
<1>3. CASE HdStore(a)
  BY <1>3, ConstantsAssumption, SMT DEF TypeOK, HdStore
<1>4. ASSUME NEW k \in Kinds, HdDrain(a, k) PROVE TypeOK'
  <2>1. result' \in [Calls -> Calls \cup Unanswered]
    BY <1>4 DEF TypeOK, HdDrain, Resolve, Unanswered
  <2> QED BY <1>4, <2>1 DEF TypeOK, HdDrain
<1>5. CASE HdSignal(a)
  <2>1. Generation(a) \in Gens \/ a \in Closers
    BY DEF Generation, Actors, Tasks
  <2> QED BY <1>5, <2>1 DEF TypeOK, HdSignal
<1> QED BY <1>1, <1>2, <1>3, <1>4, <1>5 DEF HandleDisconnect

\* Steps of close() preserve the type invariant.
LEMMA CloseType ==
  ASSUME TypeOK, NEW k \in Closers, CloseBegin(k) \/ CloseStep(k)
  PROVE  TypeOK'
<1> USE DEF Goto, ActorPcs, Teardown, flagVars, mapVars, supVars, closeVars,
            callVars, netVars
<1>1. CASE CloseBegin(k)
  BY <1>1 DEF TypeOK, CloseBegin
<1>2. CASE CloseLoad(k)
  BY <1>2 DEF TypeOK, CloseLoad
<1>3. CASE CloseSend(k)
  <2>1. queue' \in [Gens -> Seq(Calls \cup Control)]
    BY <1>3, EnqueueType DEF CloseSend, TypeOK, Control
  <2> QED BY <1>3, <2>1 DEF TypeOK, CloseSend
<1>4. CASE CloseGen(k)
  BY <1>4 DEF TypeOK, CloseGen
<1> QED BY <1>1, <1>2, <1>3, <1>4 DEF CloseStep

\* Steps of run_connection_supervisor preserve the type invariant.
LEMMA SupervisorType ==
  ASSUME TypeOK, Supervisor
  PROVE  TypeOK'
<1> USE DEF SupGoto, SupPcs, flagVars, mapVars, supVars, closeVars, callVars, netVars
<1>1. CASE SupTop
  BY <1>1 DEF TypeOK, SupTop
<1>2. CASE SupBump
  BY <1>2, ConstantsAssumption, SMT DEF TypeOK, SupBump
<1>3. CASE SupDial
  BY <1>3, ConstantsAssumption, SMT DEF TypeOK, SupDial, Fault
<1>4. CASE SupStoreWriter
  BY <1>4 DEF TypeOK, SupStoreWriter
<1>5. CASE SupSetConnected
  BY <1>5 DEF TypeOK, SupSetConnected
<1>6. CASE SupSpawn
  BY <1>6 DEF TypeOK, SupSpawn, ActorPcs
<1>7. CASE SupWake
  BY <1>7 DEF TypeOK, SupWake
<1>8. CASE SupAfter
  BY <1>8 DEF TypeOK, SupAfter
<1>9. CASE SupSleep
  BY <1>9 DEF TypeOK, SupSleep
<1> QED BY <1>1, <1>2, <1>3, <1>4, <1>5, <1>6, <1>7, <1>8, <1>9 DEF Supervisor, SupStep

\* Steps of the writer, heartbeat and reader tasks, and of the server,
\* preserve the type invariant.
LEMMA TaskType ==
  ASSUME TypeOK, NEW g \in Gens,
         \/ WriterStep(g) \/ HeartbeatStep(g) \/ TaskSend("reader", g) \/ ReaderReply(g)
         \/ ReaderPing(g) \/ ReaderStop(g)
  PROVE  TypeOK'
<1> USE DEF Goto, ActorPcs, Fault, flagVars, mapVars, supVars, closeVars,
            callVars, netVars
<1>1. CASE WriterPop(g)
  <2>1. queue[g] \in Seq(Calls \cup Control) /\ queue[g] # <<>>
    BY <1>1 DEF TypeOK, WriterPop
  <2>2. queue' \in [Gens -> Seq(Calls \cup Control)]
    BY <1>1, <2>1, SMT DEF TypeOK, WriterPop
  <2>3. wire' \in [Calls -> Stages]
    BY <1>1 DEF TypeOK, WriterPop, Stages
  <2>4. faults' \in 0 .. MaxFaults /\ broken' \in SUBSET Gens
    BY <1>1, ConstantsAssumption, SMT DEF TypeOK, WriterPop
  <2>5. pc' \in [Actors -> ActorPcs]
    BY <1>1 DEF TypeOK, WriterPop
  <2> QED BY <1>1, <2>2, <2>3, <2>4, <2>5 DEF TypeOK, WriterPop
<1>2. CASE WriterClose(g)
  <2>1. queue' \in [Gens -> Seq(Calls \cup Control)]
    BY <1>2, SMT DEF TypeOK, WriterClose
  <2> QED BY <1>2, <2>1 DEF TypeOK, WriterClose
<1>3. CASE WriterStarved(g)
  BY <1>3 DEF TypeOK, WriterStarved
<1>4. CASE HeartbeatTick(g)
  BY <1>4 DEF TypeOK, HeartbeatTick
<1>5. ASSUME NEW r, TaskSend(r, g) PROVE TypeOK'
  <2>1. queue' \in [Gens -> Seq(Calls \cup Control)]
    BY <1>5, EnqueueType DEF TaskSend, TypeOK, Control
  <2> QED BY <1>5, <2>1 DEF TypeOK, TaskSend
<1>6. CASE ReaderReply(g)
  <2>1. PICK c \in Calls :
          /\ wire' = [wire EXCEPT ![c] = "received"]
          /\ \/ /\ Remove(Kind(c), reqId[c])
                /\ Resolve(Owners(Entry(Kind(c), reqId[c])), c)
                /\ UNCHANGED faults
             \/ Fault /\ UNCHANGED <<pending, result>>
    BY <1>6 DEF ReaderReply
  <2>2. result' \in [Calls -> Calls \cup Unanswered]
    BY <2>1 DEF TypeOK, Resolve
  <2>3. pending' \in [Kinds -> SUBSET (Nat \X Calls)]
    BY <2>1, SMT DEF TypeOK, Remove, Kind, Kinds
  <2>4. faults' \in 0 .. MaxFaults /\ wire' \in [Calls -> Stages]
    BY <2>1, ConstantsAssumption, SMT DEF TypeOK, Stages
  <2> QED BY <1>6, <2>2, <2>3, <2>4 DEF TypeOK, ReaderReply
<1>7. CASE ReaderPing(g)
  BY <1>7 DEF TypeOK, ReaderPing
<1>8. CASE ReaderStop(g)
  <2>1. faults' \in 0 .. MaxFaults
    BY <1>8, ConstantsAssumption, SMT DEF TypeOK, ReaderStop
  <2> QED BY <1>8, <2>1 DEF TypeOK, ReaderStop
<1> QED BY <1>1, <1>2, <1>3, <1>4, <1>5, <1>6, <1>7, <1>8 DEF WriterStep, HeartbeatStep

\* So does a step that changes nothing.
LEMMA StutterType ==
  ASSUME TypeOK, UNCHANGED vars
  PROVE  TypeOK'
  BY DEF TypeOK, vars, flagVars, mapVars, supVars, closeVars, callVars, netVars

\* Every step preserves the type invariant.
LEMMA NextType ==
  ASSUME TypeOK, [Next]_vars
  PROVE  TypeOK'
  BY CallType, DisconnectType, CloseType, SupervisorType, TaskType, StutterType
  DEF Next

\* Every variable of the client keeps its type along every behaviour.
THEOREM TypeCorrect == Spec => []TypeOK
  BY InitType, NextType, PTL DEF Spec

----------------------------------------------------------------------------
(* Correlation of answers with calls.                                       *)

\* The inductive strengthening.  Ids are never reused, an entry carries the id
\* of its owner, and its owner has neither finished nor been resolved.
Correlation ==
    /\ PendingIsOwned
    /\ \A k \in Kinds : \A e \in pending[k] : e[1] > 0 /\ result[e[2]] = "none"
    /\ \A c \in Calls : call[c] \in {"idle", "insert"} => result[c] = "none"
    /\ \A c \in Calls : reqId[c] <= next_id[Kind(c)]
    /\ \A c, d \in Calls :
          Kind(c) = Kind(d) /\ reqId[c] = reqId[d] /\ reqId[c] > 0 => c = d
    /\ \A c \in Calls : result[c] \in {c, "none", "closed"}

\* Initially nothing is pending and nothing is answered.
LEMMA CorrelationInit == Init => Correlation
  BY SMT DEF Init, Correlation, PendingIsOwned, Kind, Kinds

\* Correlation only depends on ids, pending maps, and the progress and
\* results of calls.
LEMMA CorrelationFrame ==
  ASSUME Correlation, UNCHANGED <<next_id, pending, call, reqId, result>>
  PROVE  Correlation'
  BY DEF Correlation, PendingIsOwned

\* A step that only moves call c on keeps Correlation, if c keeps no entry
\* when it moves to an outcome other than cancellation.
LEMMA CorrelationMove ==
  ASSUME TypeOK, Correlation, NEW c \in Calls, NEW to, CallGoto(c, to),
         UNCHANGED <<next_id, pending, reqId, result>>,
         to \in (CallPcs \ {"idle", "insert"}) \cup {"cancelled"}
           \/ call[c] \in {"idle", "insert"} \/ result[c] # "none",
         to \in {"idle", "insert"} => call[c] \in {"idle", "insert"}
  PROVE  Correlation'
<1>1. call' = [d \in Calls |-> IF d = c THEN to ELSE call[d]]
  BY DEF TypeOK, CallGoto
<1>2. PendingIsOwned'
  <2> SUFFICES ASSUME NEW k \in Kinds, NEW e \in pending[k]
               PROVE  call'[e[2]] \in (CallPcs \ {"idle", "insert"}) \cup {"cancelled"}
    BY DEF Correlation, PendingIsOwned
  <2>1. e[2] \in Calls
    BY SMT DEF TypeOK
  <2>2. result[e[2]] = "none" /\ call[e[2]] \notin {"idle", "insert"}
    BY DEF Correlation, PendingIsOwned
  <2> QED BY <1>1, <2>1, <2>2 DEF Correlation, PendingIsOwned
<1> QED BY <1>1, <1>2 DEF Correlation

\* An entry is an id and the call it belongs to.
LEMMA EntryType ==
  ASSUME TypeOK, NEW k \in Kinds, NEW e \in pending[k]
  PROVE  e \in Nat \X Calls /\ e[1] \in Nat /\ e[2] \in Calls /\ e = <<e[1], e[2]>>
<1>1. pending \in [Kinds -> SUBSET (Nat \X Calls)]
  BY DEF TypeOK
<1>2. e \in Nat \X Calls
  BY <1>1
<1> QED BY <1>2, SMT

\* What the correlation says of one entry.
LEMMA EntryOwned ==
  ASSUME Correlation, NEW k \in Kinds, NEW e \in pending[k]
  PROVE  /\ Kind(e[2]) = k /\ reqId[e[2]] = e[1]
         /\ call[e[2]] \in (CallPcs \ {"idle", "insert"}) \cup {"cancelled"}
  BY DEF Correlation, PendingIsOwned

\* Removing the entry of c, and finishing c, keeps Correlation.
LEMMA CorrelationRemove ==
  ASSUME TypeOK, Correlation, NEW c \in Calls, NEW to,
         CallGoto(c, to), Remove(Kind(c), reqId[c]),
         UNCHANGED <<next_id, reqId, result>>, to \notin {"idle", "insert"}
  PROVE  Correlation'
<1>1. call' = [d \in Calls |-> IF d = c THEN to ELSE call[d]]
  BY DEF TypeOK, CallGoto
<1>2. Kind(c) \in Kinds
  BY DEF Kind, Kinds
<1>3. \A k \in Kinds : \A e \in pending'[k] : e \in pending[k] /\ e[2] \in Calls /\ e[2] # c
  <2> SUFFICES ASSUME NEW k \in Kinds, NEW e \in pending'[k]
               PROVE  e \in pending[k] /\ e[2] \in Calls /\ e[2] # c
    OBVIOUS
  <2>1. /\ pending \in [Kinds -> SUBSET (Nat \X Calls)]
        /\ pending' = [pending EXCEPT ![Kind(c)] = @ \ Entry(Kind(c), reqId[c])]
    BY DEF TypeOK, Remove
  <2>2. e \in pending[k] /\ (k = Kind(c) => e \notin Entry(Kind(c), reqId[c]))
    BY <1>2, <2>1
  <2>3. e[2] \in Calls /\ Kind(e[2]) = k /\ reqId[e[2]] = e[1]
    BY <2>2, EntryType, EntryOwned
  <2>4. ASSUME e[2] = c PROVE FALSE
    <3>1. k = Kind(c) /\ e[1] = reqId[c]
      BY <2>3, <2>4
    <3> QED BY <2>2, <3>1 DEF Entry
  <2> QED BY <2>2, <2>3, <2>4
<1>4. PendingIsOwned'
  BY <1>1, <1>3, SMT DEF Correlation, PendingIsOwned
<1> QED BY <1>1, <1>3, <1>4 DEF Correlation

\* fetch_add hands out an id that no entry has: the insertion displaces none.
LEMMA InsertFresh ==
  ASSUME TypeOK, Correlation, NEW c \in Calls, CallInsert(c)
  PROVE  /\ result' = result
         /\ pending' = [pending EXCEPT ![Kind(c)] =
                           @ \cup {<<next_id[Kind(c)] + 1, c>>}]
<1> DEFINE k == Kind(c)
           id == next_id[k] + 1
<1>1. k \in Kinds /\ next_id[k] \in Nat /\ id \in Nat /\ id > 0
  BY SMT DEF Kind, Kinds, TypeOK
<1>2. \A e \in pending[k] : e[1] # id
  <2> SUFFICES ASSUME NEW e \in pending[k] PROVE e[1] # id
    OBVIOUS
  <2>1. e[2] \in Calls /\ Kind(e[2]) = k /\ reqId[e[2]] = e[1]
    BY <1>1, EntryType, EntryOwned
  <2>2. reqId[e[2]] <= next_id[k] /\ reqId[e[2]] \in Nat
    BY <2>1 DEF TypeOK, Correlation
  <2>3. e[1] \in Nat /\ e[1] <= next_id[k]
    BY <2>1, <2>2
  <2> QED BY <1>1, <2>3, SMT
<1>3. Entry(k, id) = {}
  BY <1>2 DEF Entry
<1>4. result' = result
  BY <1>3 DEF TypeOK, CallInsert, Resolve, Owners
<1>5. pending' = [pending EXCEPT ![k] = @ \cup {<<id, c>>}]
  BY <1>3 DEF CallInsert
<1> QED BY <1>4, <1>5

\* Inserting under a fresh id keeps the correlation.
LEMMA CorrelationInsert ==
  ASSUME TypeOK, Correlation, NEW c \in Calls, CallInsert(c)
  PROVE  Correlation'
<1> DEFINE k == Kind(c)
           id == next_id[k] + 1
<1>1. k \in Kinds /\ next_id[k] \in Nat /\ id \in Nat /\ id > 0
  BY SMT DEF Kind, Kinds, TypeOK
<1>2. call' = [d \in Calls |-> IF d = c THEN "load" ELSE call[d]]
  BY DEF TypeOK, CallInsert, CallGoto
<1>3. reqId' = [d \in Calls |-> IF d = c THEN id ELSE reqId[d]]
  BY DEF TypeOK, CallInsert
<1>4. result' = result
  BY InsertFresh
<1>5. pending' = [pending EXCEPT ![k] = @ \cup {<<id, c>>}]
  BY InsertFresh
<1>6. \A j \in Kinds : \A e \in pending[j] : e[2] \in Calls /\ e[2] # c
  <2> SUFFICES ASSUME NEW j \in Kinds, NEW e \in pending[j]
               PROVE  e[2] \in Calls /\ e[2] # c
    OBVIOUS
  <2>1. call[c] = "insert"
    BY DEF CallInsert
  <2>2. call[e[2]] # "insert"
    BY EntryOwned
  <2> QED BY <2>1, <2>2, EntryType
<1>7. \A j \in Kinds : \A e \in pending'[j] : e \in pending[j] \/ (j = k /\ e = <<id, c>>)
  BY <1>1, <1>5 DEF TypeOK
<1>8. PendingIsOwned'
  <2> SUFFICES ASSUME NEW j \in Kinds, NEW e \in pending'[j]
               PROVE  /\ Kind(e[2]) = j /\ reqId'[e[2]] = e[1]
                      /\ call'[e[2]] \in (CallPcs \ {"idle", "insert"}) \cup {"cancelled"}
    BY DEF PendingIsOwned
  <2>1. CASE e \in pending[j]
    BY <1>2, <1>3, <1>6, <2>1 DEF Correlation, PendingIsOwned
  <2>2. CASE j = k /\ e = <<id, c>>
    BY <1>2, <1>3, <2>2 DEF CallPcs
  <2> QED BY <1>7, <2>1, <2>2
<1>9. next_id' = [next_id EXCEPT ![k] = id]
  BY DEF CallInsert
<1>10. \A d \in Calls : reqId'[d] <= next_id'[Kind(d)]
  <2> SUFFICES ASSUME NEW d \in Calls PROVE reqId'[d] <= next_id'[Kind(d)]
    OBVIOUS
  <2>1. Kind(d) \in Kinds /\ reqId[d] \in Nat /\ reqId[d] <= next_id[Kind(d)]
    BY DEF Kind, Kinds, TypeOK, Correlation
  <2>2. next_id[Kind(d)] <= next_id'[Kind(d)] /\ next_id'[k] = id
        /\ next_id[Kind(d)] \in Nat /\ next_id'[Kind(d)] \in Nat
    BY <1>1, <1>9, <2>1, SMT DEF TypeOK
  <2>3. CASE d = c
    <3>1. reqId'[d] = id /\ next_id'[Kind(d)] = id
      BY <1>3, <2>2, <2>3
    <3>2. id <= id
      BY <1>1, SMT
    <3> QED BY ONLY <3>1, <3>2
  <2>4. CASE d # c
    <3>1. reqId'[d] = reqId[d]
      BY <1>3, <2>4
    <3> QED BY <2>1, <2>2, <3>1, SMT
  <2> QED BY <2>3, <2>4
<1>11. \A d, f \in Calls :
         Kind(d) = Kind(f) /\ reqId'[d] = reqId'[f] /\ reqId'[d] > 0 => d = f
  <2>1. \A d \in Calls : Kind(d) = k => reqId[d] \in Nat /\ reqId[d] <= next_id[k]
    BY DEF TypeOK, Correlation
  <2>2. \A d \in Calls : Kind(d) = k => reqId[d] # id
    BY <1>1, <2>1, SMT
  <2> QED BY <1>3, <2>2 DEF Correlation
<1>12. \A j \in Kinds : \A e \in pending'[j] : e[1] > 0 /\ result'[e[2]] = "none"
  <2>1. result[c] = "none"
    BY DEF Correlation, CallInsert
  <2> SUFFICES ASSUME NEW j \in Kinds, NEW e \in pending'[j]
               PROVE  e[1] > 0 /\ result[e[2]] = "none"
    BY <1>4
  <2>2. CASE e \in pending[j]
    BY <2>2 DEF Correlation
  <2>3. CASE e = <<id, c>>
    BY <1>1, <2>1, <2>3
  <2> QED BY <1>7, <2>2, <2>3
<1> QED BY <1>2, <1>4, <1>8, <1>10, <1>11, <1>12 DEF Correlation

\* The drains of handle_disconnect keep the correlation.
LEMMA CorrelationDrain ==
  ASSUME TypeOK, Correlation, NEW a \in Actors, NEW k \in Kinds, HdDrain(a, k)
  PROVE  Correlation'
<1>1. \A j \in Kinds : \A e \in pending'[j] : e \in pending[j] /\ j # k /\ e[2] \in Calls
  <2> SUFFICES ASSUME NEW j \in Kinds, NEW e \in pending'[j]
               PROVE  e \in pending[j] /\ j # k /\ e[2] \in Calls
    OBVIOUS
  <2>1. pending \in [Kinds -> SUBSET (Nat \X Calls)] /\ pending' = [pending EXCEPT ![k] = {}]
    BY DEF TypeOK, HdDrain
  <2>2. e \in pending[j] /\ j # k
    BY <2>1
  <2>3. e \in Nat \X Calls
    BY <2>1, <2>2
  <2> QED BY <2>2, <2>3
<1>2. \A d \in Owners(pending[k]) : Kind(d) = k
  BY EntryOwned DEF Owners
<1>3. result' = [d \in Calls |-> IF d \in Owners(pending[k]) THEN "closed" ELSE result[d]]
  BY DEF HdDrain, Resolve
<1>4. \A j \in Kinds : \A e \in pending'[j] : e[1] > 0 /\ result'[e[2]] = "none"
  <2> SUFFICES ASSUME NEW j \in Kinds, NEW e \in pending'[j]
               PROVE  e[1] > 0 /\ result'[e[2]] = "none"
    OBVIOUS
  <2>1. e \in pending[j] /\ j # k /\ e[2] \in Calls
    BY <1>1
  <2>2. e[1] > 0 /\ result[e[2]] = "none" /\ Kind(e[2]) = j
    BY <2>1 DEF Correlation, PendingIsOwned
  <2>3. e[2] \notin Owners(pending[k])
    BY <1>2, <2>1, <2>2
  <2> QED BY <1>3, <2>1, <2>2, <2>3
<1>5. \A d \in Owners(pending[k]) : call[d] \notin {"idle", "insert"}
  BY EntryOwned DEF Owners, CallPcs
<1>6. UNCHANGED <<next_id, call, reqId>>
  BY DEF HdDrain
<1>7. PendingIsOwned'
  BY <1>1, <1>6 DEF Correlation, PendingIsOwned
<1> QED BY <1>3, <1>4, <1>5, <1>6, <1>7 DEF Correlation

\* handle_packet resolving the entry of an answered id keeps the correlation.
LEMMA CorrelationReply ==
  ASSUME TypeOK, Correlation, NEW g \in Gens, ReaderReply(g)
  PROVE  Correlation'
<1>1. UNCHANGED <<next_id, call, reqId>>
  BY DEF ReaderReply
<1>2. PICK c \in Calls :
        \/ /\ Remove(Kind(c), reqId[c])
           /\ Resolve(Owners(Entry(Kind(c), reqId[c])), c)
        \/ UNCHANGED <<pending, result>>
  BY DEF ReaderReply
<1>3. CASE UNCHANGED <<pending, result>>
  BY <1>1, <1>3, CorrelationFrame
<1>4. CASE /\ Remove(Kind(c), reqId[c])
           /\ Resolve(Owners(Entry(Kind(c), reqId[c])), c)
  <2> DEFINE k == Kind(c)
             D == Owners(Entry(k, reqId[c]))
  <2>1. k \in Kinds
    BY DEF Kind, Kinds
  <2>2. \A e \in Entry(k, reqId[c]) : e[2] = c /\ call[c] \notin {"idle", "insert"}
    <3> SUFFICES ASSUME NEW e \in Entry(k, reqId[c])
                 PROVE  e[2] = c /\ call[c] \notin {"idle", "insert"}
      OBVIOUS
    <3>1. e \in pending[k] /\ e[1] = reqId[c] /\ e[2] \in Calls
      BY <2>1, SMT DEF Entry, TypeOK
    <3>2. Kind(e[2]) = k /\ reqId[e[2]] = e[1] /\ e[1] > 0
          /\ call[e[2]] \notin {"idle", "insert"}
      BY <2>1, <3>1 DEF Correlation, PendingIsOwned
    <3> QED BY <3>1, <3>2 DEF Correlation
  <2>3. D \subseteq {c} /\ (D # {} => call[c] \notin {"idle", "insert"})
    BY <2>2 DEF Owners
  <2>4. result' = [d \in Calls |-> IF d \in D THEN c ELSE result[d]]
    BY <1>4 DEF Resolve
  <2>5. \A j \in Kinds : \A e \in pending'[j] :
          e \in pending[j] /\ e[2] \in Calls /\ e[2] \notin D
    <3> SUFFICES ASSUME NEW j \in Kinds, NEW e \in pending'[j]
                 PROVE  e \in pending[j] /\ e[2] \in Calls /\ e[2] \notin D
      OBVIOUS
    <3>1. e \in pending[j] /\ e[2] \in Calls /\ (j = k => e[1] # reqId[c])
      BY <1>4, <2>1, SMT DEF TypeOK, Remove, Entry
    <3>2. Kind(e[2]) = j /\ reqId[e[2]] = e[1]
      BY <3>1 DEF Correlation, PendingIsOwned
    <3> QED BY <2>3, <3>1, <3>2
  <2>6. PendingIsOwned'
    BY <1>1, <2>5 DEF Correlation, PendingIsOwned
  <2>7. \A j \in Kinds : \A e \in pending'[j] : e[1] > 0 /\ result'[e[2]] = "none"
    BY <2>4, <2>5 DEF Correlation
  <2>8. \A d \in Calls : result'[d] \in {d, "none", "closed"}
    BY <2>3, <2>4 DEF Correlation
  <2> QED BY <1>1, <2>3, <2>4, <2>6, <2>7, <2>8 DEF Correlation
<1> QED BY <1>2, <1>3, <1>4

\* Steps of call() and send_event() keep the correlation.
LEMMA CorrelationCall ==
  ASSUME TypeOK, Correlation, NEW c \in Calls,
         CallCheck(c) \/ CallStep(c) \/ CallCancel(c) \/ ServerAnswer(c)
  PROVE  Correlation'
<1> USE DEF CallPcs, mapVars, callVars
<1>1. CASE CallCheck(c)
  BY <1>1, CorrelationMove DEF CallCheck
<1>2. CASE CallInsert(c)
  BY <1>2, CorrelationInsert
<1>3. CASE CallLoad(c)
  BY <1>3, CorrelationMove DEF CallLoad
<1>4. CASE CallSend(c)
  BY <1>4, CorrelationMove DEF CallSend
<1>5. CASE CallFail(c)
  BY <1>5, CorrelationRemove DEF CallFail
<1>6. CASE CallReturn(c)
  <2> DEFINE to == CASE result[c] = "closed" -> "closed"
                     [] result[c] = "dropped" -> "refused"
                     [] OTHER -> "replied"
  <2>1. to \notin {"idle", "insert"}
    OBVIOUS
  <2> QED BY <1>6, <2>1, CorrelationMove DEF CallReturn
<1>7. CASE CallTimeout(c)
  BY <1>7, CorrelationMove DEF CallTimeout
<1>8. CASE CallExpire(c)
  BY <1>8, CorrelationRemove DEF CallExpire
<1>9. CASE CallCancel(c)
  BY <1>9, CorrelationMove DEF CallCancel
<1>10. CASE ServerAnswer(c)
  BY <1>10, CorrelationFrame DEF ServerAnswer
<1> QED BY <1>1, <1>2, <1>3, <1>4, <1>5, <1>6, <1>7, <1>8, <1>9, <1>10 DEF CallStep

\* Every step keeps the correlation.
LEMMA CorrelationNext ==
  ASSUME TypeOK, Correlation, [Next]_vars
  PROVE  Correlation'
<1> USE DEF mapVars, callVars
<1>1. ASSUME NEW a \in Actors, HandleDisconnect(a) PROVE Correlation'
  BY <1>1, CorrelationFrame, CorrelationDrain
  DEF HandleDisconnect, HdCheck, HdSwap, HdStore, HdSignal
<1>2. ASSUME NEW k \in Closers, CloseBegin(k) \/ CloseStep(k) PROVE Correlation'
  BY <1>2, CorrelationFrame DEF CloseBegin, CloseStep, CloseLoad, CloseSend, CloseGen
<1>3. CASE Supervisor
  BY <1>3, CorrelationFrame DEF Supervisor, SupStep, SupTop, SupBump, SupDial, SupStoreWriter,
     SupSetConnected, SupSpawn, SupWake, SupAfter, SupSleep
<1>4. ASSUME NEW g \in Gens,
             \/ WriterStep(g) \/ HeartbeatStep(g) \/ TaskSend("reader", g) \/ ReaderReply(g)
             \/ ReaderPing(g) \/ ReaderStop(g)
      PROVE  Correlation'
  BY <1>4, CorrelationFrame, CorrelationReply
  DEF WriterStep, WriterPop, WriterClose, WriterStarved, HeartbeatStep, HeartbeatTick,
      TaskSend, ReaderPing, ReaderStop
<1>5. CASE UNCHANGED vars
  BY <1>5, CorrelationFrame DEF vars
<1> QED BY <1>1, <1>2, <1>3, <1>4, <1>5, CorrelationCall DEF Next

\* An answer handed to a caller by handle_packet is the answer to that
\* caller's own request, however many connections, calls and late answers.
THEOREM AnswersMatch == Spec => []ReplyMatchesCall
<1>1. TypeOK /\ Correlation => ReplyMatchesCall
  BY ConstantsAssumption DEF Correlation, ReplyMatchesCall, Unanswered
<1> QED BY <1>1, InitType, NextType, CorrelationInit, CorrelationNext, PTL DEF Spec

\* No correlation entry outlives its call, except one the application dropped.
THEOREM NoLeakedEntry == Spec => []PendingIsOwned
<1>1. Correlation => PendingIsOwned
  BY DEF Correlation
<1> QED BY <1>1, InitType, NextType, CorrelationInit, CorrelationNext, PTL DEF Spec

----------------------------------------------------------------------------
(* A refused call never runs.                                               *)

Unqueued(c) == \A g \in Gens : \A i \in 1 .. Len(queue[g]) : queue[g][i] # c

\* Until send() succeeds, and after a refusal, the request is nowhere.
Unsent ==
    \A c \in Calls :
        call[c] \in {"idle", "insert", "load", "send", "fail", "refused"} =>
            wire[c] = "none" /\ Unqueued(c)

\* Initially no call is queued or sent.
LEMMA UnsentInit == Init => Unsent
  BY SMT DEF Init, Unsent, Unqueued

\* Popping a channel, or appending some other message, keeps c out of it.
LEMMA PopUnqueued ==
  ASSUME TypeOK, NEW c, Unqueued(c), NEW g \in Gens, queue[g] # <<>>,
         queue' = [queue EXCEPT ![g] = Tail(@)]
  PROVE  Unqueued(c)'
<1>1. queue[g] \in Seq(Calls \cup Control)
  BY DEF TypeOK
<1>2. \A i \in 1 .. Len(Tail(queue[g])) : Tail(queue[g])[i] # c
  BY <1>1, SMT DEF Unqueued
<1> QED BY <1>2 DEF TypeOK, Unqueued

\* Appending something else does not queue a call.
LEMMA PushUnqueued ==
  ASSUME TypeOK, NEW c, Unqueued(c), NEW g, NEW m \in Calls \cup Control, m # c,
         Enqueue(g, m)
  PROVE  Unqueued(c)'
<1>1. CASE g \in Gens
  <2>1. queue[g] \in Seq(Calls \cup Control)
    BY <1>1 DEF TypeOK
  <2>2. \A i \in 1 .. Len(Append(queue[g], m)) : Append(queue[g], m)[i] # c
    BY <1>1, <2>1, SMT DEF Unqueued
  <2> QED BY <1>1, <2>2 DEF TypeOK, Unqueued, Enqueue
<1>2. CASE g \notin Gens
  BY <1>2 DEF TypeOK, Unqueued, Enqueue
<1> QED BY <1>1, <1>2

\* Unsent only depends on queues, the wire and the progress of calls.
LEMMA UnsentFrame ==
  ASSUME Unsent, UNCHANGED <<call, wire, queue>>
  PROVE  Unsent'
  BY DEF Unsent, Unqueued

\* A step that moves call c and touches no channel keeps Unsent, if c was not
\* sent or does not become refused.
LEMMA UnsentMove ==
  ASSUME TypeOK, Unsent, NEW c \in Calls, NEW to, CallGoto(c, to),
         UNCHANGED <<wire, queue>>,
         \/ call[c] \in {"idle", "insert", "load", "send", "fail"}
         \/ to \notin {"idle", "insert", "load", "send", "fail", "refused"}
  PROVE  Unsent'
<1>1. call' = [d \in Calls |-> IF d = c THEN to ELSE call[d]]
  BY DEF TypeOK, CallGoto
<1> QED BY <1>1 DEF Unsent, Unqueued

\* Steps of call() and send_event() keep Unsent.
LEMMA UnsentCall ==
  ASSUME TypeOK, Correlation, Unsent, NEW c \in Calls,
         CallCheck(c) \/ CallStep(c) \/ CallCancel(c) \/ ServerAnswer(c)
  PROVE  Unsent'
<1> USE DEF netVars
<1>1. CASE CallCheck(c)
  BY <1>1, UnsentMove DEF CallCheck
<1>2. CASE CallInsert(c)
  BY <1>2, UnsentMove DEF CallInsert
<1>3. CASE CallLoad(c)
  BY <1>3, UnsentMove DEF CallLoad
<1>4. CASE CallSend(c)
  <2>1. CASE ~RxAlive(tx[c]) /\ CallGoto(c, "fail") /\ UNCHANGED queue
    BY <1>4, <2>1, UnsentMove DEF CallSend
  <2>2. CASE Enqueue(tx[c], c) /\ CallGoto(c, "wait")
    <3>1. call' = [d \in Calls |-> IF d = c THEN "wait" ELSE call[d]]
      BY <2>2 DEF TypeOK, CallGoto
    <3>2. \A d \in Calls : d # c /\ Unqueued(d) => Unqueued(d)'
      BY <2>2, PushUnqueued
    <3> QED BY <1>4, <3>1, <3>2 DEF CallSend, Unsent
  <2> QED BY <1>4, <2>1, <2>2 DEF CallSend
<1>5. CASE CallFail(c)
  BY <1>5, UnsentMove DEF CallFail
<1>6. CASE CallReturn(c)
  <2> DEFINE to == CASE result[c] = "closed" -> "closed"
                     [] result[c] = "dropped" -> "refused"
                     [] OTHER -> "replied"
  <2>1. result[c] # "dropped"
    BY ConstantsAssumption DEF Correlation, Unanswered
  <2>2. to \in {"closed", "replied"}
    BY <2>1
  <2> QED BY <1>6, <2>2, UnsentMove DEF CallReturn
<1>7. CASE CallTimeout(c)
  BY <1>7, UnsentMove DEF CallTimeout
<1>8. CASE CallExpire(c)
  BY <1>8, UnsentMove DEF CallExpire
<1>9. CASE CallCancel(c)
  BY <1>9, UnsentMove DEF CallCancel
<1>10. CASE ServerAnswer(c)
  BY <1>10 DEF ServerAnswer, TypeOK, Unsent, Unqueued, callVars
<1> QED BY <1>1, <1>2, <1>3, <1>4, <1>5, <1>6, <1>7, <1>8, <1>9, <1>10 DEF CallStep

\* Steps of the tasks of a connection keep Unsent.
LEMMA UnsentTask ==
  ASSUME TypeOK, Unsent, NEW g \in Gens,
         \/ WriterStep(g) \/ HeartbeatStep(g) \/ TaskSend("reader", g) \/ ReaderReply(g)
         \/ ReaderPing(g) \/ ReaderStop(g)
  PROVE  Unsent'
<1> USE DEF callVars, netVars
<1>1. CASE WriterPop(g)
  <2> DEFINE m == Head(queue[g])
  <2>1. queue[g] \in Seq(Calls \cup Control) /\ queue[g] # <<>>
    BY <1>1 DEF TypeOK, WriterPop
  <2>2. 1 \in 1 .. Len(queue[g]) /\ m = queue[g][1]
    BY <2>1, SMT
  <2>3. \A d \in Calls : Unqueued(d) => Unqueued(d)' /\ d # m
    BY <1>1, <2>2, PopUnqueued DEF WriterPop, Unqueued
  <2>4. \A d \in Calls : d # m => wire'[d] = wire[d]
    BY <1>1 DEF WriterPop, TypeOK
  <2>5. call' = call
    BY <1>1 DEF WriterPop
  <2> QED BY <2>3, <2>4, <2>5 DEF Unsent
<1>2. CASE WriterClose(g)
  BY <1>2, PopUnqueued DEF WriterClose, Unsent
<1>3. CASE WriterStarved(g) \/ HeartbeatTick(g) \/ ReaderPing(g) \/ ReaderStop(g)
  BY <1>3, UnsentFrame DEF WriterStarved, HeartbeatTick, ReaderPing, ReaderStop
<1>4. ASSUME NEW r, TaskSend(r, g) PROVE Unsent'
  <2>1. CASE Enqueue(g, "beat")
    <3>1. \A d \in Calls : d # "beat"
      BY ConstantsAssumption DEF Control
    <3> QED BY <1>4, <2>1, <3>1, PushUnqueued DEF TaskSend, Unsent, Control
  <2>2. CASE UNCHANGED queue
    BY <1>4, <2>2, UnsentFrame DEF TaskSend
  <2> QED BY <1>4, <2>1, <2>2 DEF TaskSend
<1>5. CASE ReaderReply(g)
  <2>1. PICK c \in Calls : wire[c] = "answered" /\ wire' = [wire EXCEPT ![c] = "received"]
    BY <1>5 DEF ReaderReply
  <2>2. \A d \in Calls : wire'[d] = "none" <=> wire[d] = "none"
    BY <2>1 DEF TypeOK
  <2>3. UNCHANGED <<call, queue>>
    BY <1>5 DEF ReaderReply
  <2> QED BY <2>2, <2>3 DEF Unsent, Unqueued
<1> QED BY <1>1, <1>2, <1>3, <1>4, <1>5 DEF WriterStep, HeartbeatStep

\* Every step keeps Unsent.
LEMMA UnsentNext ==
  ASSUME TypeOK, Correlation, Unsent, [Next]_vars
  PROVE  Unsent'
<1> USE DEF callVars, netVars
<1>1. ASSUME NEW a \in Actors, HandleDisconnect(a) PROVE Unsent'
  BY <1>1, UnsentFrame
  DEF HandleDisconnect, HdCheck, HdSwap, HdStore, HdSignal, HdDrain
<1>2. ASSUME NEW k \in Closers, CloseBegin(k) \/ CloseStep(k) PROVE Unsent'
  <2>1. CASE UNCHANGED queue
    BY <1>2, <2>1, UnsentFrame DEF CloseBegin, CloseStep, CloseLoad, CloseSend, CloseGen
  <2>2. CASE Enqueue(closeTx[k], "close") /\ UNCHANGED <<call, wire>>
    <3>1. \A d \in Calls : d # "close"
      BY ConstantsAssumption DEF Control
    <3> QED BY <2>2, <3>1, PushUnqueued DEF Unsent, Control
  <2> QED BY <1>2, <2>1, <2>2 DEF CloseBegin, CloseStep, CloseLoad, CloseSend, CloseGen
<1>3. CASE Supervisor
  BY <1>3, UnsentFrame DEF Supervisor, SupStep, SupTop, SupBump, SupDial, SupStoreWriter,
     SupSetConnected, SupSpawn, SupWake, SupAfter, SupSleep
<1>4. CASE UNCHANGED vars
  BY <1>4, UnsentFrame DEF vars
<1> QED BY <1>1, <1>2, <1>3, <1>4, UnsentCall, UnsentTask DEF Next

\* ClientError::Disconnected is a safe-to-retry error: the request is in no
\* queue and on no socket, now or later.
THEOREM RefusedIsFinal == Spec => []RefusedNeverRan
<1>1. Unsent => RefusedNeverRan
  BY DEF Unsent, Unqueued, RefusedNeverRan
<1> QED BY <1>1, InitType, NextType, CorrelationInit, CorrelationNext, UnsentInit,
        UnsentNext, PTL DEF Spec
=============================================================================
