------------------------ MODULE ClientContractProofs -----------------------
(***************************************************************************)
(* call() and send_event() over reconnecting sockets implement             *)
(* CallContract, for any number of calls, connections, closes and faults.  *)
(***************************************************************************)
EXTENDS ClientSessionProofs

\* Leaves are first-order reasoning unless they name SMT.
USE Zenon

\* A queued request has not been sent, and is queued once, on the connection
\* whose handle its caller loaded.
Once ==
    \A c \in Calls : \A g \in Gens : \A i \in 1 .. Len(queue[g]) :
        queue[g][i] = c =>
            /\ wire[c] = "none" /\ tx[c] = g
            /\ \A j \in 1 .. Len(queue[g]) : queue[g][j] = c => j = i

\* A call is completed with an answer only by the answer the reader took.
Answered ==
    \A c \in Calls :
        /\ result[c] \in Calls => wire[c] = "received"
        /\ call[c] = "replied" => result[c] \in Calls

----------------------------------------------------------------------------
(* A request is queued at most once.                                        *)

\* Once depends on the queues, the wire and the loaded handles.
LEMMA OnceFrame ==
  ASSUME Once, UNCHANGED <<queue, wire, tx>>
  PROVE  Once'
  BY SMT DEF Once

\* Taking the head off a channel keeps Once, and the head is queued no more.
LEMMA OncePop ==
  ASSUME TypeOK, Once, NEW g \in Gens, queue[g] # <<>>,
         queue' = [queue EXCEPT ![g] = Tail(@)], tx' = tx,
         \A d \in Calls : d # Head(queue[g]) => wire'[d] = wire[d]
  PROVE  Once'
<1> DEFINE q == queue[g]
<1>1. q \in Seq(Calls \cup Control) /\ q # <<>>
  BY DEF TypeOK
<1>2. Len(q) \in Nat /\ 1 \in 1 .. Len(q) /\ Head(q) = q[1] /\ Len(Tail(q)) = Len(q) - 1
  BY <1>1, SMT
<1>3. \A i \in 1 .. Len(Tail(q)) : i + 1 \in 1 .. Len(q) /\ Tail(q)[i] = q[i + 1]
  BY <1>1, <1>2, SMT
<1>4. \A i \in 1 .. Len(Tail(q)) : i \in Nat /\ i + 1 # 1
  BY <1>2, SMT
<1>5. queue'[g] = Tail(q) /\ \A h \in Gens : h # g => queue'[h] = queue[h]
  BY DEF TypeOK
<1> SUFFICES ASSUME NEW c \in Calls, NEW h \in Gens, NEW i \in 1 .. Len(queue'[h]),
                    queue'[h][i] = c
             PROVE  /\ wire'[c] = "none" /\ tx[c] = h
                    /\ \A j \in 1 .. Len(queue'[h]) : queue'[h][j] = c => j = i
  BY SMT DEF Once
<1>6. CASE h = g
  <2>1. i + 1 \in 1 .. Len(q) /\ q[i + 1] = c /\ i + 1 # 1
    BY <1>3, <1>4, <1>5, <1>6
  <2>2. /\ wire[c] = "none" /\ tx[c] = g
        /\ \A j \in 1 .. Len(q) : q[j] = c => j = i + 1
    BY <2>1, SMT DEF Once
  <2>3. c # Head(q)
    BY <1>2, <2>1, <2>2
  <2>4. ASSUME NEW j \in 1 .. Len(queue'[h]), queue'[h][j] = c PROVE j = i
    <3>1. j + 1 \in 1 .. Len(q) /\ q[j + 1] = c /\ j \in Nat /\ i \in Nat
      BY <1>3, <1>4, <1>5, <1>6, <2>4
    <3>2. j + 1 = i + 1
      BY <2>2, <3>1
    <3> QED BY <3>1, <3>2, SMT
  <2> QED BY <1>6, <2>2, <2>3, <2>4
<1>7. CASE h # g
  <2>1. queue'[h] = queue[h]
    BY <1>5, <1>7
  <2>2. /\ wire[c] = "none" /\ tx[c] = h
        /\ \A j \in 1 .. Len(queue[h]) : queue[h][j] = c => j = i
    BY <2>1 DEF Once
  <2>3. c # Head(q)
    BY <1>2, <1>7, <2>2, SMT DEF Once
  <2> QED BY <2>1, <2>2, <2>3
<1> QED BY <1>6, <1>7

\* Appending a control frame, or a request that is nowhere yet, keeps Once.
LEMMA OncePush ==
  ASSUME TypeOK, Once, NEW g, NEW m \in Calls \cup Control, Enqueue(g, m),
         UNCHANGED <<wire, tx>>,
         m \in Calls => wire[m] = "none" /\ tx[m] = g /\ Unqueued(m)
  PROVE  Once'
<1>1. CASE g \notin Gens
  <2>1. queue' = queue
    BY <1>1 DEF TypeOK, Enqueue
  <2> QED BY <2>1, OnceFrame
<1>2. CASE g \in Gens
  <2> DEFINE q == queue[g]
  <2>1. q \in Seq(Calls \cup Control)
    BY <1>2 DEF TypeOK
  <2>2. queue'[g] = Append(q, m) /\ \A h \in Gens : h # g => queue'[h] = queue[h]
    BY <1>2 DEF TypeOK, Enqueue
  <2>3. \A i \in 1 .. Len(Append(q, m)) :
          \/ i \in 1 .. Len(q) /\ Append(q, m)[i] = q[i]
          \/ i = Len(q) + 1 /\ Append(q, m)[i] = m
    BY <2>1, SMT
  <2> SUFFICES ASSUME NEW c \in Calls, NEW h \in Gens, NEW i \in 1 .. Len(queue'[h]),
                      queue'[h][i] = c
               PROVE  /\ wire[c] = "none" /\ tx[c] = h
                      /\ \A j \in 1 .. Len(queue'[h]) : queue'[h][j] = c => j = i
    BY SMT DEF Once
  <2>4. CASE h # g
    BY <2>2, <2>4, SMT DEF Once
  <2>5. CASE h = g /\ c = m
    <3>1. wire[m] = "none" /\ tx[m] = g /\ \A j \in 1 .. Len(q) : q[j] # m
      BY <1>2, <2>5 DEF Unqueued
    <3>2. \A j \in 1 .. Len(Append(q, m)) : Append(q, m)[j] = m => j = Len(q) + 1
      BY <2>3, <3>1
    <3>3. i = Len(q) + 1
      BY <2>2, <2>5, <3>2
    <3>4. \A j \in 1 .. Len(queue'[h]) : queue'[h][j] = c => j = i
      BY <2>2, <2>5, <3>2, <3>3
    <3> QED BY <2>5, <3>1, <3>4
  <2>6. CASE h = g /\ c # m
    <3>1. \A j \in 1 .. Len(queue'[h]) :
            queue'[h][j] = c => j \in 1 .. Len(q) /\ q[j] = c
      BY <2>2, <2>3, <2>6
    <3>2. i \in 1 .. Len(q) /\ q[i] = c
      BY <3>1
    <3>3. /\ wire[c] = "none" /\ tx[c] = g
          /\ \A j \in 1 .. Len(q) : q[j] = c => j = i
      BY <1>2, <3>2, SMT DEF Once
    <3> QED BY <2>6, <3>1, <3>3
  <2> QED BY <2>4, <2>5, <2>6
<1> QED BY <1>1, <1>2

\* Every step keeps Once.
LEMMA OnceNext ==
  ASSUME TypeOK, Unsent, Once, [Next]_vars
  PROVE  Once'
<1> USE DEF callVars, netVars
<1>0. \A d \in Calls : d \notin Control
  BY ConstantsAssumption
<1>1. ASSUME NEW c \in Calls,
             CallCheck(c) \/ CallStep(c) \/ CallCancel(c) \/ ServerAnswer(c)
      PROVE  Once'
  <2>1. CASE CallLoad(c)
    <3>1. Unqueued(c)
      BY <2>1 DEF CallLoad, Unsent
    <3>2. UNCHANGED <<queue, wire>> /\ \A d \in Calls : d # c => tx'[d] = tx[d]
      BY <2>1 DEF CallLoad, TypeOK
    <3> QED BY <3>1, <3>2, SMT DEF Once, Unqueued
  <2>2. CASE CallSend(c)
    <3>1. CASE Enqueue(tx[c], c)
      BY <2>2, <3>1, OncePush DEF CallSend, Unsent
    <3>2. CASE UNCHANGED queue
      BY <2>2, <3>2, OnceFrame DEF CallSend
    <3> QED BY <2>2, <3>1, <3>2 DEF CallSend
  <2>3. CASE ServerAnswer(c)
    <3>1. \A d \in Calls : wire[d] = "none" => wire'[d] = "none"
      BY <2>3 DEF ServerAnswer, TypeOK
    <3> QED BY <2>3, <3>1, SMT DEF ServerAnswer, Once
  <2>4. CASE UNCHANGED <<queue, wire, tx>>
    BY <2>4, OnceFrame
  <2> QED BY <1>1, <2>1, <2>2, <2>3, <2>4 DEF CallCheck, CallStep, CallCancel, CallInsert,
          CallFail, CallReturn, CallTimeout, CallExpire
<1>2. ASSUME NEW a \in Actors, HandleDisconnect(a) PROVE Once'
  BY <1>2, OnceFrame
  DEF HandleDisconnect, HdCheck, HdSwap, HdStore, HdSignal, HdDrain
<1>3. ASSUME NEW k \in Closers, CloseBegin(k) \/ CloseStep(k) PROVE Once'
  <2>1. CASE UNCHANGED queue
    BY <1>3, <2>1, OnceFrame DEF CloseBegin, CloseStep, CloseLoad, CloseSend, CloseGen
  <2>2. CASE Enqueue(closeTx[k], "close") /\ UNCHANGED <<wire, tx>>
    BY <1>0, <2>2, OncePush DEF Control
  <2> QED BY <1>3, <2>1, <2>2 DEF CloseBegin, CloseStep, CloseLoad, CloseSend, CloseGen
<1>4. CASE Supervisor
  BY <1>4, OnceFrame DEF Supervisor, SupStep, SupTop, SupBump, SupDial, SupStoreWriter,
     SupSetConnected, SupSpawn, SupWake, SupAfter, SupSleep
<1>5. ASSUME NEW g \in Gens, WriterPop(g) \/ WriterClose(g) PROVE Once'
  <2>1. \A d \in Calls : d # Head(queue[g]) => wire'[d] = wire[d]
    BY <1>5 DEF WriterPop, WriterClose, TypeOK
  <2> QED BY <1>5, <2>1, OncePop DEF WriterPop, WriterClose
<1>6. ASSUME NEW g \in Gens, NEW r, TaskSend(r, g) PROVE Once'
  <2>1. CASE Enqueue(g, "beat")
    BY <1>0, <1>6, <2>1, OncePush DEF TaskSend, Control
  <2>2. CASE UNCHANGED queue
    BY <1>6, <2>2, OnceFrame DEF TaskSend
  <2> QED BY <1>6, <2>1, <2>2 DEF TaskSend
<1>7. ASSUME NEW g \in Gens, ReaderReply(g) PROVE Once'
  <2>1. \A d \in Calls : wire[d] = "none" => wire'[d] = "none"
    BY <1>7 DEF ReaderReply, TypeOK
  <2> QED BY <1>7, <2>1, SMT DEF ReaderReply, Once
<1>8. ASSUME NEW g \in Gens,
             WriterStarved(g) \/ HeartbeatTick(g) \/ ReaderPing(g) \/ ReaderStop(g)
      PROVE  Once'
  BY <1>8, OnceFrame DEF WriterStarved, HeartbeatTick, ReaderPing, ReaderStop
<1>9. CASE UNCHANGED vars
  BY <1>9, OnceFrame DEF vars
<1> QED BY <1>1, <1>2, <1>3, <1>4, <1>5, <1>6, <1>7, <1>8, <1>9
        DEF Next, WriterStep, HeartbeatStep

----------------------------------------------------------------------------
(* An answer comes from the wire.                                           *)

\* Answered depends on the outcomes, the wire and the progress of the calls.
LEMMA AnsweredFrame ==
  ASSUME Answered, UNCHANGED <<call, result, wire>>
  PROVE  Answered'
  BY DEF Answered

\* A call that moves on without returning an answer keeps Answered.
LEMMA AnsweredMove ==
  ASSUME TypeOK, Answered, NEW c \in Calls, NEW to, CallGoto(c, to),
         UNCHANGED <<result, wire>>, to = "replied" => result[c] \in Calls
  PROVE  Answered'
<1>1. call' = [d \in Calls |-> IF d = c THEN to ELSE call[d]]
  BY DEF TypeOK, CallGoto
<1> QED BY <1>1 DEF Answered

\* What CallReturn makes of an outcome.
LEMMA ReturnTo ==
  ASSUME TypeOK, Correlation, NEW c \in Calls, CallReturn(c)
  PROVE  \/ CallGoto(c, "closed")
         \/ CallGoto(c, "replied") /\ result[c] = c
<1>1. result[c] \in {c, "closed"} /\ c # "closed" /\ c # "dropped"
  BY ConstantsAssumption DEF Correlation, CallReturn, Unanswered
<1>2. CASE result[c] = "closed"
  <2>1. (CASE result[c] = "closed" -> "closed"
           [] result[c] = "dropped" -> "refused"
           [] OTHER -> "replied") = "closed"
    BY <1>2
  <2> QED BY <2>1 DEF CallReturn
<1>3. CASE result[c] = c
  <2>1. (CASE result[c] = "closed" -> "closed"
           [] result[c] = "dropped" -> "refused"
           [] OTHER -> "replied") = "replied"
    BY <1>1, <1>3
  <2> QED BY <1>3, <2>1 DEF CallReturn
<1> QED BY <1>1, <1>2, <1>3

\* Steps of call() and send_event() keep Answered.
LEMMA AnsweredCall ==
  ASSUME TypeOK, Correlation, Answered, NEW c \in Calls,
         CallCheck(c) \/ CallStep(c) \/ CallCancel(c) \/ ServerAnswer(c)
  PROVE  Answered'
<1> USE DEF callVars, netVars
<1>1. CASE CallCheck(c)
  BY <1>1, AnsweredMove DEF CallCheck
<1>2. CASE CallInsert(c)
  BY <1>2, InsertFresh, AnsweredMove DEF CallInsert
<1>3. CASE CallLoad(c)
  BY <1>3, AnsweredMove DEF CallLoad
<1>4. CASE CallSend(c)
  BY <1>4, AnsweredMove DEF CallSend
<1>5. CASE CallFail(c) \/ CallTimeout(c) \/ CallExpire(c) \/ CallCancel(c)
  BY <1>5, AnsweredMove DEF CallFail, CallTimeout, CallExpire, CallCancel
<1>6. CASE CallReturn(c)
  BY <1>6, ReturnTo, AnsweredMove DEF CallReturn
<1>7. CASE ServerAnswer(c)
  <2>1. \A d \in Calls : wire[d] = "received" => wire'[d] = "received"
    BY <1>7 DEF ServerAnswer, TypeOK
  <2> QED BY <1>7, <2>1 DEF ServerAnswer, Answered
<1> QED BY <1>1, <1>2, <1>3, <1>4, <1>5, <1>6, <1>7 DEF CallStep

\* The head of a channel, when it is a request, has not been sent before.
LEMMA HeadUnsent ==
  ASSUME TypeOK, Once, NEW g \in Gens, queue[g] # <<>>, Head(queue[g]) \in Calls
  PROVE  wire[Head(queue[g])] = "none"
<1>1. queue[g] \in Seq(Calls \cup Control)
  BY DEF TypeOK
<1>2. 1 \in 1 .. Len(queue[g]) /\ Head(queue[g]) = queue[g][1]
  BY <1>1, SMT
<1> QED BY <1>2, SMT DEF Once

\* An entry under the id of c is c's own.
LEMMA EntryIsOwn ==
  ASSUME TypeOK, Correlation, NEW c \in Calls
  PROVE  Owners(Entry(Kind(c), reqId[c])) \subseteq {c}
<1>1. Kind(c) \in Kinds
  BY DEF Kind, Kinds
<1>2. ASSUME NEW e \in Entry(Kind(c), reqId[c]) PROVE e[2] = c
  <2>1. e \in pending[Kind(c)] /\ e[1] = reqId[c]
    BY DEF Entry
  <2>2. e[2] \in Calls /\ Kind(e[2]) = Kind(c) /\ reqId[e[2]] = e[1] /\ e[1] > 0
    BY <1>1, <2>1, EntryType, EntryOwned DEF Correlation
  <2> QED BY <2>1, <2>2 DEF Correlation
<1> QED BY <1>2 DEF Owners

\* Every step keeps Answered.
LEMMA AnsweredNext ==
  ASSUME TypeOK, Correlation, Once, Answered, [Next]_vars
  PROVE  Answered'
<1> USE DEF callVars, netVars
<1>1. ASSUME NEW a \in Actors, HandleDisconnect(a) PROVE Answered'
  <2>1. ASSUME NEW k \in Kinds, HdDrain(a, k) PROVE Answered'
    <3>1. \A d \in Owners(pending[k]) : call[d] # "replied"
      BY EntryOwned DEF Owners, CallPcs
    <3>2. result' = [d \in Calls |->
                       IF d \in Owners(pending[k]) THEN "closed" ELSE result[d]]
      BY <2>1 DEF HdDrain, Resolve
    <3>3. UNCHANGED <<call, wire>> /\ "closed" \notin Calls
      BY <2>1, ConstantsAssumption DEF HdDrain, Unanswered
    <3> QED BY <3>1, <3>2, <3>3 DEF Answered
  <2> QED BY <1>1, <2>1, AnsweredFrame
          DEF HandleDisconnect, HdCheck, HdSwap, HdStore, HdSignal
<1>2. ASSUME NEW k \in Closers, CloseBegin(k) \/ CloseStep(k) PROVE Answered'
  BY <1>2, AnsweredFrame DEF CloseBegin, CloseStep, CloseLoad, CloseSend, CloseGen
<1>3. CASE Supervisor
  BY <1>3, AnsweredFrame DEF Supervisor, SupStep, SupTop, SupBump, SupDial, SupStoreWriter,
     SupSetConnected, SupSpawn, SupWake, SupAfter, SupSleep
<1>4. ASSUME NEW g \in Gens, WriterPop(g) PROVE Answered'
  <2>1. \A d \in Calls : wire[d] # "none" => wire'[d] = wire[d]
    BY <1>4, HeadUnsent DEF WriterPop, TypeOK
  <2>2. UNCHANGED <<call, result>>
    BY <1>4 DEF WriterPop
  <2> QED BY <2>1, <2>2 DEF Answered
<1>5. ASSUME NEW g \in Gens, ReaderReply(g) PROVE Answered'
  <2>1. PICK c \in Calls :
          /\ wire' = [wire EXCEPT ![c] = "received"]
          /\ \/ Resolve(Owners(Entry(Kind(c), reqId[c])), c)
             \/ result' = result
    BY <1>5 DEF ReaderReply
  <2>2. call' = call
    BY <1>5 DEF ReaderReply
  <2>3. \A d \in Calls : wire'[d] = IF d = c THEN "received" ELSE wire[d]
    BY <2>1 DEF TypeOK
  <2>4. \A d \in Calls : result'[d] = result[d] \/ (d = c /\ result'[d] = c)
    BY <2>1, EntryIsOwn DEF Resolve
  <2> QED BY <2>2, <2>3, <2>4 DEF Answered
<1>6. ASSUME NEW g \in Gens,
             \/ WriterClose(g) \/ WriterStarved(g) \/ HeartbeatStep(g) \/ TaskSend("reader", g)
             \/ ReaderPing(g) \/ ReaderStop(g)
      PROVE  Answered'
  BY <1>6, AnsweredFrame DEF WriterClose, WriterStarved, HeartbeatStep, HeartbeatTick,
     TaskSend, ReaderPing, ReaderStop
<1>7. CASE UNCHANGED vars
  BY <1>7, AnsweredFrame DEF vars
<1> QED BY <1>1, <1>2, <1>3, <1>4, <1>5, <1>6, <1>7, AnsweredCall DEF Next, WriterStep

----------------------------------------------------------------------------
(* The simulation.                                                          *)

status == [c \in Calls |-> Status(call[c])]
executed == {c \in Calls : wire[c] \in {"answered", "received"}}

\* What the application sees of each point of call().
LEMMA StatusOf ==
  /\ Status("idle") = "idle" /\ Status("refused") = "refused"
  /\ Status("replied") = "replied"
  /\ \A p \in {"closed", "timeout", "cancelled"} : Status(p) = "lost"
  /\ \A p \in CallPcs \ {"idle"} : Status(p) = "open"
<1>1. Status("idle") = "idle" /\ Status("refused") = "refused"
      /\ Status("replied") = "replied"
  BY DEF Status
<1>2. \A p \in {"closed", "timeout", "cancelled"} : Status(p) = "lost"
  BY DEF Status
<1>3. \A p \in CallPcs \ {"idle"} : Status(p) = "open"
  BY DEF Status, CallPcs
<1> QED BY <1>1, <1>2, <1>3

\* A call that moves changes its own status only.
LEMMA StatusMove ==
  ASSUME TypeOK, NEW c \in Calls, NEW to, CallGoto(c, to)
  PROVE  status' = [status EXCEPT ![c] = Status(to)]
<1>1. call' = [d \in Calls |-> IF d = c THEN to ELSE call[d]]
  BY DEF TypeOK, CallGoto
<1> QED BY <1>1 DEF status

\* A move within the open part of a call is invisible.
LEMMA StatusOpen ==
  ASSUME TypeOK, NEW c \in Calls, NEW to \in CallPcs \ {"idle"}, CallGoto(c, to),
         call[c] \in CallPcs \ {"idle"}, wire' = wire
  PROVE  UNCHANGED <<status, executed>>
<1>1. status[c] = "open" /\ status' = [status EXCEPT ![c] = "open"]
  BY StatusOf, StatusMove DEF status
<1>2. status' = status
  BY <1>1 DEF status
<1> QED BY <1>2 DEF executed

\* Steps of call() and send_event() are steps of the contract.
LEMMA ContractCall ==
  ASSUME TypeOK, Correlation, Unsent, Answered, NEW c \in Calls,
         CallCheck(c) \/ CallStep(c) \/ CallCancel(c) \/ ServerAnswer(c)
  PROVE  \/ UNCHANGED <<status, executed>>
         \/ /\ status[c] = "idle" /\ status' = [status EXCEPT ![c] = "open"]
            /\ executed' = executed
         \/ /\ status[c] \in {"idle", "open"} /\ c \notin executed
            /\ status' = [status EXCEPT ![c] = "refused"] /\ executed' = executed
         \/ /\ status[c] \in {"open", "lost"} /\ c \notin executed
            /\ executed' = executed \cup {c} /\ status' = status
         \/ /\ status[c] = "open" /\ c \in executed
            /\ status' = [status EXCEPT ![c] = "replied"] /\ executed' = executed
         \/ /\ status[c] = "open" /\ status' = [status EXCEPT ![c] = "lost"]
            /\ executed' = executed
<1> USE DEF netVars, callVars
<1>0. status[c] = Status(call[c]) /\ (wire' = wire => executed' = executed)
  BY DEF status, executed
<1>1. CASE CallCheck(c)
  <2>1. call[c] = "idle" /\ wire' = wire /\ (CallGoto(c, "insert") \/ CallGoto(c, "refused"))
    BY <1>1 DEF CallCheck
  <2>2. c \notin executed
    BY <2>1 DEF Unsent, executed
  <2>3. Status("insert") = "open"
    BY StatusOf DEF CallPcs
  <2> QED BY <1>0, <2>1, <2>2, <2>3, StatusOf, StatusMove, SMT
<1>2. CASE CallInsert(c) \/ CallLoad(c) \/ CallSend(c) \/ CallTimeout(c)
  BY <1>2, StatusOpen DEF CallInsert, CallLoad, CallSend, CallTimeout, CallPcs
<1>3. CASE CallFail(c)
  <2>1. call[c] = "fail" /\ wire' = wire /\ CallGoto(c, "refused")
    BY <1>3 DEF CallFail
  <2>2. c \notin executed
    BY <2>1 DEF Unsent, executed
  <2>3. Status("fail") = "open"
    BY StatusOf DEF CallPcs
  <2> QED BY <1>0, <2>1, <2>2, <2>3, StatusOf, StatusMove, SMT
<1>4. CASE CallReturn(c)
  <2>1. call[c] = "wait" /\ wire' = wire
    BY <1>4 DEF CallReturn
  <2>2. Status("wait") = "open" /\ Status("closed") = "lost"
    BY StatusOf DEF CallPcs
  <2>3. CASE CallGoto(c, "closed")
    BY <1>0, <2>1, <2>2, <2>3, StatusMove, SMT
  <2>4. CASE CallGoto(c, "replied") /\ result[c] = c
    <3>1. c \in executed
      BY <2>4 DEF Answered, executed
    <3>2. status' = [status EXCEPT ![c] = "replied"]
      BY <2>4, StatusOf, StatusMove, SMT
    <3> QED BY <1>0, <2>1, <2>2, <3>1, <3>2
  <2> QED BY <1>4, <2>3, <2>4, ReturnTo
<1>5. CASE CallExpire(c) \/ CallCancel(c)
  <2>1. /\ call[c] \in {"send", "wait", "expired"} /\ wire' = wire
        /\ CallGoto(c, "timeout") \/ CallGoto(c, "cancelled")
    BY <1>5 DEF CallExpire, CallCancel
  <2>2. Status(call[c]) = "open" /\ Status("timeout") = "lost" /\ Status("cancelled") = "lost"
    BY <2>1, StatusOf DEF CallPcs
  <2> QED BY <1>0, <2>1, <2>2, StatusMove, SMT
<1>6. CASE ServerAnswer(c)
  <2>1. wire[c] = "server" /\ wire' = [wire EXCEPT ![c] = "answered"] /\ call' = call
    BY <1>6 DEF ServerAnswer
  <2>2. c \notin executed /\ status' = status
    BY <2>1 DEF executed, status
  <2>3. executed' = executed \cup {c}
    BY <2>1 DEF executed, TypeOK
  <2>4. call[c] \notin {"idle", "refused", "replied"}
    BY <2>1 DEF Unsent, Answered
  <2>5. call[c] \in (CallPcs \ {"idle"}) \cup {"closed", "timeout", "cancelled"}
    BY <2>4 DEF TypeOK, CallPcs, Returned
  <2>6. status[c] \in {"open", "lost"}
    BY <1>0, <2>5, StatusOf
  <2> QED BY <2>2, <2>3, <2>6
<1> QED BY <1>1, <1>2, <1>3, <1>4, <1>5, <1>6 DEF CallStep

\* Every other step of the client is invisible at the contract.
LEMMA ContractRest ==
  ASSUME TypeOK, Once,
         \/ \E a \in Actors : HandleDisconnect(a)
         \/ \E k \in Closers : CloseBegin(k) \/ CloseStep(k)
         \/ Supervisor
         \/ \E g \in Gens : \/ WriterStep(g) \/ HeartbeatStep(g) \/ TaskSend("reader", g) \/ ReaderReply(g)
                            \/ ReaderPing(g) \/ ReaderStop(g)
         \/ UNCHANGED vars
  PROVE  UNCHANGED <<status, executed>>
<1> USE DEF netVars, callVars
<1>1. CASE UNCHANGED <<call, wire>>
  BY <1>1 DEF status, executed
<1>2. ASSUME NEW g \in Gens, WriterPop(g) PROVE UNCHANGED <<status, executed>>
  <2>1. \A d \in Calls : \/ wire'[d] = wire[d]
                         \/ wire[d] = "none" /\ wire'[d] = "server"
    BY <1>2, HeadUnsent DEF WriterPop, TypeOK
  <2>2. call' = call
    BY <1>2 DEF WriterPop
  <2> QED BY <2>1, <2>2 DEF status, executed
<1>3. ASSUME NEW g \in Gens, ReaderReply(g) PROVE UNCHANGED <<status, executed>>
  <2>1. \A d \in Calls : \/ wire'[d] = wire[d]
                         \/ wire[d] = "answered" /\ wire'[d] = "received"
    BY <1>3 DEF ReaderReply, TypeOK
  <2>2. call' = call
    BY <1>3 DEF ReaderReply
  <2> QED BY <2>1, <2>2 DEF status, executed
<1>4. ASSUME NEW a \in Actors, HandleDisconnect(a) PROVE UNCHANGED <<call, wire>>
  BY <1>4 DEF HandleDisconnect, HdCheck, HdSwap, HdStore, HdSignal, HdDrain
<1>5. ASSUME NEW k \in Closers, CloseBegin(k) \/ CloseStep(k) PROVE UNCHANGED <<call, wire>>
  BY <1>5 DEF CloseBegin, CloseStep, CloseLoad, CloseSend, CloseGen
<1>6. ASSUME Supervisor PROVE UNCHANGED <<call, wire>>
  BY <1>6 DEF Supervisor, SupStep, SupTop, SupBump, SupDial, SupStoreWriter,
     SupSetConnected, SupSpawn, SupWake, SupAfter, SupSleep
<1>7. ASSUME NEW g \in Gens,
             \/ WriterClose(g) \/ WriterStarved(g) \/ HeartbeatStep(g) \/ TaskSend("reader", g)
             \/ ReaderPing(g) \/ ReaderStop(g)
      PROVE  UNCHANGED <<call, wire>>
  BY <1>7 DEF WriterClose, WriterStarved, HeartbeatStep, HeartbeatTick,
     TaskSend, ReaderPing, ReaderStop
<1>8. ASSUME UNCHANGED vars PROVE UNCHANGED <<call, wire>>
  BY <1>8 DEF vars
<1> QED BY <1>1, <1>2, <1>3, <1>4, <1>5, <1>6, <1>7, <1>8 DEF WriterStep

ContractInv == TypeOK /\ Correlation /\ Unsent /\ Once /\ Answered

\* A fresh client satisfies all of them.
LEMMA ContractInvInit == Init => ContractInv
<1>1. Init => Once
  BY SMT DEF Init, Once
<1>2. Init => Answered
  BY ConstantsAssumption DEF Init, Answered, Unanswered
<1> QED BY <1>1, <1>2, InitType, CorrelationInit, UnsentInit DEF ContractInv

\* call() and send_event() over reconnecting sockets implement CallContract:
\* a request runs at most once, only its own answer completes it, and a refused
\* one never runs, for any number of calls, connections, closes and faults.
THEOREM ContractIsKept == Spec => KeepsContract
<1>1. Init => Contract!ContractInit
  <2>1. Init => status = [c \in Calls |-> "idle"] /\ executed = {}
    BY StatusOf, SMT DEF Init, status, executed
  <2> QED BY <2>1 DEF Contract!ContractInit, status, executed
<1>2. ContractInv /\ [Next]_vars => ContractInv'
  BY NextType, CorrelationNext, UnsentNext, OnceNext, AnsweredNext DEF ContractInv
<1>3. ContractInv /\ [Next]_vars => [Contract!ContractNext]_(Contract!contractVars)
  <2> SUFFICES ASSUME ContractInv, [Next]_vars
               PROVE  Contract!ContractNext \/ UNCHANGED <<status, executed>>
    BY DEF Contract!contractVars, status, executed
  <2>1. ASSUME NEW c \in Calls,
               CallCheck(c) \/ CallStep(c) \/ CallCancel(c) \/ ServerAnswer(c)
        PROVE  Contract!ContractNext \/ UNCHANGED <<status, executed>>
    BY <2>1, ContractCall
    DEF ContractInv, Contract!ContractNext, Contract!Begin, Contract!Refuse,
        Contract!Execute, Contract!Reply, Contract!Lose, Contract!Become, status, executed
  <2> QED BY <2>1, ContractRest DEF ContractInv, Next
<1> QED BY <1>1, <1>2, <1>3, ContractInvInit, PTL
        DEF Spec, KeepsContract, Contract!ContractSpec
=============================================================================
