------------------------- MODULE RateLimiterProofs -------------------------
(***************************************************************************)
(* Proofs about RateLimiter, for any connections, addresses, limits, ban   *)
(* duration and bounds.  All rest on one inductive invariant: a ban map    *)
(* holds the expiry last set or nothing, and a frame that got past the ban *)
(* checks belongs to a connection whose ban is over.                       *)
(***************************************************************************)
EXTENDS RateLimiter, FiniteSetTheorems, TLAPS

\* Leaves are first-order reasoning unless they name SMT.
USE Zenon

\* What is in the ban maps, against what was ever put there.
BansKnown ==
    /\ \A c \in Conns : conn_bans[c] \in {0, connBanned[c]}
    /\ \A i \in Ips : ip_bans[i] \in {0, ipBanned[i]}

\* A connection's ban is forgotten only once it is over, and a frame beyond
\* the ban check is one of a connection that is not banned, unless the frame
\* itself has just been found over the limit.
BanOver ==
    /\ \A c \in Conns : conn_bans[c] = connBanned[c] \/ connBanned[c] <= clock
    /\ \A c \in Conns : pc[c] \in {"ipban", "ipremove", "conn"} => connBanned[c] <= clock
    /\ \A c \in Conns : pc[c] \in {"ip", "ipinsert"} => limited[c] \/ connBanned[c] <= clock

\* Clocks sampled earlier lie in the past.
Sampled == cleanNow <= clock /\ \A c \in Conns : now[c] <= clock

\* Without a limit per connection no counter is ever created.
Uncounted == ConnConfig = None => \A c \in Conns : conn_counters[c] = Vacant

IInv == TypeOK /\ BansKnown /\ BanOver /\ Sampled /\ Uncounted

----------------------------------------------------------------------------

\* WindowCounter: recording a frame, in an open or in a fresh window, yields a
\* counter, and maybe_reset moves the start of a window only to the present.
LEMMA CountersRecorded ==
    ASSUME NEW ctr \in Counters, NEW t \in 0 .. MaxTime, NEW n \in Nat, NEW cfg
    PROVE  Record(ctr, t, n, cfg) \in Counters /\ FirstRecord(t, n) \in Counters
<1>1. MaybeReset(ctr, t, cfg) \in Counters
  BY DEF MaybeReset, Counters
<1>2. Record(ctr, t, n, cfg) \in Counters
  BY <1>1, SMT DEF Record, Counters
<1>3. FirstRecord(t, n) \in Counters
  BY DEF FirstRecord, Counters
<1> QED BY <1>2, <1>3

\* A counter that is not there has the type of a counter.
LEMMA VacantCounter == Vacant \in Counters
  BY LimiterAssumption, SMT DEF Vacant, Counters

\* insert into a ban map keeps it a map of expiry instants.
LEMMA BansTyped ==
    ASSUME NEW K, NEW bans \in [K -> Nat], NEW x \in K, NEW t \in Nat, NEW over
    PROVE  BanIf(over, bans, x, t) \in [K -> Nat]
  BY LimiterAssumption, SMT DEF BanIf

\* What insert leaves under each key.
LEMMA BansSet ==
    ASSUME NEW K, NEW bans \in [K -> Nat], NEW x \in K, NEW t \in Nat, NEW over, NEW y \in K
    PROVE  /\ BanIf(over, bans, x, t)[y] = bans[y] \/
                (over /\ y = x /\ BanDuration # None /\ BanIf(over, bans, x, t)[y] = t + BanDuration)
           /\ y # x \/ ~over => BanIf(over, bans, x, t)[y] = bans[y]
  BY LimiterAssumption DEF BanIf

\* Initially nothing is counted and nobody is banned.
LEMMA InitIInv == Init => IInv
<1> SUFFICES ASSUME Init PROVE IInv
  OBVIOUS
<1>1. TypeOK
  <2>1. conn_counters \in [Conns -> Counters] /\ ip_counters \in [Ips -> Counters]
    BY VacantCounter DEF Init
  <2>2. pc \in [Conns \cup Acceptors -> Steps]
    BY DEF Init, Steps
  <2> QED BY <2>1, <2>2, LimiterAssumption, SMT DEF Init, TypeOK, Instants, Sweeps
<1>2. BansKnown /\ Uncounted
  BY DEF Init, BansKnown, Uncounted
<1>3. BanOver /\ Sampled
  BY SMT DEF Init, BanOver, Sampled
<1> QED BY <1>1, <1>2, <1>3 DEF IInv

\* Every access of a map, every local and every sweep keeps its type.
LEMMA NextTypeOK == TypeOK /\ [Next]_vars => TypeOK'
<1> SUFFICES ASSUME TypeOK, [Next]_vars PROVE TypeOK'
  OBVIOUS
<1>p. ASSUME NEW x \in Conns \cup Acceptors, NEW to \in Steps, Goto(x, to)
      PROVE  pc' \in [Conns \cup Acceptors -> Steps]
  BY <1>p DEF Goto, TypeOK
<1>f. ASSUME NEW c \in Conns, NEW allowed, Finish(c, allowed)
      PROVE  /\ pc' \in [Conns \cup Acceptors -> Steps]
             /\ passed' \in [Conns -> Seq(Nat)]
  <2>1. "idle" \in Steps
    BY DEF Steps
  <2>2. pc' \in [Conns \cup Acceptors -> Steps]
    BY <1>f, <1>p, <2>1 DEF Finish
  <2>3. passed' \in [Conns -> Seq(Nat)]
    <3>1. passed \in [Conns -> Seq(Nat)]
      BY DEF TypeOK
    <3>2. Append(passed[c], now[c]) \in Seq(Nat)
      BY <3>1, SMT DEF TypeOK
    <3>3. [passed EXCEPT ![c] = Append(@, now[c])] \in [Conns -> Seq(Nat)]
      BY ONLY <3>1, <3>2, c \in Conns
    <3> QED BY ONLY <1>f, <3>1, <3>3 DEF Finish
  <2> QED BY <2>2, <2>3
<1>1. ASSUME NEW c \in Conns, CheckBegin(c) PROVE TypeOK'
  <2>1. pc' \in [Conns \cup Acceptors -> Steps]
    BY <1>1, <1>p DEF CheckBegin, Steps
  <2>2. clock \in 0 .. MaxTime
    BY LimiterAssumption, SMT DEF TypeOK, Instants
  <2>3. now' \in [Conns -> 0 .. MaxTime] /\ limited' \in [Conns -> BOOLEAN]
    BY <1>1, <2>2 DEF CheckBegin, TypeOK
  <2>4. len' \in [Conns -> Nat]
    BY <1>1, LimiterAssumption DEF CheckBegin, TypeOK
  <2>5. frames' \in [Conns -> 0 .. MaxFrames]
    BY <1>1, LimiterAssumption, SMT DEF CheckBegin, TypeOK
  <2> QED BY <1>1, <2>1, <2>3, <2>4, <2>5
          DEF CheckBegin, TypeOK, connMaps, ipMaps, cleanVars, historyVars
<1>2. ASSUME NEW c \in Conns, CheckConnBan(c) PROVE TypeOK'
  <2>1. /\ pc' \in [Conns \cup Acceptors -> Steps]
        /\ passed' \in [Conns -> Seq(Nat)]
        /\ conn_bans' \in [Conns -> Nat]
    <3>1. CASE now[c] < conn_bans[c]
      BY <1>2, <1>f, <3>1 DEF CheckConnBan, TypeOK
    <3>2. CASE ~(now[c] < conn_bans[c])
      <4>1. /\ Goto(c, "ipban") /\ passed' = passed
            /\ conn_bans' = [conn_bans EXCEPT ![c] = 0]
        BY <1>2, <3>2 DEF CheckConnBan
      <4>2. pc' \in [Conns \cup Acceptors -> Steps]
        BY <4>1, <1>p DEF Steps
      <4> QED BY <4>1, <4>2 DEF TypeOK
    <3> QED BY <3>1, <3>2
  <2> QED BY <1>2, <2>1 DEF CheckConnBan, TypeOK, ipMaps, readerVars, cleanVars
<1>3. ASSUME NEW c \in Conns, CheckIpBan(c) PROVE TypeOK'
  <2>1. /\ pc' \in [Conns \cup Acceptors -> Steps]
        /\ passed' \in [Conns -> Seq(Nat)]
    <3>1. CASE now[c] < ip_bans[IpOf[c]]
      BY <1>3, <1>f, <3>1 DEF CheckIpBan
    <3>2. CASE ~(now[c] < ip_bans[IpOf[c]])
      BY <1>3, <1>p, <3>2 DEF CheckIpBan, TypeOK, Steps
    <3> QED BY <3>1, <3>2
  <2> QED BY <1>3, <2>1 DEF CheckIpBan, TypeOK, connMaps, ipMaps, readerVars, cleanVars
<1>4. ASSUME NEW c \in Conns, CheckIpRemove(c) PROVE TypeOK'
  <2>1. pc' \in [Conns \cup Acceptors -> Steps]
    BY <1>4, <1>p DEF CheckIpRemove, Steps
  <2>2. ip_bans' \in [Ips -> Nat]
    BY <1>4, LimiterAssumption DEF CheckIpRemove, TypeOK
  <2> QED BY <1>4, <2>1, <2>2
          DEF CheckIpRemove, TypeOK, connMaps, readerVars, cleanVars, historyVars
<1>5. ASSUME NEW c \in Conns, CheckConnCount(c) PROVE TypeOK'
  <2>1. pc' \in [Conns \cup Acceptors -> Steps]
    BY <1>5, <1>p DEF CheckConnCount, Steps
  <2>2. /\ conn_counters[c] \in Counters /\ now[c] \in 0 .. MaxTime
        /\ now[c] \in Nat /\ len[c] \in Nat
    BY SMT DEF TypeOK
  <2>3. /\ Record(conn_counters[c], now[c], len[c], ConnConfig) \in Counters
        /\ FirstRecord(now[c], len[c]) \in Counters
    BY <2>2, CountersRecorded
  <2>4. conn_counters' \in [Conns -> Counters]
    <3>1. CASE ConnConfig = None
      BY <1>5, <3>1 DEF CheckConnCount, connMaps, TypeOK
    <3>2. CASE ConnConfig # None
      <4>1. PICK new \in Counters : conn_counters' = [conn_counters EXCEPT ![c] = new]
        BY <1>5, <2>3, <3>2 DEF CheckConnCount
      <4> QED BY <4>1 DEF TypeOK
    <3> QED BY <3>1, <3>2
  <2>5. conn_bans' \in [Conns -> Nat] /\ connBanned' \in [Conns -> Nat]
    <3>1. CASE ConnConfig = None
      BY <1>5, <3>1 DEF CheckConnCount, connMaps, TypeOK
    <3>2. CASE ConnConfig # None
      <4>1. PICK over : /\ conn_bans' = BanIf(over, conn_bans, c, now[c])
                        /\ connBanned' = BanIf(over, connBanned, c, now[c])
        BY <1>5, <3>2 DEF CheckConnCount
      <4> QED BY <4>1, <2>2, BansTyped DEF TypeOK
    <3> QED BY <3>1, <3>2
  <2>6. limited' \in [Conns -> BOOLEAN]
    BY <1>5 DEF CheckConnCount, TypeOK
  <2> QED BY <1>5, <2>1, <2>4, <2>5, <2>6
          DEF CheckConnCount, TypeOK, ipMaps, cleanVars
<1>6. ASSUME NEW c \in Conns, CheckIpCount(c) PROVE TypeOK'
  <2>1. /\ IpOf[c] \in Ips /\ ip_counters[IpOf[c]] \in Counters
        /\ now[c] \in 0 .. MaxTime /\ now[c] \in Nat /\ len[c] \in Nat
    BY LimiterAssumption, SMT DEF TypeOK
  <2>2. Record(ip_counters[IpOf[c]], now[c], len[c], IpConfig) \in Counters
    BY <2>1, CountersRecorded
  <2>3. /\ pc' \in [Conns \cup Acceptors -> Steps]
        /\ passed' \in [Conns -> Seq(Nat)]
        /\ ip_counters' \in [Ips -> Counters]
        /\ ip_bans' \in [Ips -> Nat] /\ ipBanned' \in [Ips -> Nat]
    <3>1. CASE IpConfig = None
      BY <1>6, <1>f, <3>1 DEF CheckIpCount, ipMaps, TypeOK
    <3>2. CASE IpConfig # None /\ ip_counters[IpOf[c]] = Vacant
      BY <1>6, <1>p, <3>2 DEF CheckIpCount, ipMaps, TypeOK, Steps
    <3>3. CASE IpConfig # None /\ ip_counters[IpOf[c]] # Vacant
      <4> DEFINE over == Exceeds(Record(ip_counters[IpOf[c]], now[c], len[c], IpConfig), IpConfig)
      <4>1. /\ ip_counters' = [ip_counters EXCEPT ![IpOf[c]] =
                                  Record(ip_counters[IpOf[c]], now[c], len[c], IpConfig)]
            /\ ip_bans' = BanIf(over, ip_bans, IpOf[c], now[c])
            /\ ipBanned' = BanIf(over, ipBanned, IpOf[c], now[c])
            /\ Finish(c, ~limited[c] /\ ~over)
        BY <1>6, <3>3 DEF CheckIpCount
      <4> HIDE DEF over
      <4>2. ip_bans' \in [Ips -> Nat] /\ ipBanned' \in [Ips -> Nat]
        BY <4>1, <2>1, BansTyped DEF TypeOK
      <4>3. ip_counters' \in [Ips -> Counters]
        BY <4>1, <2>1, <2>2 DEF TypeOK
      <4> QED BY <4>1, <4>2, <4>3, <1>f
    <3> QED BY <3>1, <3>2, <3>3
  <2> QED BY <1>6, <2>3 DEF CheckIpCount, TypeOK, connMaps, readerVars, cleanVars
<1>7. ASSUME NEW c \in Conns, CheckIpInsert(c) PROVE TypeOK'
  <2>1. /\ IpOf[c] \in Ips
        /\ now[c] \in 0 .. MaxTime /\ now[c] \in Nat /\ len[c] \in Nat
    BY LimiterAssumption, SMT DEF TypeOK
  <2>2. FirstRecord(now[c], len[c]) \in Counters
    BY <2>1, CountersRecorded, VacantCounter
  <2>3. ip_counters' \in [Ips -> Counters]
    BY <1>7, <2>1, <2>2 DEF CheckIpInsert, TypeOK
  <2>4. ip_bans' \in [Ips -> Nat] /\ ipBanned' \in [Ips -> Nat]
    BY <1>7, <2>1, BansTyped DEF CheckIpInsert, TypeOK
  <2>5. /\ pc' \in [Conns \cup Acceptors -> Steps]
        /\ passed' \in [Conns -> Seq(Nat)]
    BY <1>7, <1>f DEF CheckIpInsert
  <2> QED BY <1>7, <2>3, <2>4, <2>5
          DEF CheckIpInsert, TypeOK, connMaps, readerVars, cleanVars
<1>8. ASSUME NEW a \in Acceptors, AcceptGet(a) \/ AcceptRemove(a) PROVE TypeOK'
  <2>1. CASE AcceptGet(a)
    <3>1. pc' \in [Conns \cup Acceptors -> Steps]
      BY <2>1, <1>p DEF AcceptGet, Steps
    <3> QED BY <2>1, <3>1
            DEF AcceptGet, TypeOK, connMaps, ipMaps, readerVars, cleanVars, historyVars
  <2>2. CASE AcceptRemove(a)
    <3>1. pc' \in [Conns \cup Acceptors -> Steps]
      BY <2>2, <1>p DEF AcceptRemove, Steps
    <3>2. ip_bans' \in [Ips -> Nat]
      BY <2>2, LimiterAssumption DEF AcceptRemove, TypeOK
    <3> QED BY <2>2, <3>1, <3>2
            DEF AcceptRemove, TypeOK, connMaps, readerVars, cleanVars, historyVars
  <2> QED BY <1>8, <2>1, <2>2
<1>9. CASE Cleanup
  <2>1. ASSUME NEW K, NEW m \in [K -> Counters] PROVE Retained(m) \in [K -> Counters]
    BY VacantCounter DEF Retained
  <2>2. ASSUME NEW K, NEW m \in [K -> Nat] PROVE Unexpired(m) \in [K -> Nat]
    BY DEF Unexpired
  <2>3. clock \in 0 .. MaxTime
    BY LimiterAssumption, SMT DEF TypeOK, Instants
  <2>4. CASE CleanupBegin
    BY <2>3, <2>4 DEF CleanupBegin, TypeOK, connMaps, ipMaps, readerVars, historyVars, Sweeps
  <2>5. CASE CleanupConnCounters
    BY <2>1, <2>5 DEF CleanupConnCounters, TypeOK, ipMaps, readerVars, historyVars, Sweeps
  <2>6. CASE CleanupIpCounters
    BY <2>1, <2>6 DEF CleanupIpCounters, TypeOK, connMaps, readerVars, historyVars, Sweeps
  <2>7. CASE CleanupConnBans
    BY <2>2, <2>7 DEF CleanupConnBans, TypeOK, ipMaps, readerVars, historyVars, Sweeps
  <2>8. CASE CleanupIpBans
    BY <2>2, <2>8 DEF CleanupIpBans, TypeOK, connMaps, readerVars, historyVars, Sweeps
  <2> QED BY <1>9, <2>4, <2>5, <2>6, <2>7, <2>8 DEF Cleanup
<1>10. CASE Tick
  BY <1>10, LimiterAssumption, SMT
     DEF Tick, TypeOK, Instants, connMaps, ipMaps, readerVars, cleanVars, historyVars
<1>11. CASE UNCHANGED vars
  BY <1>11 DEF TypeOK, vars, connMaps, ipMaps, readerVars, cleanVars, historyVars
<1> QED BY <1>1, <1>2, <1>3, <1>4, <1>5, <1>6, <1>7, <1>8, <1>9, <1>10, <1>11
        DEF Next, CheckAndRecord

\* The ban maps, the ban checks and the sampled clocks stay consistent.
LEMMA NextIInv == IInv /\ [Next]_vars => IInv'
<1> SUFFICES ASSUME IInv, [Next]_vars PROVE IInv'
  OBVIOUS
<1>t. TypeOK /\ TypeOK'
  BY NextTypeOK DEF IInv
<1>n. /\ clock \in Nat /\ cleanNow \in Nat /\ cleanNow <= clock
      /\ \A c \in Conns : /\ now[c] \in Nat /\ now[c] <= clock
                          /\ conn_bans[c] \in Nat /\ connBanned[c] \in Nat
      /\ \A i \in Ips : ip_bans[i] \in Nat /\ ipBanned[i] \in Nat
  BY <1>t, SMT DEF TypeOK, Instants, IInv, Sampled
<1>i. IpOf \in [Conns \cup Acceptors -> Ips] /\ Conns \cap Acceptors = {}
  BY LimiterAssumption
<1>pc. pc \in [Conns \cup Acceptors -> Steps]
  BY <1>t DEF TypeOK
<1> SUFFICES BansKnown' /\ BanOver' /\ Sampled' /\ Uncounted'
  BY <1>t DEF IInv
<1>1. ASSUME NEW c \in Conns, CheckBegin(c) PROVE BansKnown' /\ BanOver' /\ Sampled' /\ Uncounted'
  <2>1. BansKnown' /\ Uncounted'
    BY <1>1 DEF CheckBegin, connMaps, ipMaps, historyVars, IInv, BansKnown, Uncounted
  <2>2. BanOver'
    BY <1>1, <1>pc, SMT DEF CheckBegin, Goto, connMaps, historyVars, IInv, BanOver
  <2>3. Sampled'
    BY <1>1, <1>n, <1>t, SMT DEF CheckBegin, cleanVars, TypeOK, Sampled
  <2> QED BY <2>1, <2>2, <2>3
<1>2. ASSUME NEW c \in Conns, CheckConnBan(c) PROVE BansKnown' /\ BanOver' /\ Sampled' /\ Uncounted'
  <2>1. Sampled' /\ Uncounted'
    BY <1>2 DEF CheckConnBan, readerVars, cleanVars, IInv, Sampled, Uncounted
  <2>2. CASE now[c] < conn_bans[c]
    BY <1>2, <2>1, <2>2, <1>pc
       DEF CheckConnBan, Finish, Goto, ipMaps, readerVars, IInv, BansKnown, BanOver
  <2>3. CASE ~(now[c] < conn_bans[c])
    <3>1. /\ pc' = [pc EXCEPT ![c] = "ipban"] /\ conn_bans' = [conn_bans EXCEPT ![c] = 0]
          /\ UNCHANGED <<clock, ip_bans, limited, connBanned, ipBanned>>
      BY <1>2, <2>3 DEF CheckConnBan, Goto, ipMaps, readerVars
    <3>2. connBanned[c] <= clock
      BY <1>n, <2>3, SMT DEF IInv, BanOver
    <3>3. BansKnown'
      BY <3>1, <1>t DEF IInv, BansKnown, TypeOK
    <3>4. BanOver'
      BY <3>1, <3>2, <1>pc, <1>t DEF IInv, BanOver, TypeOK
    <3> QED BY <2>1, <3>3, <3>4
  <2> QED BY <2>2, <2>3
<1>3. ASSUME NEW c \in Conns, CheckIpBan(c) PROVE BansKnown' /\ BanOver' /\ Sampled' /\ Uncounted'
  <2>1. PICK to \in {"idle", "conn", "ipremove"} : pc' = [pc EXCEPT ![c] = to]
    BY <1>3 DEF CheckIpBan, Finish, Goto
  <2>2. pc[c] = "ipban"
    BY <1>3 DEF CheckIpBan
  <2>3. UNCHANGED <<clock, connMaps, ipMaps, readerVars, cleanVars, connBanned, ipBanned>>
    BY <1>3 DEF CheckIpBan
  <2>4. BansKnown' /\ Sampled' /\ Uncounted'
    BY <2>3 DEF connMaps, ipMaps, readerVars, cleanVars, IInv, BansKnown, Sampled, Uncounted
  <2>5. BanOver'
    BY <2>1, <2>2, <2>3, <1>pc DEF connMaps, readerVars, IInv, BanOver
  <2> QED BY <2>4, <2>5
<1>4. ASSUME NEW c \in Conns, CheckIpRemove(c) PROVE BansKnown' /\ BanOver' /\ Sampled' /\ Uncounted'
  <2>1. Sampled' /\ Uncounted'
    BY <1>4 DEF CheckIpRemove, connMaps, readerVars, cleanVars, IInv, Sampled, Uncounted
  <2>2. BansKnown'
    BY <1>4, <1>i, <1>t DEF CheckIpRemove, connMaps, historyVars, IInv, BansKnown, TypeOK
  <2>3. BanOver'
    BY <1>4, <1>pc DEF CheckIpRemove, Goto, connMaps, readerVars, historyVars, IInv, BanOver
  <2> QED BY <2>1, <2>2, <2>3
<1>5. ASSUME NEW c \in Conns, CheckConnCount(c) PROVE BansKnown' /\ BanOver' /\ Sampled' /\ Uncounted'
  <2>1. /\ pc[c] = "conn" /\ pc' = [pc EXCEPT ![c] = "ip"]
        /\ UNCHANGED <<clock, ip_bans, now, cleanNow, ipBanned>>
    BY <1>5 DEF CheckConnCount, Goto, ipMaps, cleanVars
  <2>2. connBanned[c] <= clock
    BY <2>1 DEF IInv, BanOver
  <2>3. CASE ConnConfig = None
    <3>1. UNCHANGED <<conn_counters, conn_bans, limited, connBanned>>
      BY <1>5, <2>3 DEF CheckConnCount, connMaps
    <3>2. BansKnown' /\ Sampled' /\ Uncounted'
      BY <2>1, <3>1 DEF IInv, BansKnown, Sampled, Uncounted
    <3>3. BanOver'
      BY <2>1, <2>2, <3>1, <1>pc DEF IInv, BanOver
    <3> QED BY <3>2, <3>3
  <2>4. CASE ConnConfig # None
    <3>1. PICK over : /\ limited' = [limited EXCEPT ![c] = @ \/ over]
                      /\ conn_bans' = BanIf(over, conn_bans, c, now[c])
                      /\ connBanned' = BanIf(over, connBanned, c, now[c])
      BY <1>5, <2>4 DEF CheckConnCount
    <3>2. Sampled' /\ Uncounted'
      BY <2>1, <2>4 DEF IInv, Sampled, Uncounted
    <3>3. CASE over /\ BanDuration # None
      <4>1. /\ conn_bans' = [conn_bans EXCEPT ![c] = now[c] + BanDuration]
            /\ connBanned' = [connBanned EXCEPT ![c] = now[c] + BanDuration]
        BY <3>1, <3>3 DEF BanIf
      <4>2. limited'[c]
        BY <3>1, <3>3, <1>t DEF TypeOK
      <4>3. \A d \in Conns : d # c => limited'[d] = limited[d]
        BY <3>1, <1>t DEF TypeOK
      <4>4. BansKnown'
        BY <2>1, <4>1, <1>t DEF IInv, BansKnown, TypeOK
      <4>5. BanOver'
        BY <2>1, <4>1, <4>2, <4>3, <1>pc, <1>t DEF IInv, BanOver, TypeOK
      <4> QED BY <3>2, <4>4, <4>5
    <3>4. CASE ~(over /\ BanDuration # None)
      <4>1. conn_bans' = conn_bans /\ connBanned' = connBanned
        BY <3>1, <3>4 DEF BanIf
      <4>2. \A d \in Conns : d # c => limited'[d] = limited[d]
        BY <3>1, <1>t DEF TypeOK
      <4>3. BansKnown'
        BY <2>1, <4>1 DEF IInv, BansKnown
      <4>4. BanOver'
        BY <2>1, <2>2, <4>1, <4>2, <1>pc DEF IInv, BanOver
      <4> QED BY <3>2, <4>3, <4>4
    <3> QED BY <3>3, <3>4
  <2> QED BY <2>3, <2>4
<1>6. ASSUME NEW c \in Conns, CheckIpCount(c) \/ CheckIpInsert(c)
      PROVE  BansKnown' /\ BanOver' /\ Sampled' /\ Uncounted'
  <2>1. /\ pc[c] \in {"ip", "ipinsert"}
        /\ UNCHANGED <<clock, connMaps, readerVars, cleanVars, connBanned>>
    BY <1>6 DEF CheckIpCount, CheckIpInsert
  <2>2. PICK to \in {"idle", "ipinsert"} : pc' = [pc EXCEPT ![c] = to]
    BY <1>6 DEF CheckIpCount, CheckIpInsert, Finish, Goto
  <2>3. Sampled' /\ Uncounted'
    BY <2>1 DEF connMaps, readerVars, cleanVars, IInv, Sampled, Uncounted
  <2>4. BanOver'
    BY <2>1, <2>2, <1>pc DEF connMaps, readerVars, IInv, BanOver
  <2>5. \E over : \/ ip_bans' = ip_bans /\ ipBanned' = ipBanned
                  \/ /\ ip_bans' = BanIf(over, ip_bans, IpOf[c], now[c])
                     /\ ipBanned' = BanIf(over, ipBanned, IpOf[c], now[c])
    <3>1. CASE CheckIpCount(c)
      BY <3>1 DEF CheckIpCount, ipMaps
    <3>2. CASE CheckIpInsert(c)
      BY <3>2 DEF CheckIpInsert
    <3> QED BY <1>6, <3>1, <3>2
  <2>6. BansKnown'
    <3>1. CASE ip_bans' = ip_bans /\ ipBanned' = ipBanned
      BY <2>1, <3>1 DEF connMaps, IInv, BansKnown
    <3>2. CASE /\ ip_bans' = [ip_bans EXCEPT ![IpOf[c]] = now[c] + BanDuration]
               /\ ipBanned' = [ipBanned EXCEPT ![IpOf[c]] = now[c] + BanDuration]
      BY <2>1, <3>2, <1>i, <1>t DEF connMaps, IInv, BansKnown, TypeOK
    <3> QED BY <2>5, <3>1, <3>2 DEF BanIf
  <2> QED BY <2>3, <2>4, <2>6
<1>7. ASSUME NEW a \in Acceptors, AcceptGet(a) \/ AcceptRemove(a)
      PROVE  BansKnown' /\ BanOver' /\ Sampled' /\ Uncounted'
  <2>1. UNCHANGED <<clock, connMaps, readerVars, cleanVars, historyVars>>
    BY <1>7 DEF AcceptGet, AcceptRemove, ipMaps
  <2>2. \A c \in Conns : pc'[c] = pc[c]
    <3>1. PICK to : pc' = [pc EXCEPT ![a] = to]
      BY <1>7 DEF AcceptGet, AcceptRemove, Goto
    <3> QED BY <3>1, <1>i, <1>pc
  <2>3. Sampled' /\ Uncounted' /\ BanOver'
    BY <2>1, <2>2
       DEF connMaps, readerVars, cleanVars, historyVars, IInv, Sampled, Uncounted, BanOver
  <2>4. ip_bans' = ip_bans \/ ip_bans' = [ip_bans EXCEPT ![IpOf[a]] = 0]
    BY <1>7 DEF AcceptGet, AcceptRemove, ipMaps
  <2>5. BansKnown'
    BY <2>1, <2>4, <1>i, <1>t DEF connMaps, historyVars, IInv, BansKnown, TypeOK
  <2> QED BY <2>3, <2>5
<1>8. CASE Cleanup
  <2>1. UNCHANGED <<clock, pc, readerVars, historyVars>>
    BY <1>8 DEF Cleanup, CleanupBegin, CleanupConnCounters, CleanupIpCounters,
                CleanupConnBans, CleanupIpBans
  <2>2. Sampled'
    <3>1. cleanNow' \in {cleanNow, clock}
      BY <1>8 DEF Cleanup, CleanupBegin, CleanupConnCounters, CleanupIpCounters,
                  CleanupConnBans, CleanupIpBans
    <3> QED BY <2>1, <3>1, <1>n, SMT DEF readerVars, Sampled
  <2>3. conn_counters' = conn_counters \/ conn_counters' = Retained(conn_counters)
    BY <1>8 DEF Cleanup, CleanupBegin, CleanupConnCounters, CleanupIpCounters,
                CleanupConnBans, CleanupIpBans, connMaps
  <2>4. Uncounted'
    BY <2>3, <1>t DEF IInv, Uncounted, Retained, TypeOK
  <2>5. \A c \in Conns : \/ conn_bans'[c] = conn_bans[c]
                         \/ conn_bans'[c] = 0 /\ conn_bans[c] <= clock
    <3>1. conn_bans' = conn_bans \/ conn_bans' = Unexpired(conn_bans)
      BY <1>8 DEF Cleanup, CleanupBegin, CleanupConnCounters, CleanupIpCounters,
                  CleanupConnBans, CleanupIpBans, connMaps
    <3>2. DOMAIN conn_bans = Conns /\ \A c \in Conns : conn_bans[c] \in Nat
      BY <1>t DEF TypeOK
    <3>3. \A x \in Nat : ~(cleanNow < x) => x <= clock
      BY <1>n, SMT
    <3> QED BY <3>1, <3>2, <3>3 DEF Unexpired
  <2>6. \A i \in Ips : ip_bans'[i] \in {0, ip_bans[i]}
    <3>1. ip_bans' = ip_bans \/ ip_bans' = Unexpired(ip_bans)
      BY <1>8 DEF Cleanup, CleanupBegin, CleanupConnCounters, CleanupIpCounters,
                  CleanupConnBans, CleanupIpBans, ipMaps
    <3> QED BY <3>1, <1>t DEF Unexpired, TypeOK
  <2>7. BansKnown'
    BY <2>1, <2>5, <2>6 DEF historyVars, IInv, BansKnown
  <2>8. BanOver'
    BY <2>1, <2>5, <1>n DEF readerVars, historyVars, IInv, BanOver
  <2> QED BY <2>2, <2>4, <2>7, <2>8
<1>9. CASE Tick
  <2>1. /\ UNCHANGED <<conn_counters, conn_bans, ip_bans, pc, now, limited, cleanNow,
                       connBanned, ipBanned>>
        /\ clock' = clock + 1
    BY <1>9 DEF Tick, connMaps, ipMaps, readerVars, cleanVars, historyVars
  <2>2. BansKnown' /\ Uncounted'
    BY <2>1 DEF IInv, BansKnown, Uncounted
  <2>3. Sampled'
    BY <2>1, <1>n, SMT DEF Sampled
  <2>4. BanOver'
    <3>1. \A c \in Conns : connBanned[c] <= clock => connBanned[c] <= clock'
      BY <2>1, <1>n, SMT
    <3> QED BY <2>1, <3>1 DEF IInv, BanOver
  <2> QED BY <2>2, <2>3, <2>4
<1>10. CASE UNCHANGED vars
  BY <1>10 DEF vars, connMaps, ipMaps, readerVars, cleanVars, historyVars,
               IInv, BansKnown, BanOver, Sampled, Uncounted
<1> QED BY <1>1, <1>2, <1>3, <1>4, <1>5, <1>6, <1>7, <1>8, <1>9, <1>10
        DEF Next, CheckAndRecord

\* The inductive invariant holds in every state of the limiter.
LEMMA InvariantHolds == Spec => []IInv
  BY InitIInv, NextIInv, PTL DEF Spec

\* cleanup's threshold is at least twice the period of each configured limit.
LEMMA ThresholdCoversPeriod ==
    ASSUME NEW cfg \in {ConnConfig, IpConfig}, cfg # None
    PROVE  StaleThreshold >= 2 * cfg.period /\ StaleThreshold \in Nat
<1>1. Periods \subseteq Nat \ {0} /\ cfg.period \in Periods
  BY LimiterAssumption DEF Periods, Limits
<1>2. \E x \in Periods : \A y \in Periods : x >= y
  <2>1. \A p \in Periods : \/ ConnConfig # None /\ p = ConnConfig.period
                           \/ IpConfig # None /\ p = IpConfig.period
    BY DEF Periods
  <2>2. /\ ConnConfig # None => ConnConfig.period \in Periods
        /\ IpConfig # None => IpConfig.period \in Periods
    BY DEF Periods
  <2>3. CASE ConnConfig = None \/ IpConfig = None
    <3>1. \A y \in Periods : y = cfg.period
      BY <2>1, <2>3, SMT
    <3> DEFINE p == cfg.period
    <3>2. p \in Nat /\ p \in Periods
      BY <1>1
    <3>3. \A y \in Periods : y = p
      BY <3>1
    <3> HIDE DEF p
    <3> QED BY ONLY <3>2, <3>3
  <2>4. CASE ConnConfig # None /\ IpConfig # None
    <3> DEFINE p == ConnConfig.period
               q == IpConfig.period
    <3>1. p \in Nat /\ q \in Nat /\ p \in Periods /\ q \in Periods
      BY <1>1, <2>2, <2>4
    <3>2. \A y \in Periods : y = p \/ y = q
      BY <2>1
    <3> HIDE DEF p, q
    <3> QED BY ONLY <3>1, <3>2
  <2> QED BY <2>3, <2>4
<1>3. Max(Periods) \in Periods /\ \A y \in Periods : Max(Periods) >= y
  BY <1>2 DEF Max
<1>4. Max(Periods) \in Nat /\ Max(Periods) >= cfg.period /\ cfg.period \in Nat
  BY <1>1, <1>3
<1>5. ASSUME NEW x \in Nat, NEW y \in Nat, x >= y PROVE 2 * x >= 2 * y /\ 2 * x \in Nat
  BY <1>5, SMT
<1> QED BY ONLY <1>4, <1>5 DEF StaleThreshold

----------------------------------------------------------------------------
(* Theorems                                                                 *)

\* The limiter keeps its types: no window starts before the clock does, every
\* ban is an instant and every task is at a step of its function.
THEOREM TypeCorrect == Spec => []TypeOK
  BY InvariantHolds, PTL DEF IInv

\* A connection's ban holds until it expires, whatever the lazy removals, the
\* sweeps and the later frames of check_and_record do.
THEOREM ConnBanIsKept == Spec => ConnBanHolds
<1>1. IInv /\ [Next]_vars => [\A c \in Conns : passed'[c] # passed[c] => clock >= connBanned[c]]_vars
  <2> SUFFICES ASSUME IInv, Next, NEW c \in Conns, passed'[c] # passed[c]
               PROVE  clock >= connBanned[c]
    OBVIOUS
  <2>n. clock \in Nat /\ connBanned[c] \in Nat
    BY SMT DEF IInv, TypeOK, Instants
  <2>c. passed' # passed
    OBVIOUS
  <2>1. PICK d \in Conns : \E allowed : /\ Finish(d, allowed) /\ (allowed => ~limited[d])
                                        /\ pc[d] \in {"connban", "ipban", "ip", "ipinsert"}
                                        /\ pc[d] \in {"connban", "ipban"} => ~allowed
    <3>1. ASSUME NEW d \in Conns, CheckConnBan(d) \/ CheckIpBan(d)
          PROVE  pc[d] \in {"connban", "ipban"} /\ Finish(d, FALSE)
      BY <3>1, <2>c DEF CheckConnBan, CheckIpBan
    <3>2. ASSUME NEW d \in Conns, CheckIpCount(d) \/ CheckIpInsert(d)
          PROVE  /\ pc[d] \in {"ip", "ipinsert"}
                 /\ \E allowed : Finish(d, allowed) /\ (allowed => ~limited[d])
      BY <3>2, <2>c DEF CheckIpCount, CheckIpInsert
    <3>3. ASSUME NEW d \in Conns, CheckBegin(d) \/ CheckIpRemove(d) \/ CheckConnCount(d)
          PROVE  FALSE
      BY <3>3, <2>c DEF CheckBegin, CheckIpRemove, CheckConnCount, historyVars
    <3>4. ASSUME NEW a \in Acceptors, AcceptGet(a) \/ AcceptRemove(a)
          PROVE  FALSE
      BY <3>4, <2>c DEF AcceptGet, AcceptRemove, historyVars
    <3>5. CASE Cleanup \/ Tick
      BY <3>5, <2>c DEF Cleanup, CleanupBegin, CleanupConnCounters, CleanupIpCounters,
                        CleanupConnBans, CleanupIpBans, Tick, historyVars
    <3> QED BY ONLY <3>1, <3>2, <3>3, <3>4, <3>5, Next DEF Next, CheckAndRecord
  <2>2. d = c /\ ~limited[c] /\ pc[c] \in {"ip", "ipinsert"}
    BY <2>1 DEF Finish, IInv, TypeOK
  <2> QED BY <2>2, <2>n DEF IInv, BanOver
<1> QED BY <1>1, InvariantHolds, PTL DEF Spec, ConnBanHolds

\* A connection that keeps sending does not prolong its own ban: a frame is
\* counted, and can set a ban, only once the connection's last one is over.
THEOREM BansNotProlonged == Spec => BanNotExtended
<1>1. IInv /\ [Next]_vars =>
        [\A c \in Conns : clock < conn_bans[c] => conn_bans'[c] <= conn_bans[c]]_vars
  <2> SUFFICES ASSUME IInv, Next, NEW c \in Conns, clock < conn_bans[c]
               PROVE  conn_bans'[c] <= conn_bans[c]
    OBVIOUS
  <2>n. /\ clock \in Nat /\ conn_bans[c] \in Nat /\ connBanned[c] \in Nat
        /\ conn_bans \in [Conns -> Nat]
    BY SMT DEF IInv, TypeOK, Instants
  <2>1. pc[c] # "conn"
    BY <2>n, SMT DEF IInv, BansKnown, BanOver
  <2>2. \/ conn_bans' = conn_bans
        \/ \E d \in Conns : conn_bans' = [conn_bans EXCEPT ![d] = 0]
        \/ \E d \in Conns : \E over : pc[d] = "conn" /\ conn_bans' = BanIf(over, conn_bans, d, now[d])
        \/ conn_bans' = Unexpired(conn_bans)
    <3>1. ASSUME NEW d \in Conns, CheckConnBan(d)
          PROVE  conn_bans' = conn_bans \/ conn_bans' = [conn_bans EXCEPT ![d] = 0]
      BY <3>1 DEF CheckConnBan
    <3>2. ASSUME NEW d \in Conns, CheckConnCount(d)
          PROVE  \/ conn_bans' = conn_bans
                 \/ \E over : pc[d] = "conn" /\ conn_bans' = BanIf(over, conn_bans, d, now[d])
      BY <3>2 DEF CheckConnCount, connMaps
    <3>3. ASSUME NEW d \in Conns, \/ CheckBegin(d) \/ CheckIpBan(d) \/ CheckIpRemove(d)
                                  \/ CheckIpCount(d) \/ CheckIpInsert(d)
          PROVE  conn_bans' = conn_bans
      BY <3>3 DEF CheckBegin, CheckIpBan, CheckIpRemove, CheckIpCount, CheckIpInsert, connMaps
    <3>4. ASSUME NEW a \in Acceptors, AcceptGet(a) \/ AcceptRemove(a)
          PROVE  conn_bans' = conn_bans
      BY <3>4 DEF AcceptGet, AcceptRemove, connMaps
    <3>5. CASE Cleanup
      BY <3>5 DEF Cleanup, CleanupBegin, CleanupConnCounters, CleanupIpCounters,
                  CleanupConnBans, CleanupIpBans, connMaps
    <3>6. CASE Tick
      BY <3>6 DEF Tick, connMaps
    <3> QED BY ONLY <3>1, <3>2, <3>3, <3>4, <3>5, <3>6, Next DEF Next, CheckAndRecord
  <2>3. conn_bans'[c] \in {0, conn_bans[c]}
    BY <2>1, <2>2, <2>n DEF BanIf, Unexpired
  <2> QED BY <2>3, <2>n, SMT
<1> QED BY <1>1, InvariantHolds, PTL DEF Spec, BanNotExtended

\* cleanup drops a counter only when its window is over for every reader, and
\* a ban only when it has expired, though it decides with a clock read earlier.
THEOREM SweepIsSafe == Spec => SweepForgetsOnlyStale
<1> DEFINE Safe ==
      cleaner # "idle" /\ cleaner' # cleaner =>
        /\ \A c \in Conns : conn_counters'[c] # conn_counters[c] =>
              clock - conn_counters[c].start >= ConnConfig.period
        /\ \A c \in Conns : conn_bans'[c] # conn_bans[c] => clock >= conn_bans[c]
<1>1. IInv /\ [Next]_vars => [Safe]_vars
  <2> SUFFICES ASSUME IInv, Next, cleaner # "idle", cleaner' # cleaner, NEW c \in Conns
               PROVE  /\ conn_counters'[c] # conn_counters[c] =>
                            clock - conn_counters[c].start >= ConnConfig.period
                      /\ conn_bans'[c] # conn_bans[c] => clock >= conn_bans[c]
    OBVIOUS
  <2>n. /\ clock \in Nat /\ cleanNow \in Nat /\ cleanNow <= clock
        /\ conn_bans \in [Conns -> Nat] /\ conn_counters \in [Conns -> Counters]
    BY SMT DEF IInv, TypeOK, Instants, Sampled
  <2>1. /\ conn_counters' = conn_counters \/ conn_counters' = Retained(conn_counters)
        /\ conn_bans' = conn_bans \/ conn_bans' = Unexpired(conn_bans)
    <3>1. ASSUME NEW d \in Conns, CheckAndRecord(d) PROVE cleaner' = cleaner
      BY <3>1 DEF CheckAndRecord, CheckBegin, CheckConnBan, CheckIpBan, CheckIpRemove,
                  CheckConnCount, CheckIpCount, CheckIpInsert, cleanVars
    <3>2. ASSUME NEW a \in Acceptors, AcceptGet(a) \/ AcceptRemove(a) PROVE cleaner' = cleaner
      BY <3>2 DEF AcceptGet, AcceptRemove, cleanVars
    <3>3. Tick => cleaner' = cleaner
      BY DEF Tick, cleanVars
    <3>4. Cleanup
      BY <3>1, <3>2, <3>3 DEF Next
    <3> QED BY ONLY <3>4 DEF Cleanup, CleanupBegin, CleanupConnCounters, CleanupIpCounters,
                             CleanupConnBans, CleanupIpBans, connMaps
  <2>2. ASSUME conn_counters'[c] # conn_counters[c]
        PROVE  clock - conn_counters[c].start >= ConnConfig.period
    <3>1. conn_counters[c] # Vacant /\ ~(Elapsed(cleanNow, conn_counters[c].start) < StaleThreshold)
      BY <2>1, <2>2, <2>n DEF Retained
    <3>2. ConnConfig # None
      BY <3>1 DEF IInv, Uncounted
    <3>3. /\ StaleThreshold >= 2 * ConnConfig.period /\ StaleThreshold \in Nat
          /\ ConnConfig.period \in Nat \ {0}
      BY <3>2, ThresholdCoversPeriod, LimiterAssumption DEF Limits
    <3>4. conn_counters[c].start \in Nat
      BY <2>n, SMT DEF Counters
    <3> QED BY <3>1, <3>3, <3>4, <2>n, SMT DEF Elapsed
  <2>3. ASSUME conn_bans'[c] # conn_bans[c] PROVE clock >= conn_bans[c]
    BY <2>1, <2>3, <2>n, SMT DEF Unexpired
  <2> QED BY <2>2, <2>3
<1> QED BY <1>1, InvariantHolds, PTL DEF Spec, SweepForgetsOnlyStale
=============================================================================
