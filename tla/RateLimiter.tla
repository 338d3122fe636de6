---------------------------- MODULE RateLimiter ----------------------------
(***************************************************************************)
(* RateLimiterState of wscall-server: fixed-window counters and bans per   *)
(* connection and per IP address, shared by the reader of every connection *)
(* (check_and_record), by the tasks that accept sockets (is_ip_banned) and *)
(* by the periodic cleanup.                                                *)
(*                                                                         *)
(* One action is one access of a DashMap.  What is keyed by a connection   *)
(* is touched by that connection's reader and by cleanup only; what is     *)
(* keyed by an IP address is shared by all its connections.                *)
(***************************************************************************)
EXTENDS Integers, Sequences, FiniteSetsExt

CONSTANTS
    Conns,       \* connections, each with one reader task
    Acceptors,   \* tasks that accept a socket
    Ips,
    IpOf,        \* the address of a connection or of an accepted socket
    None,        \* Option::None
    ConnConfig,  \* RateLimiter.connection: None or a RateLimitConfig
    IpConfig,    \* RateLimiter.ip
    BanDuration, \* RateLimiter.ban_duration: None or a duration
    FrameSizes,  \* lengths of inbound frames
    MaxTime,     \* bound: instants
    MaxFrames    \* bound: frames of one connection

Instants == 1 .. MaxTime
Limits == [period : Nat \ {0}, max_messages : Nat \cup {None}, max_bytes : Nat \cup {None}]

ASSUME LimiterAssumption ==
    /\ None \notin Nat \cup Limits
    /\ ConnConfig \in Limits \cup {None} /\ IpConfig \in Limits \cup {None}
    /\ BanDuration \in Nat \cup {None}
    /\ FrameSizes \subseteq Nat
    /\ MaxTime \in Nat \ {0} /\ MaxFrames \in Nat
    /\ Conns \cap Acceptors = {}
    /\ IpOf \in [Conns \cup Acceptors -> Ips]

ASSUME ConnsAssumption == IsFiniteSet(Conns)

VARIABLES
    clock,
    conn_counters, ip_counters,  \* WindowCounters; Vacant where there is none
    conn_bans, ip_bans,          \* expiry instants; 0 where there is none
    pc,                          \* progress of every reader and acceptor
    now, len, limited,           \* locals of check_and_record
    cleaner, cleanNow,           \* progress and local of cleanup
    frames,                      \* frames received so far
    passed,                      \* history: timestamps of the frames let through
    connBanned, ipBanned         \* history: the latest expiry ever set

readerVars == <<now, len, limited, frames>>
historyVars == <<passed, connBanned, ipBanned>>
cleanVars == <<cleaner, cleanNow>>
connMaps == <<conn_counters, conn_bans>>
ipMaps == <<ip_counters, ip_bans>>
vars == <<clock, connMaps, ipMaps, pc, readerVars, cleanVars, historyVars>>

Counters == [start : 0 .. MaxTime, msgs : Nat, bytes : Nat]
Vacant == [start |-> 0, msgs |-> 0, bytes |-> 0]
Steps == {"idle", "connban", "ipban", "ipremove", "conn", "ip", "ipinsert",
          "get", "remove", "accepted", "rejected"}
Sweeps == {"idle", "conn_counters", "ip_counters", "conn_bans", "ip_bans"}

\* Type invariant of the limiter: no window starts before the clock does, and
\* every task is at a step of its function.
TypeOK ==
    /\ clock \in Instants
    /\ conn_counters \in [Conns -> Counters] /\ ip_counters \in [Ips -> Counters]
    /\ conn_bans \in [Conns -> Nat] /\ ip_bans \in [Ips -> Nat]
    /\ pc \in [Conns \cup Acceptors -> Steps]
    /\ now \in [Conns -> 0 .. MaxTime] /\ len \in [Conns -> Nat]
    /\ limited \in [Conns -> BOOLEAN]
    /\ cleaner \in Sweeps /\ cleanNow \in 0 .. MaxTime
    /\ frames \in [Conns -> 0 .. MaxFrames]
    /\ passed \in [Conns -> Seq(Nat)]
    /\ connBanned \in [Conns -> Nat] /\ ipBanned \in [Ips -> Nat]

Init ==
    /\ clock = 1
    /\ conn_counters = [c \in Conns |-> Vacant] /\ ip_counters = [i \in Ips |-> Vacant]
    /\ conn_bans = [c \in Conns |-> 0] /\ ip_bans = [i \in Ips |-> 0]
    /\ pc = [a \in Conns \cup Acceptors |-> IF a \in Conns THEN "idle" ELSE "get"]
    /\ now = [c \in Conns |-> 0] /\ len = [c \in Conns |-> 0]
    /\ limited = [c \in Conns |-> FALSE]
    /\ cleaner = "idle" /\ cleanNow = 0
    /\ frames = [c \in Conns |-> 0]
    /\ passed = [c \in Conns |-> <<>>]
    /\ connBanned = [c \in Conns |-> 0] /\ ipBanned = [i \in Ips |-> 0]

----------------------------------------------------------------------------
(* WindowCounter                                                            *)

\* Instant::duration_since saturates at zero.
Elapsed(t, start) == IF t < start THEN 0 ELSE t - start

MaybeReset(ctr, t, cfg) ==
    IF Elapsed(t, ctr.start) >= cfg.period
    THEN [start |-> t, msgs |-> 0, bytes |-> 0] ELSE ctr

\* The counter after one more frame of n bytes at t.
Record(ctr, t, n, cfg) ==
    LET r == MaybeReset(ctr, t, cfg) IN
    [start |-> r.start, msgs |-> r.msgs + 1, bytes |-> r.bytes + n]

\* Mutant of FirstRecord: the window is opened in the past.
FirstRecordBackdated(t, n) == [start |-> t - 2, msgs |-> 1, bytes |-> n]

FirstRecord(t, n) == [start |-> t, msgs |-> 1, bytes |-> n]

\* Mutant of Exceeds: one message too many is tolerated.
ExceedsLax(ctr, cfg) ==
    \/ cfg.max_messages # None /\ ctr.msgs > cfg.max_messages + 1
    \/ cfg.max_bytes # None /\ ctr.bytes > cfg.max_bytes

Exceeds(ctr, cfg) ==
    \/ cfg.max_messages # None /\ ctr.msgs > cfg.max_messages
    \/ cfg.max_bytes # None /\ ctr.bytes > cfg.max_bytes

\* The first frame is only compared with a limit of zero.
FirstExceeds(cfg) == cfg.max_messages = 0 \/ cfg.max_bytes = 0

----------------------------------------------------------------------------
(* check_and_record                                                         *)

Goto(a, to) == pc' = [pc EXCEPT ![a] = to]

\* The frame gets its verdict: let through, or answered as busy.
Finish(c, allowed) ==
    /\ Goto(c, "idle")
    /\ passed' = IF allowed THEN [passed EXCEPT ![c] = Append(@, now[c])] ELSE passed

\* A frame arrives: Instant::now() is sampled once for the whole check.
CheckBegin(c) ==
    /\ pc[c] = "idle" /\ Goto(c, "connban")
    /\ frames[c] < MaxFrames /\ frames' = [frames EXCEPT ![c] = @ + 1]
    /\ now' = [now EXCEPT ![c] = clock]
    /\ \E n \in FrameSizes : len' = [len EXCEPT ![c] = n]
    /\ limited' = [limited EXCEPT ![c] = FALSE]
    /\ UNCHANGED <<clock, connMaps, ipMaps, cleanVars, historyVars>>

\* Mutant of CheckConnBan: a banned frame is still counted.
CheckConnBanCounts(c) ==
    /\ pc[c] = "connban" /\ Goto(c, "ipban")
    /\ UNCHANGED <<clock, connMaps, ipMaps, readerVars, cleanVars, historyVars>>

\* Only this reader inserts under its own key, so the lookup and the removal
\* of an expired ban are one step.
CheckConnBan(c) ==
    /\ pc[c] = "connban"
    /\ IF now[c] < conn_bans[c]
       THEN Finish(c, FALSE) /\ UNCHANGED conn_bans
       ELSE Goto(c, "ipban") /\ conn_bans' = [conn_bans EXCEPT ![c] = 0] /\ UNCHANGED passed
    /\ UNCHANGED <<clock, conn_counters, ipMaps, readerVars, cleanVars, connBanned, ipBanned>>

CheckIpBan(c) ==
    LET ban == ip_bans[IpOf[c]] IN
    /\ pc[c] = "ipban"
    /\ IF now[c] < ban THEN Finish(c, FALSE)
       ELSE Goto(c, IF ban = 0 THEN "conn" ELSE "ipremove") /\ UNCHANGED passed
    /\ UNCHANGED <<clock, connMaps, ipMaps, readerVars, cleanVars, connBanned, ipBanned>>

\* The guard was dropped: whatever ban is there now is removed.
CheckIpRemove(c) ==
    /\ pc[c] = "ipremove" /\ Goto(c, "conn")
    /\ ip_bans' = [ip_bans EXCEPT ![IpOf[c]] = 0]
    /\ UNCHANGED <<clock, connMaps, ip_counters, readerVars, cleanVars, historyVars>>

\* Ban key x of the map bans until now + ban_duration, if over.
BanIf(over, bans, x, t) ==
    IF over /\ BanDuration # None THEN [bans EXCEPT ![x] = t + BanDuration] ELSE bans

CheckConnCount(c) ==
    LET cfg == ConnConfig
        old == conn_counters[c]
        new == IF old = Vacant THEN FirstRecord(now[c], len[c])
                               ELSE Record(old, now[c], len[c], cfg)
        over == IF old = Vacant THEN FirstExceeds(cfg) ELSE Exceeds(new, cfg) IN
    /\ pc[c] = "conn" /\ Goto(c, "ip")
    /\ IF cfg = None THEN UNCHANGED <<connMaps, limited, connBanned>>
       ELSE /\ conn_counters' = [conn_counters EXCEPT ![c] = new]
            /\ limited' = [limited EXCEPT ![c] = @ \/ over]
            /\ conn_bans' = BanIf(over, conn_bans, c, now[c])
            /\ connBanned' = BanIf(over, connBanned, c, now[c])
    /\ UNCHANGED <<clock, ipMaps, now, len, frames, cleanVars, passed, ipBanned>>

\* get_mut holds the entry while the ban is inserted; an absent entry is
\* inserted by a separate access.
CheckIpCount(c) ==
    LET cfg == IpConfig
        i == IpOf[c]
        new == Record(ip_counters[i], now[c], len[c], cfg)
        over == Exceeds(new, cfg) IN
    /\ pc[c] = "ip"
    /\ CASE cfg = None ->
              Finish(c, ~limited[c]) /\ UNCHANGED <<ipMaps, ipBanned>>
         [] cfg # None /\ ip_counters[i] = Vacant ->
              Goto(c, "ipinsert") /\ UNCHANGED <<ipMaps, passed, ipBanned>>
         [] OTHER ->
              /\ ip_counters' = [ip_counters EXCEPT ![i] = new]
              /\ ip_bans' = BanIf(over, ip_bans, i, now[c])
              /\ ipBanned' = BanIf(over, ipBanned, i, now[c])
              /\ Finish(c, ~limited[c] /\ ~over)
    /\ UNCHANGED <<clock, connMaps, readerVars, cleanVars, connBanned>>

CheckIpInsert(c) ==
    LET i == IpOf[c]
        over == FirstExceeds(IpConfig) IN
    /\ pc[c] = "ipinsert"
    /\ ip_counters' = [ip_counters EXCEPT ![i] = FirstRecord(now[c], len[c])]
    /\ ip_bans' = BanIf(over, ip_bans, i, now[c])
    /\ ipBanned' = BanIf(over, ipBanned, i, now[c])
    /\ Finish(c, ~limited[c] /\ ~over)
    /\ UNCHANGED <<clock, connMaps, readerVars, cleanVars, connBanned>>

CheckAndRecord(c) ==
    \/ CheckBegin(c) \/ CheckConnBan(c) \/ CheckIpBan(c) \/ CheckIpRemove(c)
    \/ CheckConnCount(c) \/ CheckIpCount(c) \/ CheckIpInsert(c)

----------------------------------------------------------------------------
(* is_ip_banned, once per accepted socket                                   *)

AcceptGet(a) ==
    LET ban == ip_bans[IpOf[a]] IN
    /\ pc[a] = "get"
    /\ Goto(a, CASE ban = 0 -> "accepted"
                 [] ban # 0 /\ clock < ban -> "rejected"
                 [] OTHER -> "remove")
    /\ UNCHANGED <<clock, connMaps, ipMaps, readerVars, cleanVars, historyVars>>

AcceptRemove(a) ==
    /\ pc[a] = "remove" /\ Goto(a, "accepted")
    /\ ip_bans' = [ip_bans EXCEPT ![IpOf[a]] = 0]
    /\ UNCHANGED <<clock, connMaps, ip_counters, readerVars, cleanVars, historyVars>>

----------------------------------------------------------------------------
(* cleanup, run by the task listen() spawns                                 *)

Periods == {cfg.period : cfg \in {ConnConfig, IpConfig} \ {None}}

\* Mutant of StaleThreshold: entries are evicted while their window is open.
StaleThresholdShort == Max(Periods) - 1

StaleThreshold == 2 * Max(Periods)

CleanupBegin ==
    /\ cleaner = "idle" /\ Periods # {} /\ cleaner' = "conn_counters"
    /\ cleanNow' = clock
    /\ UNCHANGED <<clock, connMaps, ipMaps, pc, readerVars, historyVars>>

Retained(counters) ==
    [x \in DOMAIN counters |->
        IF Elapsed(cleanNow, counters[x].start) < StaleThreshold THEN counters[x] ELSE Vacant]

\* Mutant of Unexpired: every ban is swept away.
UnexpiredNone(bans) == [x \in DOMAIN bans |-> 0]

Unexpired(bans) == [x \in DOMAIN bans |-> IF cleanNow < bans[x] THEN bans[x] ELSE 0]

CleanupConnCounters ==
    /\ cleaner = "conn_counters" /\ cleaner' = "ip_counters"
    /\ conn_counters' = Retained(conn_counters)
    /\ UNCHANGED <<clock, conn_bans, ipMaps, pc, readerVars, cleanNow, historyVars>>

CleanupIpCounters ==
    /\ cleaner = "ip_counters" /\ cleaner' = "conn_bans"
    /\ ip_counters' = Retained(ip_counters)
    /\ UNCHANGED <<clock, connMaps, ip_bans, pc, readerVars, cleanNow, historyVars>>

CleanupConnBans ==
    /\ cleaner = "conn_bans" /\ cleaner' = "ip_bans"
    /\ conn_bans' = Unexpired(conn_bans)
    /\ UNCHANGED <<clock, conn_counters, ipMaps, pc, readerVars, cleanNow, historyVars>>

CleanupIpBans ==
    /\ cleaner = "ip_bans" /\ cleaner' = "idle"
    /\ ip_bans' = Unexpired(ip_bans)
    /\ UNCHANGED <<clock, connMaps, ip_counters, pc, readerVars, cleanNow, historyVars>>

Cleanup ==
    \/ CleanupBegin \/ CleanupConnCounters \/ CleanupIpCounters
    \/ CleanupConnBans \/ CleanupIpBans

Tick ==
    /\ clock < MaxTime /\ clock' = clock + 1
    /\ UNCHANGED <<connMaps, ipMaps, pc, readerVars, cleanVars, historyVars>>

Next ==
    \/ \E c \in Conns : CheckAndRecord(c)
    \/ \E a \in Acceptors : AcceptGet(a) \/ AcceptRemove(a)
    \/ Cleanup
    \/ Tick

Spec == Init /\ [][Next]_vars

----------------------------------------------------------------------------
(* Properties.                                                              *)

\* The frames of connection c let through in [t, t + d).
PassedIn(c, t, d) == {j \in DOMAIN passed[c] : t <= passed[c][j] /\ passed[c][j] < t + d}

Limited(cfg) == cfg # None /\ cfg.max_messages # None

\* Fixed windows, lazily reset and swept by cleanup at any moment, still bound
\* a burst: in no interval of one period does a connection get more than twice
\* max_messages through.
ConnBurstBound ==
    Limited(ConnConfig) =>
        \A c \in Conns, t \in Instants :
            Cardinality(PassedIn(c, t, ConnConfig.period)) <= 2 * ConnConfig.max_messages

\* A connection's ban holds until it expires: no lazy removal, sweep or later
\* frame lets a frame through before the expiry last set.
ConnBanHolds ==
    [][\A c \in Conns : passed'[c] # passed[c] => clock >= connBanned[c]]_vars

\* The sweep only forgets what no longer matters: a counter whose window is
\* over for every reader, and a ban that has expired.
SweepForgetsOnlyStale ==
    [][cleaner # "idle" /\ cleaner' # cleaner =>
        /\ \A c \in Conns : conn_counters'[c] # conn_counters[c] =>
              clock - conn_counters[c].start >= ConnConfig.period
        /\ \A c \in Conns : conn_bans'[c] # conn_bans[c] => clock >= conn_bans[c]]_vars

\* A connection that keeps sending does not prolong its own ban.
BanNotExtended ==
    [][\A c \in Conns : clock < conn_bans[c] => conn_bans'[c] <= conn_bans[c]]_vars

\* Frames let through in the first period, on any connection of address i.
IpPassed(i) ==
    UNION {{c} \X PassedIn(c, 1, IpConfig.period) : c \in {d \in Conns : IpOf[d] = i}}

\* Two readers that both find no counter for their address both insert one,
\* and the second insert forgets what the first has counted; and a frame that
\* stalls between its timestamp and its check is counted in a later window, or
\* after cleanup has forgotten its own.  The damage is bounded: each connection
\* can hand its address one more allowance, and one stalled frame.
IpRaceBound ==
    Limited(IpConfig) =>
        \A i \in Ips :
            Cardinality(IpPassed(i)) <=
                Cardinality({c \in Conns : IpOf[c] = i}) * (IpConfig.max_messages + 1)

\* "New connections from a banned IP are rejected before the WebSocket
\* handshake": no socket is accepted while the ban last set on its address runs.
BannedIpRejected ==
    [][\A a \in Acceptors :
        pc[a] = "get" /\ pc'[a] = "accepted" => clock >= ipBanned[IpOf[a]]]_vars
=============================================================================
