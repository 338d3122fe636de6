------------------------ MODULE LimiterBoundsProofs ------------------------
(***************************************************************************)
(* How much the rate limiter lets through at most: a connection in any     *)
(* period, and the connections of an address that race for its first       *)
(* frames.  For any connections, addresses, limits and bounds.             *)
(***************************************************************************)
EXTENDS RateLimiterProofs, WellFoundedInduction

\* Leaves are first-order reasoning unless they name SMT.
USE Zenon

----------------------------------------------------------------------------
(* The burst a connection gets through.  A window that opens finds all but  *)
(* the last max_messages - 1 frames a period old; a counter dropped while a *)
(* frame of its window is on its way costs one frame more.                  *)

\* Steps of a frame that has its timestamp and is not counted yet.
Waiting == {"connban", "ipban", "ipremove", "conn"}

\* The frames let through, and the one the connection's limit has just allowed.
Admitted(c) ==
    IF pc[c] \in {"ip", "ipinsert"} /\ ~limited[c]
    THEN Append(passed[c], now[c]) ELSE passed[c]

\* No frame of the connection will be counted with an earlier timestamp.
Due(c) == IF pc[c] \in Waiting THEN now[c] ELSE clock

\* Timestamps ascend and lie in the past.
Ascending(q, f) == \A i, j \in DOMAIN q : i <= j => q[i] <= q[j] /\ q[j] <= f

\* Frames 2 * m apart are a period p apart.
Spread(q, m, p) == \A i, j \in DOMAIN q : j - i >= 2 * m => q[i] + p <= q[j]

\* All but the last m - 1 frames are a period before f, when a window opens.
Ready(q, ctr, f, m, p) ==
    /\ \A i \in DOMAIN q : i <= Len(q) - m + 1 => q[i] + p <= f
    /\ ctr = Vacant \/ ctr.start + p <= f

\* The frames after the h-th were let through in the window of ctr.
OpenAfter(h, q, ctr, m, p) ==
    /\ \A i \in 1 .. h : q[i] <= ctr.start /\ (i <= h - m + 1 => q[i] + p <= ctr.start)
    /\ Len(q) - h <= ctr.msgs /\ Len(q) - h <= m
    /\ h < Len(q) /\ (Len(q) - h = ctr.msgs \/ Len(q) - h = m) => q[h + 1] = ctr.start

Open(q, ctr, f, m, p) ==
    /\ ctr # Vacant /\ ctr.msgs >= 1 /\ ctr.start <= f
    /\ \E h \in 0 .. Len(q) : OpenAfter(h, q, ctr, m, p)

\* cleanup has dropped the counter of a window that t still falls into: one
\* frame more gets through, and the next comes a period later.
Late(q, ctr, t, clk, m, p) ==
    /\ ctr = Vacant /\ t + p <= clk
    /\ \A i \in DOMAIN q : i <= Len(q) + 1 - 2 * m => q[i] + p <= t

Windowed(c, m, p) ==
    /\ Ascending(Admitted(c), Due(c)) /\ Spread(Admitted(c), m, p)
    /\ \/ Ready(Admitted(c), conn_counters[c], Due(c), m, p)
       \/ Open(Admitted(c), conn_counters[c], Due(c), m, p)
       \/ pc[c] \in Waiting /\ Late(Admitted(c), conn_counters[c], now[c], clock, m, p)

\* The counters against the frames they let through.
BurstInv ==
    Limited(ConnConfig) =>
        \A c \in Conns : Windowed(c, ConnConfig.max_messages, ConnConfig.period)

\* As time passes, a window that may open still may, and an open one is open.
LEMMA WindowLater ==
  ASSUME NEW q \in Seq(Nat), NEW ctr \in Counters, NEW f \in Nat, NEW g \in Nat, f <= g,
         NEW m \in Nat, NEW p \in Nat
  PROVE  /\ Ascending(q, f) => Ascending(q, g)
         /\ Ready(q, ctr, f, m, p) => Ready(q, ctr, g, m, p)
         /\ Open(q, ctr, f, m, p) => Open(q, ctr, g, m, p)
<1>1. \A i \in DOMAIN q : q[i] \in Nat
  BY SMT
<1>2. ctr.start \in Nat
  BY SMT DEF Counters
<1> QED BY <1>1, <1>2, SMT DEF Ascending, Ready, Open

\* A window that is over by f is as good as none.
LEMMA WindowOver ==
  ASSUME NEW q \in Seq(Nat), NEW ctr \in Counters, NEW f \in Nat,
         NEW m \in Nat, NEW p \in Nat,
         Open(q, ctr, f, m, p), ctr.start + p <= f
  PROVE  Ready(q, ctr, f, m, p) /\ Ready(q, Vacant, f, m, p)
<1>1. PICK h \in 0 .. Len(q) : OpenAfter(h, q, ctr, m, p)
  BY DEF Open
<1>2. Len(q) \in Nat /\ DOMAIN q = 1 .. Len(q) /\ \A i \in 1 .. Len(q) : q[i] \in Nat
  BY SMT
<1>3. ctr.start \in Nat /\ ctr.msgs \in Nat
  BY SMT DEF Counters
<1>4. ASSUME NEW i \in 1 .. Len(q), i <= Len(q) - m + 1 PROVE q[i] + p <= f
  <2>1. /\ \A j \in 1 .. h : q[j] <= ctr.start
        /\ Len(q) - h <= m
        /\ h < Len(q) /\ Len(q) - h = m => q[h + 1] = ctr.start
    BY <1>1 DEF OpenAfter
  <2>2. i \in Nat /\ h \in Nat /\ i >= 1 /\ i <= Len(q) /\ h <= Len(q) /\ Len(q) \in Nat
    BY <1>2, SMT
  <2>3. i \in 1 .. h \/ (i = h + 1 /\ h < Len(q) /\ Len(q) - h = m)
    BY <1>4, <2>1, <2>2, SMT
  <2>4. q[i] <= ctr.start
    <3>1. CASE i \in 1 .. h
      BY <2>1, <3>1
    <3>2. CASE i = h + 1 /\ h < Len(q) /\ Len(q) - h = m
      <4>1. q[i] = ctr.start
        BY <2>1, <3>2
      <4> QED BY ONLY <1>3, <4>1
    <3> QED BY <2>3, <3>1, <3>2
  <2>5. q[i] \in Nat
    BY <1>2
  <2> QED BY ONLY <1>3, <2>4, <2>5, ctr.start + p <= f, p \in Nat, f \in Nat
<1> QED BY <1>2, <1>4 DEF Ready

\* Taking back the last frame allowed.
LEMMA WindowFront ==
  ASSUME NEW q \in Seq(Nat), NEW t \in Nat, NEW ctr \in Counters, NEW f \in Nat,
         NEW m \in Nat, NEW p \in Nat
  PROVE  /\ Ascending(Append(q, t), f) => Ascending(q, f)
         /\ Spread(Append(q, t), m, p) => Spread(q, m, p)
         /\ Ready(Append(q, t), ctr, f, m, p) => Ready(q, ctr, f, m, p)
         /\ Open(Append(q, t), ctr, f, m, p) => Open(q, ctr, f, m, p)
<1> DEFINE r == Append(q, t)
<1>1. /\ Len(q) \in Nat /\ Len(r) = Len(q) + 1
      /\ DOMAIN q = 1 .. Len(q) /\ DOMAIN r = 1 .. Len(q) + 1
      /\ \A i \in 1 .. Len(q) : r[i] = q[i] /\ q[i] \in Nat
  BY SMT
<1> HIDE DEF r
<1>2. \A i \in 1 .. Len(q) : i \in 1 .. Len(q) + 1
  BY <1>1, SMT
<1>3. Ascending(r, f) => Ascending(q, f)
  BY <1>1, <1>2 DEF Ascending
<1>4. Spread(r, m, p) => Spread(q, m, p)
  BY <1>1, <1>2, SMT DEF Spread
<1>5. Ready(r, ctr, f, m, p) => Ready(q, ctr, f, m, p)
  BY <1>1, <1>2, SMT DEF Ready
<1>6. ASSUME Open(r, ctr, f, m, p) PROVE Open(q, ctr, f, m, p)
  <2>1. PICK h \in 0 .. Len(r) : OpenAfter(h, r, ctr, m, p)
    BY <1>6 DEF Open
  <2>2. ctr.start \in Nat /\ ctr.msgs \in Nat
    BY SMT DEF Counters
  <2>3. CASE h <= Len(q)
    <3>1. h \in 0 .. Len(q)
      BY <1>1, <2>3, SMT
    <3>2. \A i \in 1 .. h : q[i] <= ctr.start /\ (i <= h - m + 1 => q[i] + p <= ctr.start)
      BY <1>1, <2>1, <3>1, SMT DEF OpenAfter
    <3>3. Len(q) - h < ctr.msgs /\ Len(q) - h < m
      BY <1>1, <2>1, <2>2, <3>1, SMT DEF OpenAfter
    <3>4. /\ Len(q) - h <= ctr.msgs /\ Len(q) - h <= m
          /\ Len(q) - h # ctr.msgs /\ Len(q) - h # m
      <4>1. Len(q) - h \in Int
        BY <1>1, <3>1, SMT
      <4> QED BY ONLY <2>2, <3>3, <4>1, m \in Nat
    <3>5. OpenAfter(h, q, ctr, m, p)
      BY <3>2, <3>4 DEF OpenAfter
    <3> QED BY <1>6, <3>1, <3>5 DEF Open
  <2>4. CASE h = Len(q) + 1
    <3>1. \A i \in 1 .. Len(q) : /\ q[i] <= ctr.start
                                 /\ i <= Len(q) - m + 1 => q[i] + p <= ctr.start
      BY <1>1, <2>1, <2>4, SMT DEF OpenAfter
    <3>2. OpenAfter(Len(q), q, ctr, m, p)
      BY <1>1, <2>2, <3>1, SMT DEF OpenAfter
    <3> QED BY <1>1, <1>6, <3>2, SMT DEF Open
  <2> QED BY <1>1, <2>1, <2>3, <2>4, SMT
<1> QED BY <1>3, <1>4, <1>5, <1>6 DEF r

\* A window opens at t: its first frame is let through, or not.
LEMMA WindowOpens ==
  ASSUME NEW q \in Seq(Nat), NEW t \in Nat, NEW ctr \in Counters, NEW old, NEW allowed,
         NEW m \in Nat, NEW p \in Nat \ {0},
         Ascending(q, t), Spread(q, m, p), Ready(q, old, t, m, p),
         ctr.start = t, ctr.msgs = 1, allowed => m >= 1
  PROVE  LET r == IF allowed THEN Append(q, t) ELSE q IN
         Ascending(r, t) /\ Spread(r, m, p) /\ Open(r, ctr, t, m, p)
<1>1. Len(q) \in Nat /\ DOMAIN q = 1 .. Len(q) /\ \A i \in 1 .. Len(q) : q[i] \in Nat
  BY SMT
<1>2. ctr # Vacant
  BY SMT DEF Vacant
<1>3. \A i \in 1 .. Len(q) : q[i] <= t /\ (i <= Len(q) - m + 1 => q[i] + p <= t)
  BY <1>1, SMT DEF Ascending, Ready
<1>4. CASE ~allowed
  <2>1. OpenAfter(Len(q), q, ctr, m, p)
    BY <1>1, <1>3, SMT DEF OpenAfter
  <2> QED BY <1>1, <1>2, <1>4, <2>1, SMT DEF Open
<1>5. CASE allowed
  <2> DEFINE r == Append(q, t)
  <2>1. /\ Len(r) = Len(q) + 1 /\ DOMAIN r = 1 .. Len(q) + 1 /\ r[Len(q) + 1] = t
        /\ \A i \in 1 .. Len(q) : r[i] = q[i]
    BY <1>1, SMT
  <2> HIDE DEF r
  <2>2. Ascending(r, t)
    <3> SUFFICES ASSUME NEW i \in 1 .. Len(q) + 1, NEW j \in 1 .. Len(q) + 1, i <= j
                 PROVE  r[i] <= r[j] /\ r[j] <= t
      BY <2>1 DEF Ascending
    <3>1. CASE j \in 1 .. Len(q)
      <4>1. i \in 1 .. Len(q)
        BY <1>1, <3>1, SMT
      <4> QED BY <1>1, <2>1, <3>1, <4>1 DEF Ascending
    <3>2. CASE j = Len(q) + 1
      <4>1. i = Len(q) + 1 \/ i \in 1 .. Len(q)
        BY <1>1, SMT
      <4>2. r[i] <= t
        BY <1>3, <2>1, <4>1, SMT
      <4> QED BY <2>1, <3>2, <4>2, SMT
    <3> QED BY <1>1, <3>1, <3>2, SMT
  <2>3. Spread(r, m, p)
    <3> SUFFICES ASSUME NEW i \in 1 .. Len(q) + 1, NEW j \in 1 .. Len(q) + 1, j - i >= 2 * m
                 PROVE  r[i] + p <= r[j]
      BY <2>1 DEF Spread
    <3>1. m >= 1 /\ i \in 1 .. Len(q)
      BY <1>1, <1>5, SMT
    <3>2. CASE j \in 1 .. Len(q)
      BY <1>1, <2>1, <3>1, <3>2 DEF Spread
    <3>3. CASE j = Len(q) + 1
      <4>1. i <= Len(q) - m + 1
        BY <1>1, <3>1, <3>3, SMT
      <4> QED BY <1>3, <2>1, <3>1, <3>3, <4>1
    <3> QED BY <1>1, <3>2, <3>3, SMT
  <2>4. OpenAfter(Len(q), r, ctr, m, p)
    BY <1>1, <1>3, <1>5, <2>1, SMT DEF OpenAfter
  <2>5. Open(r, ctr, t, m, p)
    BY <1>1, <1>2, <2>1, <2>4, SMT DEF Open
  <2> QED BY <1>5, <2>2, <2>3, <2>5 DEF r
<1> QED BY <1>4, <1>5

\* One more frame is counted in an open window.
LEMMA WindowGoesOn ==
  ASSUME NEW q \in Seq(Nat), NEW t \in Nat, NEW old \in Counters, NEW ctr \in Counters,
         NEW allowed, NEW m \in Nat, NEW p \in Nat \ {0},
         Ascending(q, t), Spread(q, m, p), Open(q, old, t, m, p),
         ctr.start = old.start, ctr.msgs = old.msgs + 1, allowed => ctr.msgs <= m
  PROVE  LET r == IF allowed THEN Append(q, t) ELSE q IN
         Ascending(r, t) /\ Spread(r, m, p) /\ Open(r, ctr, t, m, p)
<1>1. Len(q) \in Nat /\ DOMAIN q = 1 .. Len(q) /\ \A i \in 1 .. Len(q) : q[i] \in Nat
  BY SMT
<1>2. /\ old.start \in Nat /\ old.msgs \in Nat /\ ctr.start \in Nat /\ ctr.msgs \in Nat
      /\ old.msgs >= 1 /\ old.start <= t
  BY SMT DEF Counters, Open
<1>3. ctr # Vacant
  BY <1>2, SMT DEF Vacant
<1>4. PICK h \in 0 .. Len(q) : OpenAfter(h, q, old, m, p)
  BY DEF Open
<1>5. /\ \A i \in 1 .. h : q[i] <= ctr.start /\ (i <= h - m + 1 => q[i] + p <= ctr.start)
      /\ Len(q) - h <= old.msgs /\ Len(q) - h <= m
      /\ h < Len(q) /\ Len(q) - h = old.msgs => q[h + 1] = ctr.start
      /\ h < Len(q) /\ Len(q) - h = m => q[h + 1] = ctr.start
  BY <1>4 DEF OpenAfter
<1>6. h \in Nat /\ h <= Len(q)
  BY <1>1, SMT
<1>n. /\ Len(q) \in Nat /\ h \in Nat /\ h <= Len(q) /\ m \in Nat
      /\ old.msgs \in Nat /\ old.msgs >= 1 /\ ctr.msgs = old.msgs + 1
      /\ Len(q) - h <= old.msgs /\ Len(q) - h <= m
  BY <1>1, <1>2, <1>5, <1>6
<1>a. \A i \in 1 .. Len(q) : q[i] <= t
  <2>1. \A i \in 1 .. Len(q) : i <= i
    BY ONLY <1>1
  <2> QED BY ONLY <1>1, <2>1, Ascending(q, t) DEF Ascending
<1>7. CASE ~allowed
  <2>1. Len(q) - h <= ctr.msgs /\ Len(q) - h # ctr.msgs
    BY ONLY <1>n
  <2>2. OpenAfter(h, q, ctr, m, p)
    BY <1>5, <2>1 DEF OpenAfter
  <2> QED BY <1>1, <1>2, <1>3, <1>6, <1>7, <2>2, SMT DEF Open
<1>8. CASE allowed
  <2> DEFINE r == Append(q, t)
  <2>1. /\ Len(r) = Len(q) + 1 /\ DOMAIN r = 1 .. Len(q) + 1 /\ r[Len(q) + 1] = t
        /\ \A i \in 1 .. Len(q) : r[i] = q[i]
    BY <1>1, SMT
  <2> HIDE DEF r
  <2>2. \A i \in 1 .. Len(q) : q[i] <= t
    BY <1>a
  <2>3. Ascending(r, t)
    <3> SUFFICES ASSUME NEW i \in 1 .. Len(q) + 1, NEW j \in 1 .. Len(q) + 1, i <= j
                 PROVE  r[i] <= r[j] /\ r[j] <= t
      BY <2>1 DEF Ascending
    <3>1. CASE j \in 1 .. Len(q)
      <4>1. i \in 1 .. Len(q)
        BY <1>1, <3>1, SMT
      <4> QED BY <1>1, <2>1, <3>1, <4>1 DEF Ascending
    <3>2. CASE j = Len(q) + 1
      <4>1. i = Len(q) + 1 \/ i \in 1 .. Len(q)
        BY <1>1, SMT
      <4>2. r[i] <= t
        BY <2>1, <2>2, <4>1, SMT
      <4> QED BY <2>1, <3>2, <4>2, SMT
    <3> QED BY <1>1, <3>1, <3>2, SMT
  <2>4. Len(q) + 1 - h <= ctr.msgs /\ Len(q) + 1 - h <= m /\ m >= 1
    BY ONLY <1>n, <1>8, allowed => ctr.msgs <= m
  <2>5. Spread(r, m, p)
    <3> SUFFICES ASSUME NEW i \in 1 .. Len(q) + 1, NEW j \in 1 .. Len(q) + 1, j - i >= 2 * m
                 PROVE  r[i] + p <= r[j]
      BY <2>1 DEF Spread
    <3>1. i \in 1 .. Len(q)
      BY <1>1, <2>4, SMT
    <3>2. CASE j \in 1 .. Len(q)
      BY <1>1, <2>1, <3>1, <3>2 DEF Spread
    <3>3. CASE j = Len(q) + 1
      <4>1. i \in 1 .. h /\ i <= h - m + 1
        BY <1>1, <1>6, <2>4, <3>1, <3>3, SMT
      <4>2. r[i] + p <= ctr.start
        BY <1>5, <2>1, <3>1, <4>1
      <4>3. r[i] \in Nat /\ r[j] = t
        BY <1>1, <2>1, <3>1, <3>3
      <4> QED BY ONLY <1>2, <4>2, <4>3, ctr.start = old.start, t \in Nat, p \in Nat \ {0}
    <3> QED BY <1>1, <3>2, <3>3, SMT
  <2>6. Open(r, ctr, t, m, p)
    <3>1. \A i \in 1 .. h : r[i] = q[i]
      BY <1>1, <1>6, <2>1, SMT
    <3>2. h + 1 \in 1 .. Len(q) + 1 /\ Len(r) - h = Len(q) + 1 - h
      BY <1>1, <1>6, <2>1, SMT
    <3>3. ASSUME Len(q) + 1 - h = ctr.msgs \/ Len(q) + 1 - h = m PROVE r[h + 1] = ctr.start
      <4>1. Len(q) - h = old.msgs /\ h < Len(q)
        <5>1. ctr.msgs <= m
          BY <1>8
        <5>2. Len(q) + 1 - h = ctr.msgs
          <6>1. CASE Len(q) + 1 - h = m
            BY ONLY <1>n, <2>4, <5>1, <6>1
          <6> QED BY <3>3, <6>1
        <5>3. ASSUME NEW n \in Nat, NEW k \in Nat, NEW x \in Nat, x >= 1, n + 1 - k = x + 1
              PROVE  n - k = x /\ k < n
          BY ONLY <5>3
        <5>4. Len(q) + 1 - h = old.msgs + 1
          BY <1>n, <5>2
        <5> QED BY <1>n, <5>3, <5>4
      <4>2. h + 1 \in 1 .. Len(q)
        BY <1>1, <1>6, <4>1, SMT
      <4> QED BY <1>5, <2>1, <4>1, <4>2
    <3>4. OpenAfter(h, r, ctr, m, p)
      BY <1>5, <2>1, <2>4, <3>1, <3>2, <3>3 DEF OpenAfter
    <3>5. h \in 0 .. Len(r) /\ ctr.msgs >= 1 /\ ctr.start <= t
      BY <1>1, <1>2, <1>6, <2>1, SMT
    <3> QED BY <1>3, <3>4, <3>5 DEF Open
  <2> QED BY <1>8, <2>3, <2>5, <2>6 DEF r
<1> QED BY <1>7, <1>8

\* The counter of a window is dropped, a period after that window at the
\* earliest: either no frame can fall into it any more, or one is late.
LEMMA WindowDropped ==
  ASSUME NEW q \in Seq(Nat), NEW ctr \in Counters, NEW f \in Nat, NEW clk \in Nat,
         NEW m \in Nat, NEW p \in Nat \ {0},
         Open(q, ctr, f, m, p), ctr.start + 2 * p <= clk
  PROVE  Ready(q, Vacant, f, m, p) \/ (f < clk /\ Late(q, Vacant, f, clk, m, p))
<1>1. Len(q) \in Nat /\ DOMAIN q = 1 .. Len(q) /\ \A i \in 1 .. Len(q) : q[i] \in Nat
  BY SMT
<1>2. ctr.start \in Nat /\ ctr.start <= f
  BY SMT DEF Counters, Open
<1>3. CASE ctr.start + p <= f
  BY <1>3, WindowOver
<1>4. CASE f < ctr.start + p
  <2>1. PICK h \in 0 .. Len(q) : OpenAfter(h, q, ctr, m, p)
    BY DEF Open
  <2>2. /\ \A i \in 1 .. h : i <= h - m + 1 => q[i] + p <= ctr.start
        /\ Len(q) - h <= m
    BY <2>1 DEF OpenAfter
  <2>3. h \in Nat /\ h <= Len(q)
    BY <1>1, SMT
  <2>4. f < clk /\ f + p <= clk
    BY <1>2, <1>4, SMT
  <2>5. ASSUME NEW i \in 1 .. Len(q), i <= Len(q) + 1 - 2 * m PROVE q[i] + p <= f
    <3>1. i \in 1 .. h /\ i <= h - m + 1
      BY <1>1, <2>2, <2>3, <2>5, SMT
    <3>2. q[i] + p <= ctr.start /\ q[i] \in Nat
      BY <1>1, <2>2, <3>1
    <3> QED BY ONLY <1>2, <3>2, f \in Nat, p \in Nat \ {0}
  <2> QED BY <1>1, <2>4, <2>5 DEF Late
<1> QED BY <1>2, <1>3, <1>4, SMT

\* The late frame is turned away for another reason.
LEMMA LateMissed ==
  ASSUME NEW q \in Seq(Nat), NEW ctr, NEW t \in Nat, NEW clk \in Nat,
         NEW m \in Nat, NEW p \in Nat \ {0}, Ascending(q, t), Late(q, ctr, t, clk, m, p)
  PROVE  Ready(q, ctr, clk, m, p)
<1>1. \A i \in DOMAIN q : q[i] \in Nat /\ q[i] <= t
  BY SMT DEF Ascending
<1>2. t + p <= clk /\ ctr = Vacant
  BY DEF Late
<1>3. \A i \in DOMAIN q : q[i] + p <= clk
  BY <1>1, <1>2, SMT
<1> QED BY <1>2, <1>3 DEF Ready

\* The late frame is counted in a window of its own, which is over already.
LEMMA LateCounted ==
  ASSUME NEW q \in Seq(Nat), NEW old, NEW ctr, NEW t \in Nat, NEW clk \in Nat, NEW allowed,
         NEW m \in Nat, NEW p \in Nat \ {0},
         Ascending(q, t), Spread(q, m, p), Late(q, old, t, clk, m, p),
         ctr.start = t, allowed => m >= 1
  PROVE  LET r == IF allowed THEN Append(q, t) ELSE q IN
         Ascending(r, clk) /\ Spread(r, m, p) /\ Ready(r, ctr, clk, m, p)
<1>1. Len(q) \in Nat /\ DOMAIN q = 1 .. Len(q) /\ \A i \in 1 .. Len(q) : q[i] \in Nat
  BY SMT
<1>2. \A i \in 1 .. Len(q) : q[i] <= t
  BY <1>1, SMT DEF Ascending
<1>3. t + p <= clk /\ t <= clk
  BY SMT DEF Late
<1>4. CASE ~allowed
  <2>1. \A i \in 1 .. Len(q) : q[i] + p <= clk /\ q[i] <= clk
    BY <1>1, <1>2, <1>3, SMT
  <2> QED BY <1>1, <1>3, <1>4, <2>1 DEF Ascending, Ready
<1>5. CASE allowed
  <2> DEFINE r == Append(q, t)
  <2>1. /\ Len(r) = Len(q) + 1 /\ DOMAIN r = 1 .. Len(q) + 1 /\ r[Len(q) + 1] = t
        /\ \A i \in 1 .. Len(q) : r[i] = q[i]
    BY <1>1, SMT
  <2> HIDE DEF r
  <2>2. \A i \in 1 .. Len(q) + 1 : r[i] \in Nat /\ r[i] <= t
    <3>1. \A i \in 1 .. Len(q) + 1 : i \in 1 .. Len(q) \/ i = Len(q) + 1
      BY <1>1, SMT
    <3> QED BY <1>1, <1>2, <2>1, <3>1, SMT
  <2>3. \A i \in 1 .. Len(q) + 1 : r[i] + p <= clk /\ r[i] <= clk
    BY <1>3, <2>2, SMT
  <2>4. Ready(r, ctr, clk, m, p)
    BY <1>3, <2>1, <2>3 DEF Ready
  <2>5. Ascending(r, clk)
    <3> SUFFICES ASSUME NEW i \in 1 .. Len(q) + 1, NEW j \in 1 .. Len(q) + 1, i <= j
                 PROVE  r[i] <= r[j]
      BY <2>1, <2>3 DEF Ascending
    <3>1. CASE j \in 1 .. Len(q)
      <4>1. i \in 1 .. Len(q)
        BY <1>1, <3>1, SMT
      <4> QED BY <1>1, <2>1, <3>1, <4>1 DEF Ascending
    <3>2. CASE j = Len(q) + 1
      BY <2>1, <2>2, <3>2
    <3> QED BY <1>1, <3>1, <3>2, SMT
  <2>6. Spread(r, m, p)
    <3> SUFFICES ASSUME NEW i \in 1 .. Len(q) + 1, NEW j \in 1 .. Len(q) + 1, j - i >= 2 * m
                 PROVE  r[i] + p <= r[j]
      BY <2>1 DEF Spread
    <3>1. i \in 1 .. Len(q)
      BY <1>1, <1>5, SMT
    <3>2. CASE j \in 1 .. Len(q)
      BY <1>1, <2>1, <3>1, <3>2 DEF Spread
    <3>3. CASE j = Len(q) + 1
      <4>1. i <= Len(q) + 1 - 2 * m
        BY <1>1, <3>1, <3>3, SMT
      <4> QED BY <1>1, <2>1, <3>1, <3>3, <4>1 DEF Late
    <3> QED BY <1>1, <3>2, <3>3, SMT
  <2> QED BY <1>5, <2>4, <2>5, <2>6 DEF r
<1> QED BY <1>4, <1>5

\* What the burst argument needs of the types.
LEMMA WindowTypes ==
  ASSUME TypeOK, NEW c \in Conns
  PROVE  /\ passed[c] \in Seq(Nat) /\ Admitted(c) \in Seq(Nat)
         /\ now[c] \in Nat /\ clock \in Nat /\ Due(c) \in Nat
         /\ conn_counters[c] \in Counters /\ limited[c] \in BOOLEAN
<1>1. /\ passed[c] \in Seq(Nat) /\ now[c] \in Nat /\ clock \in Nat
      /\ conn_counters[c] \in Counters /\ limited[c] \in BOOLEAN
  BY SMT DEF TypeOK, Instants
<1>2. Append(passed[c], now[c]) \in Seq(Nat)
  BY <1>1, SMT
<1>3. Admitted(c) \in Seq(Nat)
  BY <1>1, <1>2 DEF Admitted
<1>4. Due(c) \in Nat
  BY <1>1 DEF Due
<1> QED BY <1>1, <1>3, <1>4

\* Windowed is about the connection's own reader, counter and history.
LEMMA WindowedFrame ==
  ASSUME NEW c \in Conns, NEW m, NEW p, Windowed(c, m, p), clock' = clock,
         pc'[c] = pc[c], limited'[c] = limited[c], now'[c] = now[c],
         passed'[c] = passed[c], conn_counters'[c] = conn_counters[c]
  PROVE  Windowed(c, m, p)'
  BY DEF Windowed, Admitted, Due

\* The frame is counted: CheckConnCount keeps Windowed.
LEMMA WindowedCount ==
  ASSUME IInv, Limited(ConnConfig), NEW c \in Conns, CheckConnCount(c),
         Windowed(c, ConnConfig.max_messages, ConnConfig.period)
  PROVE  Windowed(c, ConnConfig.max_messages, ConnConfig.period)'
<1> DEFINE m == ConnConfig.max_messages
           p == ConnConfig.period
           q == passed[c]
           t == now[c]
           old == conn_counters[c]
           new == conn_counters'[c]
           allowed == ~limited'[c]
           r == IF allowed THEN Append(q, t) ELSE q
<1>1. m \in Nat /\ p \in Nat \ {0} /\ ConnConfig # None
  BY LimiterAssumption DEF Limited, Limits
<1>2. /\ q \in Seq(Nat) /\ t \in Nat /\ clock \in Nat /\ old \in Counters /\ t <= clock
      /\ len[c] \in Nat /\ t \in 0 .. MaxTime
  BY WindowTypes DEF IInv, Sampled, TypeOK
<1>3. /\ pc[c] = "conn" /\ pc'[c] = "ip" /\ now'[c] = t /\ passed'[c] = q /\ clock' = clock
  BY DEF CheckConnCount, Goto, IInv, TypeOK
<1>4. /\ Ascending(q, t) /\ Spread(q, m, p)
      /\ Ready(q, old, t, m, p) \/ Open(q, old, t, m, p) \/ Late(q, old, t, clock, m, p)
  BY <1>3 DEF Windowed, Admitted, Due, Waiting
<1>5. SUFFICES /\ Ascending(r, clock) /\ Spread(r, m, p)
               /\ Ready(r, new, clock, m, p) \/ Open(r, new, clock, m, p)
  <2>1. Admitted(c)' = r /\ Due(c)' = clock
    BY <1>3 DEF Admitted, Due, Waiting
  <2> QED BY <1>5, <2>1 DEF Windowed
<1>l. ASSUME new \in Counters, Ascending(r, t), Open(r, new, t, m, p)
      PROVE  Ascending(r, clock) /\ Open(r, new, clock, m, p)
  <2>1. r \in Seq(Nat)
    BY <1>2, SMT
  <2> HIDE DEF m, p, q, t, new, r
  <2> QED BY <1>1, <1>2, <1>l, <2>1, WindowLater
<1>6. CASE old = Vacant
  <2>1. new = FirstRecord(t, len[c]) /\ (allowed => ~FirstExceeds(ConnConfig))
    BY <1>1, <1>6 DEF CheckConnCount, IInv, TypeOK
  <2>2. new \in Counters /\ new.start = t /\ new.msgs = 1
    BY <1>2, <2>1, SMT DEF FirstRecord, Counters
  <2>3. allowed => m >= 1
    BY <1>1, <2>1, SMT DEF FirstExceeds
  <2> HIDE DEF m, p, q, t, old, new, allowed
  <2>4. CASE Ready(q, old, t, m, p)
    <3>1. Ascending(r, t) /\ Spread(r, m, p) /\ Open(r, new, t, m, p)
      BY <1>1, <1>2, <1>4, <2>2, <2>3, <2>4, WindowOpens
    <3> QED BY <1>l, <2>2, <3>1
  <2>5. CASE Late(q, old, t, clock, m, p)
    BY <1>1, <1>2, <1>4, <2>2, <2>3, <2>5, LateCounted
  <2> QED BY <1>4, <1>6, <2>4, <2>5 DEF Open
<1>7. CASE old # Vacant
  <2>1. new = Record(old, t, len[c], ConnConfig) /\ (allowed => ~Exceeds(new, ConnConfig))
    BY <1>1, <1>7 DEF CheckConnCount, IInv, TypeOK
  <2>2. new \in Counters /\ old.start \in Nat /\ old.msgs \in Nat /\ new.msgs \in Nat
    <3>1. new \in Counters
      BY <1>2, <2>1, CountersRecorded
    <3> QED BY <1>2, <3>1, SMT DEF Counters
  <2>3. allowed => new.msgs <= m
    BY <1>1, <2>1, <2>2, SMT DEF Exceeds, Limited
  <2>4. old.start + p <= t => new.start = t /\ new.msgs = 1
    BY <1>1, <1>2, <2>1, <2>2, SMT DEF Record, MaybeReset, Elapsed
  <2>5. ~(old.start + p <= t) => new.start = old.start /\ new.msgs = old.msgs + 1
    BY <1>1, <1>2, <2>1, <2>2, SMT DEF Record, MaybeReset, Elapsed
  <2> HIDE DEF m, p, q, t, old, new, allowed
  <2>6. CASE Ready(q, old, t, m, p) /\ old.start + p <= t
    <3>1. allowed => m >= 1
      BY <2>3, <2>4, <2>6
    <3>2. Ascending(r, t) /\ Spread(r, m, p) /\ Open(r, new, t, m, p)
      BY <1>1, <1>2, <1>4, <2>2, <2>4, <2>6, <3>1, WindowOpens
    <3> QED BY <1>l, <2>2, <3>2
  <2>7. CASE Open(q, old, t, m, p) /\ ~(old.start + p <= t)
    <3>1. Ascending(r, t) /\ Spread(r, m, p) /\ Open(r, new, t, m, p)
      BY <1>1, <1>2, <1>4, <2>2, <2>3, <2>5, <2>7, WindowGoesOn
    <3> QED BY <1>l, <2>2, <3>1
  <2>8. Ready(q, old, t, m, p) => old.start + p <= t
    BY <1>7 DEF Ready
  <2>9. Open(q, old, t, m, p) /\ old.start + p <= t => Ready(q, old, t, m, p)
    BY <1>1, <1>2, WindowOver
  <2> QED BY <1>4, <1>7, <2>6, <2>7, <2>8, <2>9 DEF Late
<1> QED BY <1>6, <1>7

\* The verdict: a frame that was allowed by its connection's limit is let
\* through, or taken back; a frame stopped earlier leaves the window as it was.
LEMMA WindowedFinish ==
  ASSUME IInv, NEW c \in Conns, NEW allowed \in BOOLEAN, Finish(c, allowed),
         NEW m \in Nat, NEW p \in Nat \ {0}, Windowed(c, m, p),
         UNCHANGED <<clock, limited, now, conn_counters>>,
         \/ pc[c] \in Waiting /\ ~allowed
         \/ pc[c] \in {"ip", "ipinsert"} /\ (allowed => ~limited[c])
  PROVE  Windowed(c, m, p)'
<1> DEFINE q == Admitted(c)
           ctr == conn_counters[c]
<1>1. /\ q \in Seq(Nat) /\ passed[c] \in Seq(Nat) /\ now[c] \in Nat /\ clock \in Nat
      /\ now[c] <= clock /\ ctr \in Counters /\ limited[c] \in BOOLEAN
  BY WindowTypes DEF IInv, Sampled
<1>2. pc'[c] = "idle" /\ passed'[c] = IF allowed THEN Append(passed[c], now[c]) ELSE passed[c]
  BY DEF Finish, Goto, IInv, TypeOK
<1>3. Admitted(c)' = passed'[c] /\ Due(c)' = clock
  BY <1>2 DEF Admitted, Due, Waiting
<1>4. CASE pc[c] \in Waiting /\ ~allowed
  <2>1. q = passed[c] /\ Due(c) = now[c]
    BY <1>4 DEF Admitted, Due, Waiting
  <2>2. /\ Ascending(q, now[c]) /\ Spread(q, m, p)
        /\ \/ Ready(q, ctr, now[c], m, p) \/ Open(q, ctr, now[c], m, p)
           \/ Late(q, ctr, now[c], clock, m, p)
    BY <2>1 DEF Windowed
  <2> HIDE DEF q, ctr
  <2>3. Ascending(q, clock) /\ (Ready(q, ctr, clock, m, p) \/ Open(q, ctr, clock, m, p))
    BY <1>1, <2>2, WindowLater, LateMissed
  <2>4. Admitted(c)' = q /\ conn_counters'[c] = ctr
    BY <1>2, <1>3, <1>4, <2>1 DEF ctr
  <2> QED BY <1>3, <2>2, <2>3, <2>4 DEF Windowed
<1>5. CASE pc[c] \in {"ip", "ipinsert"} /\ (allowed => ~limited[c])
  <2>1. Due(c) = clock /\ pc[c] \notin Waiting
    BY <1>5 DEF Due, Waiting
  <2>2. /\ Ascending(q, clock) /\ Spread(q, m, p)
        /\ Ready(q, ctr, clock, m, p) \/ Open(q, ctr, clock, m, p)
    BY <2>1 DEF Windowed
  <2>3. passed'[c] = q \/ (q = Append(passed[c], now[c]) /\ passed'[c] = passed[c])
    BY <1>1, <1>2, <1>5 DEF Admitted
  <2>4. conn_counters'[c] = ctr
    OBVIOUS
  <2> HIDE DEF q, ctr
  <2>5. CASE passed'[c] = q
    BY <1>3, <2>2, <2>4, <2>5 DEF Windowed
  <2>6. CASE q = Append(passed[c], now[c]) /\ passed'[c] = passed[c]
    <3>1. /\ Ascending(passed[c], clock) /\ Spread(passed[c], m, p)
          /\ Ready(passed[c], ctr, clock, m, p) \/ Open(passed[c], ctr, clock, m, p)
      BY <1>1, <2>2, <2>6, WindowFront
    <3> QED BY <1>3, <2>4, <2>6, <3>1 DEF Windowed
  <2> QED BY <2>3, <2>5, <2>6
<1> QED BY <1>4, <1>5

\* The reader's own steps keep Windowed.
LEMMA WindowedCheck ==
  ASSUME IInv, Limited(ConnConfig), NEW c \in Conns, CheckAndRecord(c),
         NEW m \in Nat, NEW p \in Nat \ {0},
         m = ConnConfig.max_messages, p = ConnConfig.period, Windowed(c, m, p)
  PROVE  Windowed(c, m, p)'
<1>2. pc \in [Conns \cup Acceptors -> Steps] /\ now \in [Conns -> 0 .. MaxTime]
  BY DEF IInv, TypeOK
<1>4. CASE CheckBegin(c)
  <2>1. /\ pc[c] = "idle" /\ pc'[c] = "connban" /\ now'[c] = clock
        /\ clock' = clock /\ conn_counters' = conn_counters /\ passed' = passed
    BY <1>2, <1>4 DEF CheckBegin, Goto, connMaps, historyVars
  <2>2. /\ Admitted(c) = passed[c] /\ Due(c) = clock /\ pc[c] \notin Waiting
        /\ Admitted(c)' = passed[c] /\ Due(c)' = clock
    BY <2>1 DEF Admitted, Due, Waiting
  <2> QED BY <2>1, <2>2 DEF Windowed
<1>5. ASSUME NEW to \in Waiting, pc[c] \in Waiting, Goto(c, to),
             UNCHANGED <<clock, limited, now, conn_counters, passed>>
      PROVE  Windowed(c, m, p)'
  <2>1. pc'[c] \in Waiting
    BY <1>2, <1>5 DEF Goto
  <2>2. /\ Admitted(c) = passed[c] /\ Due(c) = now[c]
        /\ Admitted(c)' = passed[c] /\ Due(c)' = now[c]
    BY <1>5, <2>1 DEF Admitted, Due, Waiting
  <2> QED BY <1>5, <2>1, <2>2 DEF Windowed
<1>6. CASE CheckConnBan(c)
  <2>1. /\ pc[c] \in Waiting /\ UNCHANGED <<clock, limited, now, conn_counters>>
        /\ Finish(c, FALSE) \/ (Goto(c, "ipban") /\ passed' = passed)
    BY <1>6 DEF CheckConnBan, Waiting, readerVars
  <2>2. CASE Finish(c, FALSE)
    BY <2>1, <2>2, WindowedFinish
  <2>3. CASE Goto(c, "ipban") /\ passed' = passed
    BY <1>5, <2>1, <2>3 DEF Waiting
  <2> QED BY <2>1, <2>2, <2>3
<1>7. CASE CheckIpBan(c)
  <2>1. /\ pc[c] \in Waiting /\ UNCHANGED <<clock, limited, now, conn_counters>>
        /\ \/ Finish(c, FALSE)
           \/ passed' = passed /\ (Goto(c, "conn") \/ Goto(c, "ipremove"))
    BY <1>7 DEF CheckIpBan, Waiting, readerVars, connMaps
  <2>2. CASE Finish(c, FALSE)
    BY <2>1, <2>2, WindowedFinish
  <2>3. CASE passed' = passed /\ (Goto(c, "conn") \/ Goto(c, "ipremove"))
    BY <1>5, <2>1, <2>3 DEF Waiting
  <2> QED BY <2>1, <2>2, <2>3
<1>8. CASE CheckIpRemove(c)
  BY <1>5, <1>8 DEF CheckIpRemove, Waiting, readerVars, connMaps, historyVars
<1>9. CASE CheckConnCount(c)
  BY <1>9, WindowedCount
<1>10. CASE CheckIpCount(c)
  <2>1. pc[c] = "ip" /\ UNCHANGED <<clock, limited, now, conn_counters>>
    BY <1>10 DEF CheckIpCount, readerVars, connMaps
  <2>2. \/ Goto(c, "ipinsert") /\ passed' = passed
        \/ \E allowed \in BOOLEAN : Finish(c, allowed) /\ (allowed => ~limited[c])
    <3>1. limited[c] \in BOOLEAN
      BY DEF IInv, TypeOK
    <3> DEFINE over == Exceeds(Record(ip_counters[IpOf[c]], now[c], len[c], IpConfig), IpConfig)
    <3>2. (~limited[c]) \in BOOLEAN /\ (~limited[c] /\ ~over) \in BOOLEAN
      OBVIOUS
    <3>3. \/ Goto(c, "ipinsert") /\ passed' = passed
          \/ Finish(c, ~limited[c]) \/ Finish(c, ~limited[c] /\ ~over)
      BY <1>10 DEF CheckIpCount
    <3> HIDE DEF over
    <3> QED BY <3>2, <3>3
  <2>3. CASE Goto(c, "ipinsert") /\ passed' = passed
    <3>1. pc'[c] = "ipinsert"
      BY <1>2, <2>3 DEF Goto
    <3>2. /\ pc[c] \notin Waiting /\ pc'[c] \notin Waiting
          /\ Admitted(c)' = Admitted(c) /\ Due(c)' = Due(c)
      BY <2>1, <2>3, <3>1 DEF Admitted, Due, Waiting
    <3>3. conn_counters' = conn_counters
      BY <2>1
    <3> QED BY <3>2, <3>3 DEF Windowed
  <2>4. ASSUME NEW allowed \in BOOLEAN, Finish(c, allowed), allowed => ~limited[c]
        PROVE  Windowed(c, m, p)'
    <3>1. pc[c] \in {"ip", "ipinsert"} /\ (allowed => ~limited[c])
      BY <2>1, <2>4
    <3> QED BY <2>1, <2>4, <3>1, WindowedFinish
  <2> QED BY <2>2, <2>3, <2>4
<1>11. CASE CheckIpInsert(c)
  <2>1. pc[c] = "ipinsert" /\ UNCHANGED <<clock, limited, now, conn_counters>>
    BY <1>11 DEF CheckIpInsert, readerVars, connMaps
  <2> DEFINE allowed == ~limited[c] /\ ~FirstExceeds(IpConfig)
  <2>2. Finish(c, allowed)
    BY <1>11 DEF CheckIpInsert
  <2>3. allowed \in BOOLEAN /\ pc[c] \in {"ip", "ipinsert"} /\ (allowed => ~limited[c])
    BY <2>1
  <2> HIDE DEF allowed
  <2> QED BY <2>1, <2>2, <2>3, WindowedFinish
<1> QED BY <1>4, <1>6, <1>7, <1>8, <1>9, <1>10, <1>11 DEF CheckAndRecord

\* cleanup keeps Windowed: it drops a counter two periods after its window
\* started at the earliest, and then at most one frame is late for it.
LEMMA WindowedSweep ==
  ASSUME IInv, Limited(ConnConfig), NEW c \in Conns, Cleanup,
         NEW m \in Nat, NEW p \in Nat \ {0},
         m = ConnConfig.max_messages, p = ConnConfig.period, Windowed(c, m, p)
  PROVE  Windowed(c, m, p)'
<1> DEFINE q == Admitted(c)
           f == Due(c)
           ctr == conn_counters[c]
<1>1. clock' = clock /\ pc' = pc /\ limited' = limited /\ now' = now /\ passed' = passed
  BY DEF Cleanup, CleanupBegin, CleanupConnCounters, CleanupIpCounters,
         CleanupConnBans, CleanupIpBans, readerVars, historyVars
<1>2. conn_counters' = conn_counters \/ conn_counters' = Retained(conn_counters)
  BY DEF Cleanup, CleanupBegin, CleanupConnCounters, CleanupIpCounters,
         CleanupConnBans, CleanupIpBans, connMaps
<1>3. CASE conn_counters'[c] = ctr
  BY <1>1, <1>3, WindowedFrame
<1>4. CASE conn_counters'[c] # ctr
  <2>1. /\ q \in Seq(Nat) /\ f \in Nat /\ ctr \in Counters /\ now[c] \in Nat /\ clock \in Nat
        /\ ctr.start \in Nat /\ cleanNow \in Nat /\ cleanNow <= clock
    <3>1. /\ q \in Seq(Nat) /\ f \in Nat /\ ctr \in Counters /\ now[c] \in Nat /\ clock \in Nat
      BY WindowTypes DEF IInv
    <3>2. cleanNow \in Nat /\ cleanNow <= clock
      BY SMT DEF IInv, Sampled, TypeOK
    <3>3. ctr.start \in Nat
      BY <3>1, SMT DEF Counters
    <3> QED BY <3>1, <3>2, <3>3
  <2>2. conn_counters'[c] = Vacant /\ ~(Elapsed(cleanNow, ctr.start) < StaleThreshold)
    BY <1>2, <1>4 DEF Retained, IInv, TypeOK
  <2>3. ctr.start + 2 * p <= clock
    <3>1. StaleThreshold \in Nat /\ StaleThreshold >= 2 * p
      BY ThresholdCoversPeriod DEF Limited
    <3> DEFINE t == ctr.start
    <3>2. /\ t \in Nat /\ clock \in Nat /\ cleanNow \in Nat /\ cleanNow <= clock
          /\ ~(Elapsed(cleanNow, t) < StaleThreshold)
      BY <2>1, <2>2
    <3> HIDE DEF t
    <3>3. t + 2 * p <= clock
      BY ONLY <3>1, <3>2, p \in Nat \ {0} DEF Elapsed
    <3> QED BY <3>3 DEF t
  <2>4. Admitted(c)' = q /\ Due(c)' = f /\ pc'[c] = pc[c] /\ now'[c] = now[c]
    BY <1>1 DEF Admitted, Due
  <2>5. ctr # Vacant
    BY <1>4, <2>2
  <2>6. /\ Ascending(q, f) /\ Spread(q, m, p)
        /\ Ready(q, ctr, f, m, p) \/ Open(q, ctr, f, m, p)
    BY <2>5 DEF Windowed, Late
  <2>7. f < clock => pc[c] \in Waiting /\ f = now[c]
    BY <2>1, SMT DEF Due
  <2> HIDE DEF q, f, ctr
  <2>8. Ready(q, Vacant, f, m, p) \/ (f < clock /\ Late(q, Vacant, f, clock, m, p))
    <3>1. CASE Ready(q, ctr, f, m, p)
      BY <3>1 DEF Ready
    <3>2. CASE Open(q, ctr, f, m, p)
      BY <2>1, <2>3, <3>2, WindowDropped
    <3> QED BY <2>6, <3>1, <3>2
  <2> QED BY <1>1, <2>2, <2>4, <2>6, <2>7, <2>8 DEF Windowed
<1> QED BY <1>3, <1>4

\* Time passing keeps Windowed.
LEMMA WindowedTick ==
  ASSUME IInv, NEW c \in Conns, Tick, NEW m \in Nat, NEW p \in Nat \ {0}, Windowed(c, m, p)
  PROVE  Windowed(c, m, p)'
<1> DEFINE q == Admitted(c)
           f == Due(c)
           g == IF pc[c] \in Waiting THEN f ELSE clock + 1
           ctr == conn_counters[c]
<1>1. /\ q \in Seq(Nat) /\ f \in Nat /\ ctr \in Counters /\ now[c] \in Nat /\ clock \in Nat
  BY WindowTypes DEF IInv
<1>2. /\ clock' = clock + 1 /\ Admitted(c)' = q /\ Due(c)' = g
      /\ pc' = pc /\ now' = now /\ conn_counters' = conn_counters
  BY DEF Tick, Admitted, Due, connMaps, readerVars, historyVars
<1>3. g \in Nat /\ f <= g
  BY <1>1, SMT DEF Due
<1>4. /\ Ascending(q, f) /\ Spread(q, m, p)
      /\ \/ Ready(q, ctr, f, m, p) \/ Open(q, ctr, f, m, p)
         \/ pc[c] \in Waiting /\ Late(q, ctr, now[c], clock, m, p)
  BY DEF Windowed
<1>5. conn_counters'[c] = ctr
  BY <1>2
<1> HIDE DEF q, f, g, ctr
<1>6. /\ Ascending(q, g)
      /\ Ready(q, ctr, f, m, p) => Ready(q, ctr, g, m, p)
      /\ Open(q, ctr, f, m, p) => Open(q, ctr, g, m, p)
  BY <1>1, <1>3, <1>4, WindowLater
<1>7. Late(q, ctr, now[c], clock, m, p) => Late(q, ctr, now[c], clock + 1, m, p)
  BY <1>1, SMT DEF Late
<1> QED BY <1>2, <1>4, <1>5, <1>6, <1>7 DEF Windowed

\* The limiter starts with no frame and no window, and every step keeps the
\* windows of every connection.
LEMMA BurstInit == Init => BurstInv
<1> SUFFICES ASSUME Init, Limited(ConnConfig), NEW c \in Conns
             PROVE  Windowed(c, ConnConfig.max_messages, ConnConfig.period)
  BY DEF BurstInv
<1>1. Admitted(c) = <<>> /\ conn_counters[c] = Vacant
  BY DEF Init, Admitted
<1>2. DOMAIN Admitted(c) = {}
  BY <1>1, SMT
<1>3. /\ Ascending(Admitted(c), Due(c))
      /\ Spread(Admitted(c), ConnConfig.max_messages, ConnConfig.period)
  BY <1>2 DEF Ascending, Spread
<1>4. Ready(Admitted(c), conn_counters[c], Due(c), ConnConfig.max_messages, ConnConfig.period)
  BY <1>1, <1>2 DEF Ready
<1> QED BY <1>3, <1>4 DEF Windowed

\* Every step preserves it, whichever connection, sweep or tick takes it.
LEMMA BurstNext == IInv /\ BurstInv /\ [Next]_vars => BurstInv'
<1> SUFFICES ASSUME IInv, BurstInv, [Next]_vars, Limited(ConnConfig), NEW c \in Conns,
                    NEW m \in Nat, NEW p \in Nat \ {0},
                    m = ConnConfig.max_messages, p = ConnConfig.period
             PROVE  Windowed(c, m, p)'
  <2>1. Limited(ConnConfig) => /\ ConnConfig.max_messages \in Nat
                               /\ ConnConfig.period \in Nat \ {0}
    BY LimiterAssumption DEF Limited, Limits
  <2> QED BY <2>1 DEF BurstInv
<1>1. Windowed(c, m, p)
  BY DEF BurstInv
<1>2. /\ pc \in [Conns \cup Acceptors -> Steps] /\ limited \in [Conns -> BOOLEAN]
      /\ now \in [Conns -> 0 .. MaxTime] /\ passed \in [Conns -> Seq(Nat)]
      /\ conn_counters \in [Conns -> Counters] /\ Conns \cap Acceptors = {}
  BY LimiterAssumption DEF IInv, TypeOK
<1>3. ASSUME NEW d \in Conns, CheckAndRecord(d) PROVE Windowed(c, m, p)'
  <2>1. CASE d = c
    BY <1>1, <1>3, <2>1, WindowedCheck
  <2>2. CASE d # c
    <3>1. clock' = clock /\ pc'[c] = pc[c] /\ passed'[c] = passed[c]
      BY <1>2, <1>3, <2>2
         DEF CheckAndRecord, CheckBegin, CheckConnBan, CheckIpBan, CheckIpRemove,
             CheckConnCount, CheckIpCount, CheckIpInsert, Goto, Finish, historyVars
    <3>2. /\ limited'[c] = limited[c] /\ now'[c] = now[c]
          /\ conn_counters'[c] = conn_counters[c]
      BY <1>2, <1>3, <2>2
         DEF CheckAndRecord, CheckBegin, CheckConnBan, CheckIpBan, CheckIpRemove,
             CheckConnCount, CheckIpCount, CheckIpInsert, readerVars, connMaps
    <3> QED BY <1>1, <3>1, <3>2, WindowedFrame
  <2> QED BY <2>1, <2>2
<1>4. ASSUME NEW a \in Acceptors, AcceptGet(a) \/ AcceptRemove(a) PROVE Windowed(c, m, p)'
  <2>1. /\ clock' = clock /\ limited' = limited /\ now' = now /\ passed' = passed
        /\ conn_counters' = conn_counters /\ pc'[c] = pc[c]
    BY <1>2, <1>4 DEF AcceptGet, AcceptRemove, Goto, connMaps, readerVars, historyVars
  <2> QED BY <1>1, <2>1, WindowedFrame
<1>5. CASE Cleanup
  BY <1>1, <1>5, WindowedSweep
<1>6. CASE Tick
  BY <1>1, <1>6, WindowedTick
<1>7. CASE UNCHANGED vars
  BY <1>1, <1>7, WindowedFrame DEF vars, connMaps, readerVars, historyVars
<1> QED BY <1>3, <1>4, <1>5, <1>6, <1>7 DEF Next

\* A non-empty set of naturals has a least member.
LEMMA LeastMember ==
  ASSUME NEW J \in SUBSET Nat, J # {}
  PROVE  \E i \in J : \A j \in J : i <= j
<1>1. PICK i \in J : \A j \in J : ~(<<j, i>> \in OpToRel(<, Nat))
  BY WFMin, NatLessThanWellFounded
<1>2. ASSUME NEW j \in J PROVE i <= j
  <2>1. i \in Nat /\ j \in Nat
    OBVIOUS
  <2>2. ~(j < i)
    <3>1. ~(<<j, i>> \in {ss \in Nat \X Nat : ss[1] < ss[2]})
      BY <1>1 DEF OpToRel
    <3> QED BY <2>1, <3>1
  <2> QED BY <2>1, <2>2, SMT
<1> QED BY <1>2

\* Frames of one period: the first and the last are less than 2 * m apart.
LEMMA SpreadBound ==
  ASSUME NEW q \in Seq(Nat), NEW m \in Nat, NEW p \in Nat, NEW t \in Nat, Spread(q, m, p)
  PROVE  Cardinality({j \in DOMAIN q : t <= q[j] /\ q[j] < t + p}) <= 2 * m
<1> DEFINE J == {j \in DOMAIN q : t <= q[j] /\ q[j] < t + p}
<1>1. J \in SUBSET Nat /\ \A j \in J : q[j] \in Nat
  BY SMT
<1>2. CASE J = {}
  <2>1. Cardinality(J) = 0
    BY <1>2, FS_EmptySet
  <2> QED BY <2>1, SMT
<1>3. CASE J # {}
  <2>1. PICK i \in J : \A j \in J : i <= j
    <3> HIDE DEF J
    <3> QED BY <1>1, <1>3, LeastMember
  <2>2. ASSUME NEW j \in J PROVE j - i < 2 * m
    <3>1. i \in DOMAIN q /\ j \in DOMAIN q /\ i \in Nat /\ j \in Nat
      BY <1>1, <2>1
    <3>2. q[i] \in Nat /\ q[j] \in Nat /\ t <= q[i] /\ q[j] < t + p
      BY <1>1, <2>1
    <3>3. ~(q[i] + p <= q[j])
      BY ONLY <3>2, t \in Nat, p \in Nat
    <3>4. ~(j - i >= 2 * m)
      BY <3>1, <3>3 DEF Spread
    <3> QED BY ONLY <3>1, <3>4, m \in Nat
  <2>3. i \in Nat /\ m >= 1
    BY <1>1, <2>1, <2>2, SMT
  <2>4. J \subseteq i .. i + 2 * m - 1
    <3> HIDE DEF J
    <3>1. ASSUME NEW j \in J PROVE j \in i .. i + 2 * m - 1
      <4>1. j \in Nat /\ i <= j /\ j - i < 2 * m
        BY <1>1, <2>1, <2>2
      <4> QED BY ONLY <2>3, <4>1, m \in Nat
    <3> QED BY <3>1
  <2>5. /\ IsFiniteSet(i .. i + 2 * m - 1)
        /\ Cardinality(i .. i + 2 * m - 1) = 2 * m
    <3>1. i \in Int /\ i + 2 * m - 1 \in Int /\ ~(i > i + 2 * m - 1)
          /\ (i + 2 * m - 1) - i + 1 = 2 * m
      BY <2>3, SMT
    <3> DEFINE b == i + 2 * m - 1
    <3>2. b \in Int /\ ~(i > b) /\ b - i + 1 = 2 * m
      BY <3>1
    <3> HIDE DEF b
    <3>3. IsFiniteSet(i .. b) /\ Cardinality(i .. b) = 2 * m
      BY <3>1, <3>2, FS_Interval
    <3> QED BY <3>3 DEF b
  <2> HIDE DEF J
  <2>6. Cardinality(J) <= Cardinality(i .. i + 2 * m - 1)
    BY <2>4, <2>5, FS_Subset
  <2> QED BY <2>5, <2>6 DEF J
<1> QED BY <1>2, <1>3

\* check_and_record: whatever the interleaving of the reader, the sweep and the
\* clock, a connection gets at most twice max_messages through in any interval
\* of one period.
THEOREM BurstsAreBounded == Spec => []ConnBurstBound
<1>1. IInv /\ BurstInv => ConnBurstBound
  <2> SUFFICES ASSUME IInv, BurstInv, Limited(ConnConfig), NEW c \in Conns, NEW t \in Instants,
                      NEW m \in Nat, NEW p \in Nat \ {0},
                      m = ConnConfig.max_messages, p = ConnConfig.period
               PROVE  Cardinality(PassedIn(c, t, p)) <= 2 * m
    <3>1. Limited(ConnConfig) => /\ ConnConfig.max_messages \in Nat
                                 /\ ConnConfig.period \in Nat \ {0}
      BY LimiterAssumption DEF Limited, Limits
    <3> QED BY <3>1 DEF ConnBurstBound
  <2>1. passed[c] \in Seq(Nat) /\ now[c] \in Nat /\ clock \in Nat /\ conn_counters[c] \in Counters
    BY WindowTypes DEF IInv
  <2>2. Spread(Admitted(c), m, p)
    BY DEF BurstInv, Windowed
  <2>3. Spread(passed[c], m, p)
    BY <2>1, <2>2, WindowFront DEF Admitted
  <2>4. t \in Nat
    BY SMT DEF Instants
  <2> QED BY <2>1, <2>3, <2>4, SpreadBound DEF PassedIn
<1> QED BY <1>1, InvariantHolds, BurstInit, BurstNext, PTL DEF Spec

----------------------------------------------------------------------------
(* The race for the first frame of an address.                              *)
(*                                                                          *)
(* As long as the first period lasts, no counter of an address is reset or  *)
(* swept.  Every reader that finds the address without a counter inserts    *)
(* one, and so forgets what was counted before, but it does so once: each   *)
(* such reader is worth one allowance.  When the period is over, every      *)
(* reader holds at most one frame that was sampled in it.                   *)

Racers(i) == {c \in Conns : IpOf[c] = i}

\* The reader holds a frame of the first period.
Pending(c, p) == pc[c] # "idle" /\ now[c] < 1 + p

\* The first period lasts; the readers in I have inserted a counter.
RaceOpen(i, m) ==
    IF ip_counters[i] = Vacant THEN IpPassed(i) = {}
    ELSE /\ ip_counters[i].start >= 1
         /\ \E I \in SUBSET Racers(i) :
              /\ \A c \in I : pc[c] # "ipinsert"
              /\ Cardinality(IpPassed(i)) <= m * Cardinality(I)
              /\ Cardinality(IpPassed(i)) + m <= m * Cardinality(I) + ip_counters[i].msgs

\* The first period is over; the readers in S have passed a late frame of it.
RaceOver(i, m, p) ==
    \E I, S \in SUBSET Racers(i) :
        /\ Cardinality(IpPassed(i)) <= m * Cardinality(I) + Cardinality(S)
        /\ \A c \in S : ~Pending(c, p)

Race(i, m, p) ==
    /\ IsFiniteSet(IpPassed(i))
    /\ IF clock < 1 + p THEN RaceOpen(i, m) ELSE RaceOver(i, m, p)

\* A frame in progress was sampled; the counters of the addresses against the
\* frames of the first period they let through.
Timed == \A c \in Conns : pc[c] # "idle" => now[c] >= 1

RaceInv ==
    Limited(IpConfig) =>
        \A i \in Ips : Race(i, IpConfig.max_messages, IpConfig.period)

\* The addresses' readers are finitely many.
LEMMA RacersFinite ==
  ASSUME NEW i, NEW I \in SUBSET Racers(i)
  PROVE  /\ IsFiniteSet(Racers(i)) /\ Cardinality(Racers(i)) \in Nat
         /\ IsFiniteSet(I) /\ Cardinality(I) \in Nat
         /\ Cardinality(I) <= Cardinality(Racers(i))
<1>1. Racers(i) \in SUBSET Conns
  BY DEF Racers
<1>2. IsFiniteSet(Racers(i))
  BY <1>1, ConnsAssumption, FS_Subset
<1>3. IsFiniteSet(I) /\ Cardinality(I) <= Cardinality(Racers(i))
  BY <1>2, FS_Subset
<1> QED BY <1>2, <1>3, FS_CardinalityType

\* A frame of address i gets its verdict: one frame of the first period more at
\* most, none if it is stopped or of a later period, and none of another address.
LEMMA PassedMore ==
  ASSUME TypeOK, NEW c \in Conns, NEW allowed \in BOOLEAN, Finish(c, allowed),
         NEW i, IsFiniteSet(IpPassed(i)), NEW p \in Nat, p = IpConfig.period
  PROVE  /\ IsFiniteSet(IpPassed(i)') /\ Cardinality(IpPassed(i)') \in Nat
         /\ Cardinality(IpPassed(i)) \in Nat
         /\ Cardinality(IpPassed(i)') <= Cardinality(IpPassed(i)) + 1
         /\ ~allowed \/ now[c] >= 1 + p \/ IpOf[c] # i => IpPassed(i)' = IpPassed(i)
<1> DEFINE q == passed[c]
           x == <<c, Len(q) + 1>>
<1>1. /\ q \in Seq(Nat) /\ now[c] \in Nat /\ passed \in [Conns -> Seq(Nat)]
      /\ passed' = IF allowed THEN [passed EXCEPT ![c] = Append(@, now[c])] ELSE passed
  BY WindowTypes DEF Finish, TypeOK
<1>2. CASE ~allowed
  <2>1. IpPassed(i)' = IpPassed(i)
    BY <1>1, <1>2, SMT DEF IpPassed, PassedIn
  <2>2. Cardinality(IpPassed(i)) \in Nat
    BY FS_CardinalityType
  <2> QED BY <2>1, <2>2, SMT
<1>3. CASE allowed
  <2>1. /\ passed'[c] = Append(q, now[c])
        /\ \A d \in Conns : d # c => passed'[d] = passed[d]
    BY <1>1, <1>3
  <2>2. /\ Len(q) \in Nat /\ DOMAIN q = 1 .. Len(q) /\ DOMAIN Append(q, now[c]) = 1 .. Len(q) + 1
        /\ \A j \in 1 .. Len(q) : Append(q, now[c])[j] = q[j]
        /\ Append(q, now[c])[Len(q) + 1] = now[c]
    BY <1>1, SMT
  <2>3. \A d \in Conns : d # c => PassedIn(d, 1, p)' = PassedIn(d, 1, p)
    BY <2>1 DEF PassedIn
  <2>4. PassedIn(c, 1, p)' = PassedIn(c, 1, p) \cup
           {j \in {Len(q) + 1} : 1 <= now[c] /\ now[c] < 1 + p}
    <3> DEFINE r == Append(q, now[c])
    <3>1. PassedIn(c, 1, p) = {j \in 1 .. Len(q) : 1 <= q[j] /\ q[j] < 1 + p}
      BY <2>2 DEF PassedIn
    <3>2. PassedIn(c, 1, p)' = {j \in 1 .. Len(q) + 1 : 1 <= r[j] /\ r[j] < 1 + p}
      BY <2>1, <2>2 DEF PassedIn
    <3>3. /\ \A j \in 1 .. Len(q) : r[j] = q[j]
          /\ r[Len(q) + 1] = now[c]
      BY <2>2
    <3>4. 1 .. Len(q) + 1 = (1 .. Len(q)) \cup {Len(q) + 1}
      BY <2>2, SMT
    <3> HIDE DEF r, q
    <3> QED BY ONLY <3>1, <3>2, <3>3, <3>4
  <2>5. \/ IpPassed(i)' = IpPassed(i)
        \/ IpPassed(i)' = IpPassed(i) \cup {x} /\ now[c] < 1 + p /\ IpOf[c] = i
    <3>1. IpPassed(i) = UNION {{d} \X PassedIn(d, 1, p) : d \in Racers(i)}
      BY DEF IpPassed, Racers
    <3>2. IpPassed(i)' = UNION {{d} \X PassedIn(d, 1, p)' : d \in Racers(i)}
      BY DEF IpPassed, Racers
    <3>3. CASE c \notin Racers(i) \/ ~(1 <= now[c] /\ now[c] < 1 + p)
      <4>1. \A d \in Racers(i) : PassedIn(d, 1, p)' = PassedIn(d, 1, p)
        BY <2>3, <2>4, <3>3 DEF Racers
      <4> QED BY ONLY <3>1, <3>2, <4>1
    <3>4. CASE c \in Racers(i) /\ 1 <= now[c] /\ now[c] < 1 + p
      <4>1. \A d \in Racers(i) : d # c => PassedIn(d, 1, p)' = PassedIn(d, 1, p)
        BY <2>3 DEF Racers
      <4>2. PassedIn(c, 1, p)' = PassedIn(c, 1, p) \cup {Len(q) + 1}
        BY <2>4, <3>4
      <4>3. IpOf[c] = i
        BY <3>4 DEF Racers
      <4> HIDE DEF q
      <4>4. IpPassed(i)' = IpPassed(i) \cup {x}
        BY ONLY <3>1, <3>2, <3>4, <4>1, <4>2
      <4> QED BY <3>4, <4>3, <4>4
    <3> QED BY <1>1, <3>3, <3>4
  <2> HIDE DEF x
  <2>6. /\ IsFiniteSet(IpPassed(i) \cup {x})
        /\ Cardinality(IpPassed(i) \cup {x}) \in Nat /\ Cardinality(IpPassed(i)) \in Nat
        /\ Cardinality(IpPassed(i) \cup {x}) <= Cardinality(IpPassed(i)) + 1
    <3>1. Cardinality(IpPassed(i)) \in Nat /\ IsFiniteSet(IpPassed(i) \cup {x})
      BY FS_CardinalityType, FS_AddElement
    <3>2. \/ Cardinality(IpPassed(i) \cup {x}) = Cardinality(IpPassed(i))
          \/ Cardinality(IpPassed(i) \cup {x}) = Cardinality(IpPassed(i)) + 1
      BY FS_AddElement
    <3> QED BY <3>1, <3>2, SMT
  <2>7. now[c] >= 1 + p \/ IpOf[c] # i => IpPassed(i)' = IpPassed(i)
    BY <1>1, <2>5, SMT
  <2>8. /\ IsFiniteSet(IpPassed(i)') /\ Cardinality(IpPassed(i)') \in Nat
        /\ Cardinality(IpPassed(i)') <= Cardinality(IpPassed(i)) + 1
    <3>1. CASE IpPassed(i)' = IpPassed(i)
      BY <2>6, <3>1, SMT
    <3>2. CASE IpPassed(i)' = IpPassed(i) \cup {x}
      BY <2>6, <3>2
    <3> QED BY <2>5, <3>1, <3>2
  <2> QED BY <1>3, <2>6, <2>7, <2>8
<1> QED BY <1>2, <1>3

\* A step that passes no frame, starts none in the first period and lets no
\* reader insert a counter unless there is none keeps the race as it is.
LEMMA RaceKept ==
  ASSUME NEW i \in Ips, NEW m, NEW p \in Nat, Race(i, m, p), clock' = clock,
         IpPassed(i)' = IpPassed(i),
         clock < 1 + p => ip_counters'[i] = ip_counters[i],
         ~(clock < 1 + p) => \A c \in Racers(i) : Pending(c, p)' => Pending(c, p),
         \A c \in Racers(i) :
            pc'[c] = "ipinsert" => pc[c] = "ipinsert" \/ ip_counters[i] = Vacant
  PROVE  Race(i, m, p)'
<1>1. CASE clock < 1 + p
  <2>1. RaceOpen(i, m) /\ ip_counters'[i] = ip_counters[i]
    BY <1>1 DEF Race
  <2>2. CASE ip_counters[i] = Vacant
    BY <1>1, <2>1, <2>2 DEF Race, RaceOpen
  <2>3. CASE ip_counters[i] # Vacant
    <3>1. PICK I \in SUBSET Racers(i) :
              /\ \A c \in I : pc[c] # "ipinsert"
              /\ Cardinality(IpPassed(i)) <= m * Cardinality(I)
              /\ Cardinality(IpPassed(i)) + m <= m * Cardinality(I) + ip_counters[i].msgs
      BY <2>1, <2>3 DEF RaceOpen
    <3>2. \A c \in I : pc'[c] # "ipinsert"
      BY <2>3, <3>1
    <3>3. RaceOpen(i, m)'
      BY <2>1, <2>3, <3>1, <3>2 DEF RaceOpen, Racers
    <3> QED BY <1>1, <3>3 DEF Race
  <2> QED BY <2>2, <2>3
<1>2. CASE ~(clock < 1 + p)
  <2>1. PICK I \in SUBSET Racers(i), S \in SUBSET Racers(i) :
            /\ Cardinality(IpPassed(i)) <= m * Cardinality(I) + Cardinality(S)
            /\ \A c \in S : ~Pending(c, p)
    BY <1>2 DEF Race, RaceOver
  <2>2. \A c \in S : ~Pending(c, p)'
    BY <1>2, <2>1
  <2>3. RaceOver(i, m, p)'
    BY <2>1, <2>2 DEF RaceOver, Racers
  <2> QED BY <1>2, <2>3 DEF Race
<1> QED BY <1>1, <1>2

\* After the first period a reader gives its one frame of that period a verdict.
LEMMA RaceLate ==
  ASSUME TypeOK, NEW c \in Conns, NEW allowed \in BOOLEAN, Finish(c, allowed),
         pc[c] # "idle", NEW m \in Nat, NEW p \in Nat, p = IpConfig.period,
         Race(IpOf[c], m, p), clock' = clock, now' = now, ~(clock < 1 + p)
  PROVE  Race(IpOf[c], m, p)'
<1> DEFINE i == IpOf[c]
           T == IpPassed(i)
<1>1. PICK I \in SUBSET Racers(i), S \in SUBSET Racers(i) :
          /\ Cardinality(T) <= m * Cardinality(I) + Cardinality(S)
          /\ \A d \in S : ~Pending(d, p)
  BY DEF Race, RaceOver
<1>2. IsFiniteSet(T)
  BY DEF Race
<1>3. now[c] \in Nat /\ c \in Racers(i)
  BY SMT DEF TypeOK, Racers
<1>4. pc' = [pc EXCEPT ![c] = "idle"] /\ pc \in [Conns \cup Acceptors -> Steps]
  BY DEF Finish, Goto, TypeOK
<1>5. /\ ~Pending(c, p)'
      /\ \A d \in Conns : ~Pending(d, p) => ~Pending(d, p)'
  BY <1>4 DEF Pending
<1>6. S \subseteq Conns
  BY DEF Racers
<1>7. CASE now[c] < 1 + p
  <2>1. c \notin S
    BY <1>1, <1>7 DEF Pending
  <2>2. S \cup {c} \in SUBSET Racers(i) /\ \A d \in S \cup {c} : ~Pending(d, p)'
    BY <1>1, <1>3, <1>5, <1>6
  <2>3. IsFiniteSet(S) /\ Cardinality(S) \in Nat /\ Cardinality(I) \in Nat
    BY RacersFinite
  <2>4. Cardinality(S \cup {c}) = Cardinality(S) + 1
    BY <2>1, <2>3, FS_AddElement
  <2>5. /\ IsFiniteSet(T') /\ Cardinality(T') \in Nat /\ Cardinality(T) \in Nat
        /\ Cardinality(T') <= Cardinality(T) + 1
    BY <1>2, PassedMore
  <2> HIDE DEF T
  <2>6. Cardinality(T') <= m * Cardinality(I) + Cardinality(S \cup {c})
    <3>1. m * Cardinality(I) \in Nat
      BY <2>3, SMT
    <3> QED BY ONLY <1>1, <2>3, <2>4, <2>5, <3>1
  <2>7. RaceOver(i, m, p)'
    BY <2>2, <2>6 DEF RaceOver, Racers, T
  <2> QED BY <2>5, <2>7 DEF Race, T
<1>8. CASE ~(now[c] < 1 + p)
  <2>1. T' = T
    <3>1. now[c] >= 1 + p
      BY <1>3, <1>8, SMT
    <3> QED BY <1>2, <3>1, PassedMore
  <2>2. RaceOver(i, m, p)'
    BY <1>1, <1>5, <1>6, <2>1 DEF RaceOver, Racers
  <2> QED BY <1>2, <2>1, <2>2 DEF Race
<1> QED BY <1>7, <1>8

\* In the first period a reader inserts a counter: an allowance is added.
LEMMA RaceInserted ==
  ASSUME TypeOK, Timed, NEW c \in Conns, CheckIpInsert(c), Limited(IpConfig),
         NEW m \in Nat, NEW p \in Nat, m = IpConfig.max_messages, p = IpConfig.period,
         Race(IpOf[c], m, p), clock < 1 + p
  PROVE  Race(IpOf[c], m, p)'
<1> DEFINE i == IpOf[c]
           T == IpPassed(i)
           ctr == ip_counters[i]
           allowed == ~limited[c] /\ ~FirstExceeds(IpConfig)
<1>1. /\ now[c] \in Nat /\ now[c] >= 1 /\ c \in Racers(i) /\ i \in Ips
      /\ pc[c] = "ipinsert" /\ IsFiniteSet(T) /\ ctr.msgs \in Nat
  <2>1. i \in Ips /\ c \in Racers(i)
    BY LimiterAssumption DEF Racers
  <2>2. pc[c] = "ipinsert" /\ IsFiniteSet(T)
    BY DEF Race, CheckIpInsert
  <2>3. now[c] \in Nat /\ now[c] >= 1
    BY <2>2, SMT DEF TypeOK, Timed
  <2>4. ctr.msgs \in Nat
    BY <2>1 DEF TypeOK, Counters
  <2> QED BY <2>1, <2>2, <2>3, <2>4
<1>2. Finish(c, allowed) /\ allowed \in BOOLEAN /\ clock' = clock
  BY DEF CheckIpInsert
<1>3. ip_counters'[i] = FirstRecord(now[c], len[c])
  BY <1>1 DEF CheckIpInsert, TypeOK
<1>4. /\ ip_counters'[i] # Vacant /\ ip_counters'[i].start >= 1 /\ ip_counters'[i].msgs = 1
  BY <1>1, <1>3, SMT DEF FirstRecord, Vacant
<1>5. PICK I \in SUBSET Racers(i) : /\ \A d \in I : pc[d] # "ipinsert"
                                    /\ Cardinality(T) <= m * Cardinality(I)
  <2>1. CASE ctr = Vacant
    <3>1. T = {}
      BY <2>1 DEF Race, RaceOpen
    <3>2. Cardinality(T) = 0 /\ Cardinality({}) = 0
      BY <3>1, FS_EmptySet
    <3>3. Cardinality(T) <= m * Cardinality({})
      BY <3>2, SMT
    <3> HIDE DEF T
    <3> QED BY <3>3
  <2>2. CASE ctr # Vacant
    BY <2>2 DEF Race, RaceOpen
  <2> QED BY <2>1, <2>2
<1>6. pc' = [pc EXCEPT ![c] = "idle"] /\ pc \in [Conns \cup Acceptors -> Steps]
  BY <1>2 DEF Finish, Goto, TypeOK
<1>7. /\ I \cup {c} \in SUBSET Racers(i) /\ c \notin I
      /\ \A d \in I \cup {c} : pc'[d] # "ipinsert"
  BY <1>1, <1>5, <1>6 DEF Racers
<1>8. Cardinality(I) \in Nat /\ Cardinality(I \cup {c}) = Cardinality(I) + 1
  <2>1. IsFiniteSet(I) /\ Cardinality(I) \in Nat
    BY RacersFinite
  <2> QED BY <1>7, <2>1, FS_AddElement
<1>9. /\ IsFiniteSet(T') /\ Cardinality(T') \in Nat /\ Cardinality(T) \in Nat
      /\ Cardinality(T') <= Cardinality(T) + 1
      /\ m = 0 => T' = T
  <2>1. ~allowed \/ m # 0
    BY DEF FirstExceeds
  <2> HIDE DEF allowed
  <2> QED BY <1>1, <1>2, <2>1, PassedMore
<1> HIDE DEF T, allowed
<1>10. m * (Cardinality(I) + 1) = m * Cardinality(I) + m /\ m * Cardinality(I) \in Nat
  <2>1. ASSUME NEW n \in Nat PROVE m * (n + 1) = m * n + m /\ m * n \in Nat
    BY ONLY m \in Nat, n \in Nat
  <2> QED BY <1>8, <2>1
<1>11. Cardinality(T') <= m * Cardinality(I \cup {c})
  <2>1. CASE m = 0
    BY <1>5, <1>8, <1>9, <1>10, <2>1, SMT
  <2>2. CASE m >= 1
    BY ONLY <1>5, <1>8, <1>9, <1>10, <2>2, m \in Nat
  <2> QED BY <2>1, <2>2, SMT
<1>12. Cardinality(T') + m <= m * Cardinality(I \cup {c}) + 1
  BY ONLY <1>5, <1>8, <1>9, <1>10, m \in Nat
<1>13. RaceOpen(i, m)'
  BY <1>4, <1>7, <1>11, <1>12 DEF RaceOpen, Racers, T
<1> QED BY <1>2, <1>9, <1>13 DEF Race, T

\* In the first period a frame is counted: it takes from the last allowance.
LEMMA RaceCounted ==
  ASSUME TypeOK, Timed, Sampled, NEW c \in Conns, CheckIpCount(c), Limited(IpConfig),
         NEW m \in Nat, NEW p \in Nat, m = IpConfig.max_messages, p = IpConfig.period,
         Race(IpOf[c], m, p), clock < 1 + p, ip_counters[IpOf[c]] # Vacant
  PROVE  Race(IpOf[c], m, p)'
<1> DEFINE i == IpOf[c]
           T == IpPassed(i)
           ctr == ip_counters[i]
           new == Record(ctr, now[c], len[c], IpConfig)
           allowed == ~limited[c] /\ ~Exceeds(new, IpConfig)
<1>1. /\ i \in Ips /\ c \in Racers(i) /\ pc[c] = "ip" /\ IsFiniteSet(T)
      /\ now[c] \in Nat /\ now[c] <= clock /\ clock \in Nat /\ clock >= 1
      /\ ctr.start \in Nat /\ ctr.msgs \in Nat /\ ctr.start >= 1
  <2>1. i \in Ips /\ c \in Racers(i)
    BY LimiterAssumption DEF Racers
  <2>2. pc[c] = "ip" /\ IsFiniteSet(T) /\ ctr.start >= 1
    BY DEF Race, RaceOpen, CheckIpCount
  <2>3. now[c] \in Nat /\ now[c] <= clock /\ clock \in Nat /\ clock >= 1
    BY SMT DEF TypeOK, Sampled, Instants
  <2>4. ctr.start \in Nat /\ ctr.msgs \in Nat
    <3>1. ctr \in Counters
      BY <2>1 DEF TypeOK
    <3> QED BY <3>1, SMT DEF Counters
  <2> QED BY <2>1, <2>2, <2>3, <2>4
<1>2. /\ Finish(c, allowed) /\ allowed \in BOOLEAN /\ clock' = clock
      /\ ip_counters' = [ip_counters EXCEPT ![i] = new]
  BY DEF CheckIpCount, Limited
<1>3. new.start = ctr.start /\ new.msgs = ctr.msgs + 1
  <2>1. ~(Elapsed(now[c], ctr.start) >= IpConfig.period)
    <3> DEFINE t == now[c]
               s == ctr.start
    <3>1. t \in Nat /\ s \in Nat /\ s >= 1 /\ t <= clock /\ clock \in Nat /\ clock >= 1
      BY <1>1
    <3> HIDE DEF s, t
    <3>2. ~(Elapsed(t, s) >= p)
      <4>1. t - s < p /\ 0 < p
        BY ONLY <3>1, p \in Nat, clock < 1 + p
      <4> QED BY ONLY <3>1, <4>1, p \in Nat DEF Elapsed
    <3> QED BY <3>2 DEF s, t
  <2>2. MaybeReset(ctr, now[c], IpConfig) = ctr
    BY <2>1 DEF MaybeReset
  <2> QED BY <2>2 DEF Record
<1>4. ip_counters'[i] = new /\ new # Vacant
  BY <1>1, <1>2, <1>3, SMT DEF TypeOK, Vacant
<1>5. allowed => ctr.msgs + 1 <= m
  <2>1. allowed => ~(new.msgs > m)
    BY LimiterAssumption DEF Exceeds, Limited
  <2> HIDE DEF allowed, new, ctr
  <2> QED BY <1>1, <1>3, <2>1, SMT
<1>6. PICK I \in SUBSET Racers(i) :
          /\ \A d \in I : pc[d] # "ipinsert"
          /\ Cardinality(T) <= m * Cardinality(I)
          /\ Cardinality(T) + m <= m * Cardinality(I) + ctr.msgs
  BY DEF Race, RaceOpen
<1>7. \A d \in I : pc'[d] # "ipinsert"
  BY <1>2, <1>6 DEF Finish, Goto, TypeOK, Racers
<1> HIDE DEF T, allowed, new, ctr
<1>8. /\ IsFiniteSet(T') /\ Cardinality(T') \in Nat /\ Cardinality(T) \in Nat
      /\ Cardinality(T') <= Cardinality(T) + 1
      /\ ~allowed => T' = T
  BY <1>1, <1>2, PassedMore DEF T
<1>9. m * Cardinality(I) \in Nat
  BY RacersFinite, SMT
<1>10. /\ Cardinality(T') <= m * Cardinality(I)
       /\ Cardinality(T') + m <= m * Cardinality(I) + new.msgs
  <2>1. CASE ~allowed
    BY <1>1, <1>3, <1>6, <1>8, <1>9, <2>1, SMT
  <2>2. CASE allowed
    <3>1. ctr.msgs + 1 <= m
      BY <1>5, <2>2
    <3> QED BY ONLY <1>1, <1>3, <1>6, <1>8, <1>9, <3>1, m \in Nat
  <2> QED BY <2>1, <2>2
<1>11. RaceOpen(i, m)'
  BY <1>1, <1>3, <1>4, <1>7, <1>10 DEF RaceOpen, Racers, T
<1> QED BY <1>2, <1>8, <1>11 DEF Race, T

\* The first period ends.
LEMMA RaceTick ==
  ASSUME IInv, NEW i \in Ips, Tick, NEW m \in Nat, NEW p \in Nat, Race(i, m, p)
  PROVE  Race(i, m, p)'
<1>1. /\ clock \in Nat /\ clock' = clock + 1 /\ pc' = pc /\ now' = now
      /\ ip_counters' = ip_counters /\ IpPassed(i)' = IpPassed(i)
  BY SMT DEF Tick, ipMaps, readerVars, historyVars, IpPassed, PassedIn, IInv, TypeOK, Instants
<1>2. /\ RaceOpen(i, m) => RaceOpen(i, m)'
      /\ RaceOver(i, m, p) => RaceOver(i, m, p)'
      /\ IsFiniteSet(IpPassed(i)')
  BY <1>1 DEF Race, RaceOpen, RaceOver, Racers, Pending
<1>3. RaceOpen(i, m) => RaceOver(i, m, p)
  <2> SUFFICES ASSUME RaceOpen(i, m) PROVE RaceOver(i, m, p)
    OBVIOUS
  <2>1. PICK I \in SUBSET Racers(i) : Cardinality(IpPassed(i)) <= m * Cardinality(I)
    <3>1. CASE ip_counters[i] = Vacant
      <4>1. IpPassed(i) = {}
        BY <3>1 DEF RaceOpen
      <4>2. Cardinality(IpPassed(i)) = 0 /\ Cardinality({}) = 0
        BY <4>1, FS_EmptySet
      <4>3. Cardinality(IpPassed(i)) <= m * Cardinality({})
        BY <4>2, SMT
      <4> QED BY <4>3
    <3>2. CASE ip_counters[i] # Vacant
      BY <3>2 DEF RaceOpen
    <3> QED BY <3>1, <3>2
  <2>2. Cardinality(IpPassed(i)) \in Nat /\ m * Cardinality(I) \in Nat
    BY FS_CardinalityType, RacersFinite, SMT DEF Race
  <2>3. Cardinality(IpPassed(i)) <= m * Cardinality(I) + Cardinality({})
    BY <2>1, <2>2, FS_EmptySet, SMT
  <2> QED BY <2>3, SMT DEF RaceOver
<1>4. CASE clock < 1 + p
  BY <1>1, <1>2, <1>3, <1>4 DEF Race
<1>5. CASE ~(clock < 1 + p)
  BY <1>1, <1>2, <1>5, SMT DEF Race
<1> QED BY <1>4, <1>5

\* cleanup does not sweep a counter of the first period while it lasts.
LEMMA RaceSweep ==
  ASSUME IInv, NEW i \in Ips, Cleanup, Limited(IpConfig),
         NEW m \in Nat, NEW p \in Nat, p = IpConfig.period, Race(i, m, p)
  PROVE  Race(i, m, p)'
<1>1. clock' = clock /\ pc' = pc /\ now' = now /\ passed' = passed
  BY DEF Cleanup, CleanupBegin, CleanupConnCounters, CleanupIpCounters,
         CleanupConnBans, CleanupIpBans, readerVars, historyVars
<1>2. ip_counters' = ip_counters \/ ip_counters' = Retained(ip_counters)
  BY DEF Cleanup, CleanupBegin, CleanupConnCounters, CleanupIpCounters,
         CleanupConnBans, CleanupIpBans, ipMaps
<1>3. ASSUME clock < 1 + p PROVE ip_counters'[i] = ip_counters[i]
  <2> DEFINE t == ip_counters[i].start
  <2>1. /\ clock \in Nat /\ cleanNow \in Nat /\ cleanNow <= clock
        /\ ip_counters \in [Ips -> Counters]
    BY SMT DEF IInv, TypeOK, Sampled, Instants
  <2>2. t \in Nat
    <3>1. ip_counters[i] \in Counters
      BY <2>1
    <3> QED BY <3>1, SMT DEF Counters
  <2>3. p \in Nat \ {0} /\ StaleThreshold \in Nat /\ StaleThreshold >= 2 * p
    BY ThresholdCoversPeriod, LimiterAssumption DEF Limited, Limits
  <2> HIDE DEF t
  <2>4. Elapsed(cleanNow, t) < StaleThreshold
    BY ONLY <1>3, <2>1, <2>2, <2>3 DEF Elapsed
  <2> QED BY <1>2, <2>1, <2>4 DEF Retained, t
<1>4. IpPassed(i)' = IpPassed(i)
  BY <1>1, SMT DEF IpPassed, PassedIn
<1> QED BY <1>1, <1>3, <1>4, RaceKept DEF Pending

\* Every frame in progress was sampled after the start.
LEMMA TimedNext == IInv /\ Timed /\ [Next]_vars => Timed'
<1> SUFFICES ASSUME IInv, Timed, [Next]_vars, NEW c \in Conns, pc'[c] # "idle"
             PROVE  now'[c] >= 1
  BY DEF Timed
<1>1. /\ pc \in [Conns \cup Acceptors -> Steps] /\ Conns \cap Acceptors = {}
      /\ now \in [Conns -> 0 .. MaxTime] /\ clock \in Nat /\ clock >= 1
  BY LimiterAssumption, SMT DEF IInv, TypeOK, Instants
<1>2. now'[c] = clock \/ (now'[c] = now[c] /\ pc[c] # "idle")
  <2>1. ASSUME NEW d \in Conns, CheckBegin(d)
        PROVE  now'[c] = clock \/ (now'[c] = now[c] /\ pc[c] # "idle")
    <3>1. pc' = [pc EXCEPT ![d] = "connban"] /\ now' = [now EXCEPT ![d] = clock]
      BY <2>1 DEF CheckBegin, Goto
    <3> QED BY <1>1, <3>1
  <2>2. ASSUME NEW d \in Conns,
               CheckConnBan(d) \/ CheckIpBan(d) \/ CheckIpRemove(d) \/ CheckConnCount(d)
        PROVE  now'[c] = now[c] /\ pc[c] # "idle"
    BY <1>1, <2>2 DEF CheckConnBan, CheckIpBan, CheckIpRemove, CheckConnCount,
                      Goto, Finish, readerVars
  <2>3. ASSUME NEW d \in Conns, CheckIpCount(d) \/ CheckIpInsert(d)
        PROVE  now'[c] = now[c] /\ pc[c] # "idle"
    BY <1>1, <2>3 DEF CheckIpCount, CheckIpInsert, Goto, Finish, readerVars
  <2>4. ASSUME NEW a \in Acceptors, AcceptGet(a) \/ AcceptRemove(a)
        PROVE  now'[c] = now[c] /\ pc[c] # "idle"
    BY <1>1, <2>4 DEF AcceptGet, AcceptRemove, Goto, readerVars
  <2>5. CASE Cleanup \/ Tick \/ UNCHANGED vars
    BY <2>5 DEF Cleanup, CleanupBegin, CleanupConnCounters, CleanupIpCounters,
                CleanupConnBans, CleanupIpBans, Tick, vars, readerVars
  <2> QED BY <2>1, <2>2, <2>3, <2>4, <2>5 DEF Next, CheckAndRecord
<1> QED BY <1>1, <1>2 DEF Timed

\* The readers' own steps keep the race of every address.
LEMMA RaceCheck ==
  ASSUME IInv, Timed, NEW d \in Conns, CheckAndRecord(d), NEW i \in Ips, Limited(IpConfig),
         NEW m \in Nat, NEW p \in Nat, m = IpConfig.max_messages, p = IpConfig.period,
         Race(i, m, p)
  PROVE  Race(i, m, p)'
<1>1. /\ TypeOK /\ Sampled /\ pc \in [Conns \cup Acceptors -> Steps]
      /\ now \in [Conns -> 0 .. MaxTime] /\ ip_counters \in [Ips -> Counters]
      /\ IpOf[d] \in Ips
  BY LimiterAssumption DEF IInv, TypeOK
<1>2. IsFiniteSet(IpPassed(i)) /\ Racers(i) \subseteq Conns
  BY DEF Race, Racers
<1>3. CASE CheckBegin(d)
  <2>1. /\ clock' = clock /\ ip_counters' = ip_counters /\ passed' = passed
        /\ pc' = [pc EXCEPT ![d] = "connban"] /\ now' = [now EXCEPT ![d] = clock]
    BY <1>3 DEF CheckBegin, Goto, ipMaps, historyVars
  <2>2. IpPassed(i)' = IpPassed(i)
    BY <2>1, SMT DEF IpPassed, PassedIn
  <2>3. \A c \in Racers(i) : pc'[c] = "ipinsert" => pc[c] = "ipinsert"
    BY <1>1, <1>2, <2>1
  <2>4. ~(clock < 1 + p) => \A c \in Racers(i) : Pending(c, p)' => Pending(c, p)
    BY <1>1, <1>2, <2>1 DEF Pending
  <2> QED BY <2>1, <2>2, <2>3, <2>4, RaceKept
<1>4. ASSUME NEW to, Goto(d, to), pc[d] # "idle", clock' = clock, now' = now,
             to = "ipinsert" => IpOf[d] # i \/ ip_counters[i] = Vacant,
             ip_counters'[i] = ip_counters[i], IpPassed(i)' = IpPassed(i)
      PROVE  Race(i, m, p)'
  <2>1. pc' = [pc EXCEPT ![d] = to]
    BY <1>4 DEF Goto
  <2>2. \A c \in Racers(i) : Pending(c, p)' => Pending(c, p)
    BY <1>1, <1>2, <1>4, <2>1 DEF Pending
  <2>3. \A c \in Racers(i) :
            pc'[c] = "ipinsert" => pc[c] = "ipinsert" \/ ip_counters[i] = Vacant
    BY <1>1, <1>2, <1>4, <2>1 DEF Racers
  <2> QED BY <1>4, <2>2, <2>3, RaceKept
<1>5. CASE CheckConnBan(d) \/ CheckIpBan(d) \/ CheckIpRemove(d) \/ CheckConnCount(d)
  <2>1. /\ pc[d] # "idle" /\ clock' = clock /\ now' = now /\ ip_counters' = ip_counters
        /\ \/ Finish(d, FALSE)
           \/ passed' = passed /\ \E to \in {"ipban", "conn", "ipremove", "ip"} : Goto(d, to)
    BY <1>5 DEF CheckConnBan, CheckIpBan, CheckIpRemove, CheckConnCount,
                ipMaps, readerVars, historyVars
  <2>2. CASE Finish(d, FALSE)
    <3>1. IpPassed(i)' = IpPassed(i)
      BY <1>1, <1>2, <2>2, PassedMore
    <3> QED BY <1>4, <2>1, <2>2, <3>1 DEF Finish
  <2>3. CASE passed' = passed /\ \E to \in {"ipban", "conn", "ipremove", "ip"} : Goto(d, to)
    <3>1. IpPassed(i)' = IpPassed(i)
      BY <2>3, SMT DEF IpPassed, PassedIn
    <3> QED BY <1>4, <2>1, <2>3, <3>1
  <2> QED BY <2>1, <2>2, <2>3
<1>6. ASSUME NEW allowed \in BOOLEAN, Finish(d, allowed), pc[d] # "idle",
             clock' = clock, now' = now,
             \A k \in Ips : k # IpOf[d] => ip_counters'[k] = ip_counters[k],
             clock < 1 + p /\ IpOf[d] = i => Race(i, m, p)'
      PROVE  Race(i, m, p)'
  <2>1. CASE IpOf[d] # i
    <3>1. IpPassed(i)' = IpPassed(i)
      BY <1>1, <1>2, <1>6, <2>1, PassedMore
    <3> QED BY <1>4, <1>6, <2>1, <3>1 DEF Finish
  <2>2. CASE IpOf[d] = i /\ ~(clock < 1 + p)
    BY <1>1, <1>6, <2>2, RaceLate
  <2> QED BY <1>6, <2>1, <2>2
<1>7. CASE CheckIpCount(d)
  <2>1. pc[d] = "ip" /\ clock' = clock /\ now' = now
    BY <1>7 DEF CheckIpCount, readerVars
  <2>2. CASE ip_counters[IpOf[d]] = Vacant
    <3>1. Goto(d, "ipinsert") /\ ip_counters' = ip_counters /\ passed' = passed
      BY <1>7, <2>2 DEF CheckIpCount, Limited, ipMaps
    <3>2. IpPassed(i)' = IpPassed(i)
      BY <3>1, SMT DEF IpPassed, PassedIn
    <3> QED BY <1>4, <2>1, <2>2, <3>1, <3>2
  <2>3. CASE ip_counters[IpOf[d]] # Vacant
    <3> DEFINE new == Record(ip_counters[IpOf[d]], now[d], len[d], IpConfig)
               allowed == ~limited[d] /\ ~Exceeds(new, IpConfig)
    <3>1. /\ Finish(d, allowed) /\ allowed \in BOOLEAN
          /\ ip_counters' = [ip_counters EXCEPT ![IpOf[d]] = new]
      BY <1>7, <2>3 DEF CheckIpCount, Limited
    <3> HIDE DEF new, allowed
    <3>2. \A k \in Ips : k # IpOf[d] => ip_counters'[k] = ip_counters[k]
      BY <1>1, <3>1
    <3>3. clock < 1 + p /\ IpOf[d] = i => Race(i, m, p)'
      BY <1>1, <1>7, <2>3, RaceCounted
    <3> QED BY <1>6, <2>1, <3>1, <3>2, <3>3
  <2> QED BY <2>2, <2>3
<1>8. CASE CheckIpInsert(d)
  <2> DEFINE new == FirstRecord(now[d], len[d])
             allowed == ~limited[d] /\ ~FirstExceeds(IpConfig)
  <2>1. /\ pc[d] = "ipinsert" /\ clock' = clock /\ now' = now
        /\ Finish(d, allowed) /\ allowed \in BOOLEAN
        /\ ip_counters' = [ip_counters EXCEPT ![IpOf[d]] = new]
    BY <1>8 DEF CheckIpInsert, readerVars
  <2> HIDE DEF new, allowed
  <2>2. \A k \in Ips : k # IpOf[d] => ip_counters'[k] = ip_counters[k]
    BY <1>1, <2>1
  <2>3. clock < 1 + p /\ IpOf[d] = i => Race(i, m, p)'
    BY <1>1, <1>8, RaceInserted
  <2> QED BY <1>6, <2>1, <2>2, <2>3
<1> QED BY <1>3, <1>5, <1>7, <1>8 DEF CheckAndRecord

\* The limiter starts without frames, and every step keeps every race.
LEMMA RaceInit == Init => Timed /\ RaceInv
<1> SUFFICES ASSUME Init PROVE Timed /\ RaceInv
  OBVIOUS
<1>1. Timed
  BY DEF Init, Timed
<1>2. ASSUME Limited(IpConfig), NEW i \in Ips
      PROVE  Race(i, IpConfig.max_messages, IpConfig.period)
  <2>1. IpConfig.period \in Nat \ {0} /\ clock = 1 /\ ip_counters[i] = Vacant
    BY <1>2, LimiterAssumption DEF Init, Limited, Limits
  <2>2. IpPassed(i) = {}
    BY SMT DEF Init, IpPassed, PassedIn
  <2> QED BY <2>1, <2>2, FS_EmptySet, SMT DEF Race, RaceOpen
<1> QED BY <1>1, <1>2 DEF RaceInv

\* Every step preserves it, on this address or another.
LEMMA RaceNext == IInv /\ Timed /\ RaceInv /\ [Next]_vars => RaceInv'
<1> SUFFICES ASSUME IInv, Timed, RaceInv, [Next]_vars, Limited(IpConfig), NEW i \in Ips,
                    NEW m \in Nat, NEW p \in Nat,
                    m = IpConfig.max_messages, p = IpConfig.period
             PROVE  Race(i, m, p)'
  <2>1. Limited(IpConfig) => IpConfig.max_messages \in Nat /\ IpConfig.period \in Nat
    BY LimiterAssumption DEF Limited, Limits
  <2> QED BY <2>1 DEF RaceInv
<1>1. Race(i, m, p)
  BY DEF RaceInv
<1>2. pc \in [Conns \cup Acceptors -> Steps] /\ Conns \cap Acceptors = {}
  BY LimiterAssumption DEF IInv, TypeOK
<1>3. ASSUME NEW d \in Conns, CheckAndRecord(d) PROVE Race(i, m, p)'
  BY <1>1, <1>3, RaceCheck
<1>4. ASSUME clock' = clock, now' = now, ip_counters' = ip_counters, passed' = passed,
             \A c \in Conns : pc'[c] = pc[c]
      PROVE  Race(i, m, p)'
  <2>1. IpPassed(i)' = IpPassed(i) /\ Racers(i) \subseteq Conns
    BY <1>4, SMT DEF IpPassed, PassedIn, Racers
  <2> QED BY <1>1, <1>4, <2>1, RaceKept DEF Pending
<1>5. ASSUME NEW a \in Acceptors, AcceptGet(a) \/ AcceptRemove(a) PROVE Race(i, m, p)'
  <2>1. /\ clock' = clock /\ now' = now /\ ip_counters' = ip_counters /\ passed' = passed
        /\ \A c \in Conns : pc'[c] = pc[c]
    BY <1>2, <1>5 DEF AcceptGet, AcceptRemove, Goto, ipMaps, readerVars, historyVars
  <2> QED BY <1>4, <2>1
<1>6. CASE Cleanup
  BY <1>1, <1>6, RaceSweep
<1>7. CASE Tick
  BY <1>1, <1>7, RaceTick
<1>8. CASE UNCHANGED vars
  BY <1>4, <1>8 DEF vars, ipMaps, readerVars, historyVars
<1> QED BY <1>3, <1>5, <1>6, <1>7, <1>8 DEF Next

\* check_and_record looks the counter of an address up and inserts it in two
\* accesses, so the first frames of its connections can race: whatever the
\* interleaving, every connection adds at most one allowance and one late frame.
THEOREM RacesAreBounded == Spec => []IpRaceBound
<1>1. RaceInv => IpRaceBound
  <2> SUFFICES ASSUME RaceInv, Limited(IpConfig), NEW i \in Ips,
                      NEW m \in Nat, NEW p \in Nat,
                      m = IpConfig.max_messages, p = IpConfig.period
               PROVE  Cardinality(IpPassed(i)) <= Cardinality(Racers(i)) * (m + 1)
    <3>1. Limited(IpConfig) => IpConfig.max_messages \in Nat /\ IpConfig.period \in Nat
      BY LimiterAssumption DEF Limited, Limits
    <3> QED BY <3>1 DEF IpRaceBound, Racers
  <2>1. PICK I \in SUBSET Racers(i), S \in SUBSET Racers(i) :
            Cardinality(IpPassed(i)) <= m * Cardinality(I) + Cardinality(S)
    <3>1. Race(i, m, p)
      BY DEF RaceInv
    <3>2. CASE RaceOver(i, m, p)
      BY <3>2 DEF RaceOver
    <3>3. CASE RaceOpen(i, m)
      <4>1. \E I \in SUBSET Racers(i) : Cardinality(IpPassed(i)) <= m * Cardinality(I) + 0
        <5>1. CASE ip_counters[i] = Vacant
          <6>1. Cardinality(IpPassed(i)) = 0 /\ Cardinality({}) = 0
            BY <3>3, <5>1, FS_EmptySet DEF RaceOpen
          <6>2. Cardinality(IpPassed(i)) <= m * Cardinality({}) + 0
            BY <6>1, SMT
          <6> QED BY <6>2
        <5>2. CASE ip_counters[i] # Vacant
          <6>1. PICK I \in SUBSET Racers(i) : Cardinality(IpPassed(i)) <= m * Cardinality(I)
            BY <3>3, <5>2 DEF RaceOpen
          <6>2. Cardinality(IpPassed(i)) \in Nat /\ m * Cardinality(I) \in Nat
            BY <3>1, FS_CardinalityType, RacersFinite, SMT DEF Race
          <6> QED BY <6>1, <6>2, SMT
        <5> QED BY <5>1, <5>2
      <4> QED BY <4>1, FS_EmptySet
    <3> QED BY <3>1, <3>2, <3>3 DEF Race
  <2>2. /\ Cardinality(I) \in Nat /\ Cardinality(S) \in Nat /\ Cardinality(Racers(i)) \in Nat
        /\ Cardinality(I) <= Cardinality(Racers(i)) /\ Cardinality(S) <= Cardinality(Racers(i))
    BY RacersFinite
  <2>3. Cardinality(IpPassed(i)) \in Nat
    BY FS_CardinalityType DEF RaceInv, Race
  <2>4. ASSUME NEW a \in Nat, NEW b \in Nat, NEW n \in Nat, a <= n, b <= n
        PROVE  m * a + b <= n * (m + 1) /\ m * a + b \in Nat /\ n * (m + 1) \in Nat
    <3>1. m * a <= m * n /\ m * a \in Nat /\ m * n \in Nat
      BY ONLY <2>4, m \in Nat, a \in Nat, n \in Nat
    <3>2. n * (m + 1) = m * n + n
      BY ONLY m \in Nat, n \in Nat
    <3> QED BY ONLY <2>4, <3>1, <3>2, b \in Nat, n \in Nat
  <2>5. /\ m * Cardinality(I) + Cardinality(S) <= Cardinality(Racers(i)) * (m + 1)
        /\ m * Cardinality(I) + Cardinality(S) \in Nat
        /\ Cardinality(Racers(i)) * (m + 1) \in Nat
    BY <2>2, <2>4
  <2> QED BY ONLY <2>1, <2>3, <2>5
<1> QED BY <1>1, InvariantHolds, RaceInit, RaceNext, TimedNext, PTL DEF Spec

=============================================================================
