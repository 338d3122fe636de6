# Verification of wscall

wscall is an RPC and event library over WebSockets: a client
(`crates/wscall-client`), a server (`crates/wscall-server`) and the frame
protocol they share (`crates/wscall-protocol`). This directory holds TLA+ models
of them, the TLC runs that check the models on small instances, and TLAPS proofs
of the main safety properties for every value of the constants. `PROJECT.json`
lists components, runs, mutants, hazards, findings and theorems, and maps every
definition to the lines it models.

## The system

* **Client.** `WscallClient` keeps two maps of pending requests
  (`pending_api`, `pending_event`), the current writer handle, a connected flag,
  a shutdown flag and a connection generation. A supervisor task dials, publishes
  the connection and waits for its end; each connection has a writer, a heartbeat
  and a reader task. Any of the three, or `close()`, may run `handle_disconnect`.
* **Connection set-up.** The supervisor goes through its URLs, exchanges X25519
  keys if so configured, sends its credential and waits for a verdict. When that
  fails it sleeps, 3 s at first and up to 30 s, and starts again. The server goes
  through the same phases, configured on its own.
* **Server.** `listen` takes a connection permit, accepts, and spawns
  `serve_connection`: ban check, upgrade, key exchange, authentication,
  registration, `on_connected`, writer task, reader loop, teardown. Every request
  or event runs in a task of its own, under a per-connection in-flight semaphore,
  and answers through the connection's bounded queue.
* **Rate limiter.** Counters and bans per connection and per address in shared
  maps, used by every reader, by the tasks that accept sockets and by a periodic
  cleanup.
* **Protocol.** Packet bodies and their JSON form, the frame codec, encryption.
* **Validation.** Stateless predicates used inside route handlers.

Client and server meet only on the wire. `Handshake` has both, from the dial to
the first traffic. `FrameCodec` has both ends of one frame. In `ClientSession`
the server is one external action (a request that arrives is run once and may be
answered); in `ServerConnection` the client is a source of requests, pings,
malformed frames and closes. Set-up is a single step that succeeds or fails in
`ClientSession`, and a few in `ServerConnection`; the limiter's verdict is a free
choice in `ServerConnection` and is computed in `RateLimiter`.

## Modules

| module | models | theorems |
|---|---|---|
| `ClientSession` | `client_runtime.rs`: call, send_event, close, handle_disconnect, supervisor, the three tasks | `ClientSessionProofs`, `ClientWaiterProofs` |
| `CallContract` | what a caller is promised (abstract) | `ClientContractProofs` |
| `Handshake` | `client_runtime.rs` (URL loop, exchanges, back-off) with `server_runtime.rs` (key exchange, authentication, first traffic) | `HandshakeProofs` |
| `ServerConnection` | `server_runtime.rs`: listen, serve_connection, writer, request tasks, pushed events | `ServerConnectionProofs` |
| `RateLimiter` | `rate_limiter.rs`: check_and_record, is_ip_banned, cleanup | `RateLimiterProofs`, `LimiterBoundsProofs` |
| `PacketBody` | `wscall-protocol`: the packet variants, Serialize and Deserialize | `FrameCodecProofs` |
| `FrameCodec` | `wscall-protocol`: encode, decode, attachments; the length checks of the server's reader | `FrameCodecProofs` |
| `MC*` | constants for TLC | |

An action is the code between two points where another task can see or change
shared state. In `FrameCodec`, which is sequential, it is the code between two
places that may panic or return an error.

**ClientSession.** `is_connected`, `shutdown`, `connection_generation`, `writer`
and `pending` are the fields of those names; `writer` holds the generation whose
channel is published, 0 for `None`. `queue[g]` is the channel of generation `g`,
`pc` the progress of its tasks and of `close()` calls, `call` the progress of a
call and `result` its oneshot. `wire` says how far a request got. `call()` is
`CallCheck`, `CallInsert`, `CallLoad`, `CallSend`, then `CallReturn` or
`CallTimeout` and `CallExpire`; a future dropped by the application is
`CallCancel`. `handle_disconnect` is `HdCheck`, `HdSwap`, `HdStore`, two
`HdDrain` and `HdSignal`. A drain of one map is a single step. `fired` holds the
generations whose signal has been sent. The supervisor stands at `emit` while the
`on_connected` handlers run; the tasks of the connection start only when these
have returned (`SupSpawn`). Any step may be delayed for any time, so a task that
has passed the generation check may swap the flag of a later connection.

**Handshake.** `config` is how the client and the server of each URL are set up;
every combination is an initial state. `last_url_idx` and `offset` are the loop
over the URLs, `attempt` and `delay` the back-off in seconds. A connection has a
number, taken in rotation; `serve[g]` is the phase of the server's task for it,
`toServer[g]` and `toClient[g]` its two directions. A codec is a set of key
names, and a derived key is the pair of public keys it came from, so two sides
can talk exactly when their sets are equal. `parse_peer_public` looks only at the
length of a message, hence `Peers` lets an `AuthRequest` of 32 bytes pass for a
key.

**ServerConnection.** `conn[c]` is the progress of `serve_connection`, `clients`
the live table, `held` the message the reader is working on, `queue`, `out` and
`writer` the channel, the message being written and the writer task, `req` the
progress of a request's task, `in_flight[c]` the free permits of the connection's
semaphore: `AcquirePermit` takes one and `TaskEnds` is the drop of it, on every
path on which a task ends, a panic included. The failures of the handshakes are `SetupFails`.
A non-empty identity context is assumed of an accepted credential.

**RateLimiter.** One action per access of a shared map. `clock` is a bounded
number of instants; `now` is the instant a check sampled. `passed`, `connBanned`
and `ipBanned` are history variables of the properties only. A missing counter is
`Vacant`, a missing ban 0.

**PacketBody.** A body is a variant, a function from JSON keys to values and its
attachments. `Layout` is the table of keys and of the conversion of each, and
`WellFormed` what the Rust types say of a body;
`Serialize` leaves out what the code leaves out, and `Deserialize` has the code's
defaults, truncation (`u16`) and errors. `Canonical` says what a round trip may
change: metadata `{}` reads back as null and error details `null` as `None`.

**FrameCodec.** Frames are sequences of bytes in base `Base`. `pos` is how far
into the current buffer the code has indexed; `Byte` and `Slice` are total, so an
index past the end shows as `pos > Len(buf)` and not as an error of TLC.
Encryption is ideal: a payload opens only under its key and unchanged. `Text` is
the JSON text of each value; only its being a code matters. `Alter` replaces the
frame by one with a byte changed, by a truncated one, or by a shorter one with
the right length in its header. The two paths of `encode` write the same bytes
and are one.

## Runs

| run | shows | size |
|---|---|---|
| `ClientCalls` | two calls over two connections, a queue of one slot and a fault: answers reach their own caller (`ReplyMatchesCall`), nobody waits on a dead connection (`NoOrphanedWaiter`), entries do not leak (`PendingIsOwned`), a refused call never runs (`RefusedNeverRan`); together they implement `CallContract`: at most one execution, only a request's own answer completes it (`KeepsContract`); every call returns, except one blocked for ever on the full queue of a connection whose `on_connected` handlers never return (`CallsReturn`) | 328 k states |
| `ClientLifecycle` | heartbeats, failures, a reconnect and a `close()`, with tasks stalled at will: `ConnectedIsServed`, `StoppedIsDisconnected`; a connection's own teardown is over before the next one is published (`TeardownBeforeReconnect`); the supervisor gets to know of every connection whose socket failed or that `close()` told to end, whoever took the flag down (`EndIsNoticed`) | 212 k |
| `HandshakeSession` | a client and two servers in every combination of configurations: both ends of a finished key exchange hold the same key, a verdict is only believed where it was given, the back-off doubles, failover connects in the end, no connection stays half open | 409 k |
| `CodecFrames` | every packet variant, plain and encrypted, limits at, below and above the frame's size: no read past a buffer, what is sent is delivered, what was changed under encryption is not, the size limit is exact, wrong lengths are answered and not fatal | 144 k |
| `LimiterConn` | a connection's burst is at most twice the limit, its ban holds and is not prolonged by traffic, the sweep forgets only what is over | 2.8 M |
| `LimiterIp` | two connections racing on their address's counter get at most one allowance and one stalled frame each through in a period | 2.9 M |
| `ServerSession` | connection and in-flight permits are conserved on every path, panics included; only authenticated connections are served, a request is answered at most once, no answer is dropped because a queue is full; the teardown ends and blocked answers are released, with no help from the peer or from handlers | 69 k |

Five runs are expected to find a counterexample; each compares a sentence of the
documentation with what the code does:

* `ClientCloseRace`: "Calling `close()` stops reconnect attempts." A `close()`
  that runs while the supervisor is dialling finds no writer and returns; the
  dial then succeeds and the client becomes connected. If `close()` reads the
  flag just after it was set, it takes the new connection down without queueing
  `Close`, and the tasks keep the socket; `EndIsNoticed` therefore speaks of
  connections that were told to end or have failed.
* `ClientStaleTask`: "Unexpected disconnects trigger automatic reconnect
  attempts". `handle_disconnect` checks the generation (`client_runtime.rs:787`)
  and swaps the flag (`:793`) in two steps. A task of the first connection that
  stalls between them while the second one is dialled and published takes the
  second one down: it clears the writer and the flag, and sends its own signal,
  which was spent long ago. The second connection's socket is healthy, so its
  tasks go on, and the supervisor waits for them (`:478`). The client is
  disconnected and nobody reconnects. A stall of one dial is enough: a task that
  outlived its connection may reach the check at the end of the back-off, just
  before the generation advances (`:471`).
* `LimiterBanLost`: "New connections from a banned IP are rejected"
  (`rate_limiter.rs:8`). Removing an expired ban (`rate_limiter.rs:237`, and the
  same in `is_ip_banned`) follows the lookup without a lock and is unconditional,
  so it can remove a ban set in between; the next socket of the address is let in.
* `ServerIdentity`: the identity context is "accessible from every route/event
  handler". A task that starts after its connection left the table gets none.
* `HandshakeFailover`: "each reconnect cycle iterates through all URLs [...]
  before applying backoff delay". The cycle ends at the first WebSocket that
  opens. If its key exchange or authentication fails, the other URLs are not
  tried, and the next cycle begins with the same one. `FailoverConnects`
  therefore asks that every reachable server suits the client.

Divergences seen while modelling that have no run of their own:

* The id counters are documented as per connection (`client_runtime.rs:77`); they
  belong to the client and are never reset. `ReplyMatchesCall` needs that: the
  reader of an old socket may still deliver answers after a reconnect, and with
  counters that restart they would complete the wrong call (mutant
  `SupSetConnectedFresh`).
* The limiter's "sliding time window" (`rate_limiter.rs:4`) is a fixed window;
  `ConnBurstBound` states what it does guarantee. The per-address limit is not an
  exact aggregate; `IpRaceBound` states what is.
* "Maximum cumulative inbound bytes allowed per window" (`rate_limiter.rs:33`):
  the first frame of a connection is only compared with a limit of zero
  (`rate_limiter.rs:268`), so one frame of any size passes.
* "a slow handler does not delay the connection setup" (`server_runtime.rs:516`):
  `NotifyConnected` waits for all handlers before the writer is spawned and the
  reader starts.
* An oversized message is documented to get a 413 with "the connection stays
  open" (`server_runtime.rs:324`, `README.md:99`); the same limit is tungstenite's
  message cap, which ends the connection (as the comment at
  `server_runtime.rs:637` says and a test in `frame_size_limit.rs` expects).
  `Arrive` has that; the 413 of the reader is left for frames that fit and
  declare a length that is wrong.
* More than 255 attachments, or an attachment with a text of more than 255 bytes,
  are encoded without an error and do not decode to what was sent: the lengths
  are cast to `u8` (`lib.rs:232`). `Delivered` and `SealedIntact` are about
  packets that fit (`Fits`); the instance has packets that do not.
* The back-off's "sub-second jitter" (`client_runtime.rs:499`) is up to half the
  base delay, 1.5 s. It is left out of `delay`.

### Bounds

Client: two generations are the least with a stale task, a late answer and a
reconnect; two calls the least that can be confused. `QueueCap = 1` makes a full
queue common, before the writer is spawned too, which is the exception of
`CallsReturn` (`Jammed`). The code has room for 256; handlers that fill it hang,
and with them the connection. Calls and `close()` are in different runs for the
size of the state space; the safety properties of both are proved for any number
of each. `send_event` goes through the same steps as `call` with the other map.
`MaxFaults` counts failures of sockets, codecs, dials and cancellations. `Beats`
lets heartbeats and pings travel on a live connection; they share the queue with
requests and are switched off where calls are checked, which leaves only the
ticks after a connection has ended.

Handshake: two URLs make a start, a wrap-round and an untried rest; two
connection numbers let a server still hold an old connection while the client
uses a new one. Numbers are reused, so behaviours are not cut off and liveness
means something. Two faults allow a lost connection and a server that goes away.
`AttemptCap` changes nothing: the delay is constant from the fifth attempt.

Codec: bytes of four values, so that four attachments or texts of four bytes
overflow a `u8`; limits that lie under, among and above the sizes
of the packets; nonce and tag of two and one bytes.

Server: one in-flight permit for two requests and one slot in the queue, so that
the reader waits for a permit whose task waits for the queue. One connection
permit is taken again by the accept loop as soon as the connection is gone. Two
faults allow a panic in a handler and a failure of the writer. The limiter runs have a limit, a period and a
ban of a few instants, so that windows and bans both end within the run; the
period of `LimiterIp` is one instant, so that `cleanup` also forgets a window
while a frame of it is still on its way. Deadlock is not checked: bounded models,
and a stopped client, really stop.

### Fairness

Client: the runtime schedules each task, call and `close()` on its own, timers
fire, a dial ends, and the writer's `sink.send` makes progress (`connect_async`
and `sink.send` have no timeout of their own in the code, so this is an assumption
on the network stack). A handler of `on_connected` may await any call, so it is
assumed to return only while no call is in progress (`Quiet`). A broken socket is
eventually noticed by its reader: the idle timeout sees to it. Nothing is assumed
of the server's answers, and no bound on how long a step takes.

Handshake: the supervisor and every server task keep running, and messages under
way arrive or the end of the stream does. Timeouts count as faults and nothing
is assumed of them, so `HalfOpenEnds` shows that a half-open connection ends even
without them.

Server: weak fairness only of what `serve_connection` and request tasks do on
their own, including the end of the grace period. Nothing is assumed of the
peer, of the writer's socket or of application handlers.

## Proofs

The assumptions are those on the constants (`ConstantsAssumption`,
`HandshakeAssumption`, `ServerAssumption`, `LimiterAssumption`,
`ConnsAssumption`, `CodecAssumption`, `TextAssumption`, `PacketAssumption`), which
TLC evaluates in the runs. The theorem modules make Zenon the prover of their
leaves (`USE Zenon`); a leaf that needs arithmetic, sequences or records says
`SMT`. TLC has checked every inductive invariant named here on the instances of
the runs.

`ClientSessionProofs` (any number of calls, closes, generations and faults):

* `TypeCorrect`: `TypeOK` is inductive.
* `AnswersMatch`, `NoLeakedEntry`: both follow from `Correlation`, which says
  that every entry belongs to the call that took its id, that ids in use never
  exceed the counter, and that no two calls of a kind share an id.
  `ReplyMatchesCall` alone is not inductive: that the entry under an answer's id
  is the caller's own depends on ids being unique across connections.
* `RefusedIsFinal`: follows from `Unsent`: a call that has not completed its send
  is in no queue and not on the wire, so returning `Disconnected` is final.

`ClientWaiterProofs` (the same, with or without reconnects and heartbeats):

* `ConnectionIsServed`: from `Spawned`. The tasks of a generation exist only once
  the supervisor has published it, and one that has begun its teardown has taken
  the flag down.
* `StoppedClaimsNothing`: from `Claimed`: the flag is up only while the supervisor
  serves a connection.
* `NoWaiterIsOrphaned`: from `Published`, `Registered` and `Attended`. A caller
  that has loaded a handle holds the current one or a drain of its map is still
  to come; this must be said from the load on, before the caller waits, and it
  needs that a published handle is either served or about to be cleared. It is
  the store-`None`-before-drain order of `handle_disconnect` that keeps it.
* `TeardownsPrecede`: from `Orderly`, with `Spawned` and `Claimed`. While a
  connection is current at most one of its tasks is in a teardown, with the flag
  lowered and its signal to come, and only while the supervisor awaits it; hence
  neither the signal nor the return of all three tasks can wake the supervisor
  before that teardown is over. Tasks of older connections are not covered: one
  of them may be in a teardown at any time, which is what `ClientStaleTask` shows.

`ClientContractProofs`: `ContractIsKept`, the refinement of `CallContract`. Every
step is mapped to a step of the contract or to none, under the invariants `Once` (a
queued request is queued once, on the connection its caller loaded, and has not
been sent) and `Answered` (a call is completed by the answer the reader took), with
`Correlation` and `Unsent`.

`HandshakeProofs` (any number of URLs, connections and faults, any set of modes):

* `TypeCorrect`: `TypeOK` is inductive.
* `KeysAgree`, `VerdictsAreHonest`: from `ClientInv` and `WireInv`. The
  properties speak of the two ends; what carries them is what lies between: a key
  on its way to the client was sent by a server that has already derived the same
  session key, an acceptance on its way is one of this connection and under its
  codec, and a server that still waits for a key has sent nothing and will read
  the client's key first.
* `BackoffSchedule`: from `BackoffInv`, which ties the last sleep to the attempt
  counter while the client is not connected, and a table of `reconnect_delay`.

`FrameCodecProofs` (any size of a byte, any limits, packets and keys):

* `TypeCorrect`, `StaysInside`: `ReadsInside` is inductive together with the
  types: every comparison in the code bounds exactly the slice that follows it.
* `LimitIsExact`: needs `Composed`, that the buffer of `encode` holds at least the
  length and the count when it is measured, since the two size checks work on
  payloads and the limit on frames.
* `LengthsAreAnswered`: from `Gated`, what the reader's checks have established
  of a frame that reaches `decode`.
* `RoundTrip`, a theorem about `PacketBody` alone: `Deserialize` undoes
  `Serialize` on every well-formed body, up to `Canonical`. It is a case for each
  kind of field; that a `u16` is not truncated and that a skipped field gets the
  default it was skipped for are what it rests on.
* `SealedIsIntact`, `FramesAreDelivered`: from `CodecInv`, which follows one packet
  from the first byte written to the last one read. `Encoding` says that the
  attachments no longer in `todo` are in the buffer (`Laid`: there are offsets at
  which one begins where the one before it ends), `Sealed` that the whole packet
  was sealed, `Opened` that a codec with a key, or one whose frame nobody touched,
  gets exactly that back, and `Reading` that `decode` stands at the offset of the
  part it reads next, with the parts before it read. The offsets are a witness
  carried from step to step, so no induction over the packet is needed. That a
  `u32` is read back as it was written is `HoldsBe`.
  `FramesAreDelivered` adds `Accepted`: none of the checks on the way turns the
  frame down. Its hypothesis is that every `max_frame_bytes` fits the `u32` length
  fields, to which the code casts without a check; `SealedIsIntact` does not need
  it, since `decode` compares the length before it goes on.

`RateLimiterProofs` (any number of connections, acceptors and addresses, any
limits, with or without bans):

* `TypeCorrect`: with the lemmas on `WindowCounter`.
* `ConnBanIsKept`, `BansNotProlonged`: from `BansKnown` (a map holds the ban last
  set or none) and `BanOver`. A frame past the ban check
  belongs to a connection whose ban is over, and stays so because only frames of
  the connection itself, one at a time, set its ban.
* `SweepIsSafe`: from `Sampled` (clock readings lie in the past) and
  `ThresholdCoversPeriod` (the threshold of `cleanup` is at least every period).

`LimiterBoundsProofs` (the same; `ConnsAssumption` makes the connections finite):

* `BurstsAreBounded`: from `BurstInv`. The timestamps let through ascend, and two
  that are `2 * max_messages` apart in the sequence are a period apart. To keep
  that, `Windowed` relates the counter to the sequence: a window may open (all but
  the last `max_messages - 1` frames are a period old), is open (the frames since
  its start are at most those counted), or was forgotten by `cleanup` while a frame
  of it is on its way (one frame more gets through, and the next one comes a
  period later).
* `RacesAreBounded`: from `RaceInv`. While the first period lasts, each connection
  whose insert replaced the counter accounts for one allowance; when it is over,
  each holds at most one frame that was sampled in it. The multiplication by the
  number of connections is not needed for the step: the invariant names the set of
  connections that have inserted and compares cardinalities.

`ServerConnectionProofs` (any number of sockets and requests, any caps):

* `ServerTypeCorrect`, together with `Held`: the reader asks for an in-flight
  permit only with a request of its own connection.
* `PermitsAreConserved`: by the cardinality of the set of sockets being served.
* `InFlightIsConserved`: free permits and live tasks of a connection add up to
  `max_in_flight`. It needs `Held`, since a task spawned for another connection
  would hold a permit of the wrong semaphore.
* `UnauthenticatedNeverServed`: from `PastAuth`, which speaks of every step after
  the auth phase and not only of registered connections.
* `AnsweredOnce`: from `Single`. The property counts; what is inductive is where
  an answer can be (`Unique`: once on its own connection's channel, or with the
  writer, or on the socket) and that it is nowhere before it is sent (`Nowhere`).
* `NothingDropped`: from `Placed` (a connection that is served is in the table) and
  `Closing` (`Close` is queued by the teardown only, and without a fault a writer
  ends after `Close` or is aborted by the teardown), so that a send fails only when
  the teardown has begun.

Every invariant and action property of the passing runs is proved. Only
model-checked are the liveness properties (`CallsReturn`, `EndIsNoticed`,
`FailoverConnects`, `HalfOpenEnds`, `TeardownCompletes`, `NoHandlerHangs`): fairness
is out of the prover's reach. The five counterexamples are TLC's too.

## Not modelled

* Validation (`validation.rs`): stateless predicates on strings and numbers, each
  a comparison or a character class; a model would repeat them word for word.
* Ciphers, key derivation and curve arithmetic: ideal here.
* Public types, builders and error constructors: records. The fields that steer
  behaviour are constants of the models.
* The client's handling of pushed events: it queues one `EventAck`, on whichever
  connection is current when the handlers finish, and the server only logs it. To
  the session it is a message in the queue like the modelled pings and pongs.
* A lifecycle handler of the server that panics before it returns its future
  (`server_runtime.rs:1371`), and an upgrade that never completes
  (`server_runtime.rs:644`): listed as hazards; nothing in the documentation says
  what should happen.
* The demo programs and the facade crate.

Client and server are composed for the set-up and for a single frame, not for
whole sessions: `ClientCalls` alone has a third of a million states, and the product
with a server for each of its connections is beyond a run of minutes. What
`ClientSession` uses of the server is in `ServerAnswer`: a request that arrives
is run once and may be answered under its id. `AnsweredAtMostOnce` is the
server's side of it.
