# TLA+ models of ShakyLine

ShakyLine is a TCP fault-injection proxy (`src/`). This directory holds TLA+
models of its parts, the TLC configurations that check them, and
`PROJECT.json`, which lists the components, runs, mutants, the map from each
definition to the source lines it translates, findings and hazards.

## The system and how its parts interact

| Part | Source | What it does |
|---|---|---|
| ProxyServer | `src/src/ProxyServer.cpp` | accepts clients and hands each socket to SessionManager |
| SessionManager | `src/src/SessionManager.cpp` | admission (soft/hard limit, shedding), the map of live sessions, `shutdownAll` / `forceCloseAll` |
| Session | `src/src/Session.cpp` | one client and its upstream: connect, two pipelines (read, decide, act, buffer, write), half-close, timers, shutdown |
| Buffer | `src/src/Buffer.cpp` | 64 KiB FIFO per direction with 48/16 KiB watermarks, `append` may compact |
| DelayQueue | `src/src/DelayQueue.cpp` | priority queue of delayed packets per direction, 2 MiB drop-head limit |
| Scheduler | `src/src/Scheduler.cpp` | timers over `asio::steady_timer`, `cancel`, `scheduleGuarded` (weak_ptr guard) |
| AnomalyEngine / DeterministicRng | `src/src/AnomalyEngine.cpp`, `DeterministicRng.hpp` | the per-packet decision: drop, half-close, stall, corrupt, delay, throttle |
| ConfigManager | `src/src/Config.cpp` | versioned profiles, the control surface's rate limit |
| ControlServer | `src/src/ControlServer.cpp` | HTTP control surface on its own thread, one connection at a time: profile POST/DELETE, GET /metrics |
| Socket, EventLoop | `src/src/Socket.cpp`, `EventLoop.cpp` | asio wrappers; one io thread runs every handler |
| Logger | `src/src/Logger.cpp` | live queue with DEBUG-then-INFO pruning, black box of recent debug entries |
| MetricsRegistry | `src/src/MetricsRegistry.cpp` | atomic counters and histograms, rendered by the control thread |
| main, test tools | `src/src/main.cpp`, ... | wiring and shutdown; standalone test clients and servers |

A session's handlers run on its strand. The Scheduler's timer callbacks run on
the io thread without the strand. `main` runs one io thread, so every
handler, strand-bound or not, runs to completion before the next starts. This
is why each handler is one atomic step in the models. The manager's requests
are made from other threads, but they only post a handler to the strand.

## Modules

### `Session.tla` (component Session, plus the parts of Scheduler, Buffer, DelayQueue, AnomalyEngine, Socket and SessionManager it uses)

The state is one record `s`:

| Field | Code |
|---|---|
| `open` | `channels_` (`ChannelState`) |
| `rops`, `wops` | pending `async_read_some` / `async_write` per direction; each holds the flag `aborted` that `cancelPending` / `forceReset` set |
| `wip`, `paused` | `xxxWriteInProgress_`, `xxxReadPaused_` |
| `seq` | `clientPktSeq_`, `serverPktSeq_` |
| `buf` | the Buffer's readable units, each labelled with its packet |
| `dq` | each direction's DelayQueue, a value of `DelayQueue.tla`: its packets, with release times relative to now, and `totalBytes_` |
| `timers`, `tid`, `nextId` | the Scheduler's timers (armed, due, or stale), the session's `xxxTimerId_` fields, the next timer id |
| `registered` | whether SessionManager's map holds the session |
| `posted`, `queued` | manager requests made and not yet run |
| `connectOp`, `upstream`, `started` | the pending `async_connect`, `upstreamState_`, whether `start` ran |
| `passed`, `delivered`, `fin`, `stalled` | history: units the engine let through, units written, the FIN the write completion propagated, whether the current pause came from a Stall decision |

There is one action per handler:

| Action | Handler |
|---|---|
| `Start` | `start` |
| `ConnectCompletes` | `onConnectComplete` |
| `ReadCompletes(d)` | `onClientRead` / `onServerRead`: the data path runs `processData`, then pauses or re-reads; EOF; error |
| `WriteCompletes(d)` | `onClientWrite` / `onServerWrite` |
| `Expire` | an `asio` timer reaching its deadline |
| `Fire` | the queued timer handler: `onConnectTimeout`, `onIdleTimeout`, `onDelayExpired`, behind `scheduleGuarded`'s weak_ptr |
| `Tick` | time passing |
| `MgrPost(r)`, `MgrRun(r)` | SessionManager posting `initiateShutdown` or `forceClose`, and the posted handler running |

Each action is a composition of operators, one per helper of the class:
`StartRead`, `StartWrite`, `CloseSide`, `CheckFullyClosed`, `InitiateShutdown`,
`ForceClose`, `ScheduleDelayFlush`, `FlushDir`, `ProcessData`, `OnWriteOk`,
`Schedule` and `Cancel`. This keeps the order and every side effect of the
code.

Data is abstracted to buffer units: 64 KiB, 48 KiB and 16 KiB become
`Cap`/`High`/`Low`. A packet's decision is `AnomalyEngine.tla`'s `Decide`,
instanced with three hash values per class (`Res = HashRange = 3`). Each
rate is a class: zero, some (1/3) or one. `DecisionTable` collects, per
direction, the outcomes `Decide` gives over every roll. The Session profile has
throttle 0 and corrupt 0: Corrupt and Throttle change nothing Session counts,
so `Outcome` treats them as a Pass.
`Cancel` models `Scheduler::cancel`:

- A waiting timer is aborted.
- A timer that has expired but whose handler is still queued is erased, yet
  its callback still runs ("stale").

Equal release times pop in any order, because `std::priority_queue` is not
stable.

### `DelayQueue.tla` (component DelayQueue)

A module of operators on one queue value `[pkts, total]`: the heap's packets
and `totalBytes_`. Session.tla instances it as `DQ` with `MaxBytes <- DqMax`
and applies it inside its handlers, so a push or a pop is part of the
handler's step, not a step of its own.

| Operator | Code |
|---|---|
| `Push(q, p, o)` | `push`: `MakeRoom` is the `while (totalBytes_ + size > MAX_BYTES && !empty) dropOldest()` loop, then an oversized payload is refused, else pushed and counted |
| `DropOldest` | `dropOldest`: pop the top (soonest release), subtract its bytes |
| `PopReady(q, o)` | the `popReady(now)` loop of `flushDelayQueues` |
| `NextReleaseTime` | `nextReleaseTime`, read by `scheduleDelayFlush` |
| `HeapOrders`, `ReadyOrders` | the order pops return packets in: by release time, ties in any order |
| `Aged` | time passing, with release times kept relative to now |

The heap's order is a parameter `o`. `processData` enumerates one order of
the queue for the drop loop, and `onDelayExpired` one order of the due
packets. `push`'s result is ignored at `Session.cpp:245`, as in the model.

### `AnomalyEngine.tla` (components AnomalyEngine and DeterministicRng)

A module of operators. `Decide(p, size, h)` is `AnomalyEngine::decide`, a
pure function of the profile `p`, the payload size and `h`, the seven hash
values of the packet (one per decision class, `hash(packetSeq*7 + k)`).

| Operator | Code |
|---|---|
| `Uniform(h)`, `UniformInt(h, max)` | `DeterministicRng::uniform` (top 24 bits over 2^24) and `uniformInt` (`h % max`) |
| `Hit(h, k, rate)` | a fault check: a rate of 0 is skipped, else `uniform(k) < rate` |
| `CorruptStep`, `BaseLatency`, `Promote` | step 4 (offset and mask), step 5's jitter `max(0, latency + j - jitter)`, and "only a Forward is promoted" |
| `Decide` | the whole of `decide`, early returns included |
| `ApplyCorruption`, `Corrupted` | `applyCorruption` (XOR of the byte at the offset, if inside the data) and processData's `Corrupt` case, which applies it in place |

A rate is the numerator `r * Res`, so the float comparison is the integer
one. The hash values are free, and the seven of a packet are assumed
independent: splitmix64 itself is not modelled. `SpecDecide` is spec
section 4.2's evaluation order written as a table. `DecideMatchesSpec` checks
the two against each other for every knob in `0..1`, every rate in
{0, 1/3, 1}, empty or non-empty data and every one of the 3^7 rolls. Its
second conjunct compares the payload processData hands on with
`SpecPayload`, the spec's "XOR the byte at `uniformInt(k=5, |data|)` with
`uniformInt(k=6, 256)`". It covers every payload of up to two bytes of 0 or 1,
under drop and corrupt rates that miss or hit. Session.tla does not carry
bytes, so the XOR is checked only here. Session checks the whole property as
`EngineMatchesSpec`, in the session_safety run.

### `Buffer.tla` and `BoundedFifo.tla` (component Buffer)

`BoundedFifo.tla` is what `Buffer.hpp` promises its callers. It is a FIFO of
at most `Cap` bytes: `append` accepts `min(len, free)`, and `consume` removes
bytes from the front. Each byte is named by its index in the accepted
stream.

`Buffer.tla` has these variables:

- the real members: the byte array `data`, `readPos`, `writePos` and `size`
- the direction's `paused` flag
- the one in-flight `async_write`, `wr`: the region `dataToSend()` returned,
  and how much of it the kernel has sent so far
- the bytes on the `wire`

It has these actions:

- `ReadAppend`: a forwarded read appends, starts a write, then pauses at
  HIGH.
- `FlushAppend`: a delay flush appends with no watermark check.
- `SendByte`: the kernel copies one byte.
- `WriteDone`: the write completion consumes, resumes at LOW and sends the
  rest.

`Buffer.tla` shows it refines `BoundedFifo` through
`Fifo == INSTANCE BoundedFifo WITH q <- Content`, where `Content` is the
`size` bytes from `readPos`.

### `Scheduler.tla` and `TimerService.tla` (component Scheduler)

`TimerService.tla` is the timer the spec describes. Once `cancel` returns
true, the timer never fires; double cancel returns true, then false.

`Scheduler.tla` is `Scheduler.cpp`:

- the `timers_` map
- each `steady_timer`'s wait: pending, handler queued with success, handler
  queued with `operation_aborted`, or run
- `nextId_`
- the results of cancels

Its actions are `Schedule`, `Expire`, `Cancel` and `RunHandler`. The
abstract state of a timer is computed from what the client has seen: whether
its callback ran, and whether a cancel returned true.

### `SessionManager.tla` (components SessionManager and ProxyServer's accept loop, with main's shutdown)

The state:

| Variable | Code |
|---|---|
| `sessions`, `nextSid` | `sessions_`, `nextSessionId_` |
| `posted` | `forceClose` / `initiateShutdown` handlers posted to sessions' strands and not yet run |
| `phase` | main's shutdown sequence: serving, after `proxyServer.stop()`, after `shutdownAll`, after `forceCloseAll`, after `eventLoop.stop()`; `running` (`running_`) is phase = serving |
| `accepting`, `admitting` | an `async_accept` outstanding; `onAccept` past its `running_` check but before `createSession` |
| `arrivals`, `last` | connections accepted; the last `tryAdmit`'s shed and verdict |

`TryAdmit(count)` is the set of outcomes `tryAdmit` can produce:

- Below the soft limit it admits.
- At the hard limit it posts `forceClose` to some session, or to none when no
  `idleTime` is above zero, then compares the unchanged count.
- Between the two it admits or rejects. The float roll can be 1.0, so
  rejection is possible even where the probability is 1.

`onAccept` is split in two at its `running_` check, because `stop` runs on the
main thread. The sessions themselves are Session.tla's concern: here they end
by themselves at any time (`SessionEnds`).

### `ConfigManager.tla` (component ConfigManager, with ControlServer's mutating requests)

| Variable | Code |
|---|---|
| `store` | `profiles_`: each name's stored version, 0 when absent (what `getProfile` returns then) |
| `nextVersion`, `lastUpdate`, `updateCount` | `nextVersion_`, `lastUpdate_`, `updateCount_` |
| `now` | `steady_clock::now()` in ticks of `TickMs` |
| `passed`, `snaps` | history: each request past the limiter with its window and status; the versions sessions took in `start` |

`Mutation(method, path, parses)` is `handleRequest` for a POST or DELETE:

1. `CheckRateLimit` runs first, with `duration_cast` truncating to seconds.
2. It answers 429, or routes to 404 unless the path is `/profiles/{name}`.
3. Otherwise it runs `HandlePostProfile` (400 when `stoul`/`stof` throws) or
   `HandleDeleteProfile`.

A profile's knobs are abstracted away: `validate` only clamps them and no
property reads them. `SessionSnapshot` is `Session::start`'s
`getProfile("default")`.

### `Histogram.tla` (component MetricsRegistry)

`observe` is three kinds of atomic step on the io thread: `sum_`, `count_`, then
one bucket per step. `renderPrometheus` is one load per step on the control
thread: the buckets, `count_` for +Inf, `sum_`, `count_`. `shown` is the last
completed render. The plain counters are single atomics and are left out.

### `ControlPlane.tla` (ControlServer's thread against the io thread)

Composes `ConfigManager` and `Histogram` by `INSTANCE`. The control thread
serves one connection to the end before the next (`doAccept`,
`handleConnection`), so a mutation happens only between renders. The io thread
meanwhile snapshots the default profile and observes. `MCControlPlane.tla`
gives the names and bucket bounds.

### `Logger.tla` (component Logger)

`live`, `box` are `liveQueue_` and `blackBox_`; `written` is what `writeEntry`
sent; `logged` is every call. `Log(level)` is the whole of `Logger::log`: the
black-box push for DEBUG, `PruneQueue` when the queue is full (`EraseFirst`,
a recursive pass per level, DEBUG then INFO), then push and write only if
there is room. An entry is its call number and level.

### `MCSession.tla`

Defines the profiles the configurations use: latency per direction, jitter and
rate classes.

## Runs

| Run | Config | Result | What it shows |
|---|---|---|---|
| session_safety | `MCSession_pass.cfg` | pass | With every fault decision, peer errors, the timer cancel race, and both of the manager's posts, `initiateShutdown` and `forceClose`, at any point of the session: `SingleOutstandingIO`, `NoStrandedBytes`, `DeregisteredWhenClosed`, `BackpressureHasWriter`; `LatenessBounded`: a packet waiting behind the one delay timer is late by less than the longest delay; `DelayTimerCoversQueues`: while the session lives, a non-empty DelayQueue always has the delay timer `delayTimerId_` names; and `EngineMatchesSpec`, `decide` against the spec's table |
| session_liveness | `MCSession_liveness.cfg` | pass | `DelayedEventuallyFlushed`: every delayed packet leaves its queue while the session lives; `DelayQueueAccounting`: with `MAX_BYTES` scaled to 3 units, a second delayed read of 2 drops the soonest release, and `totalBytes_` stays the sum of the queued payloads and within the bound |
| buffer_fifo | `Buffer_pass.cfg` | pass | `BufferIsFifo`: positions and compaction implement the bounded FIFO, with sends and consumes in between |
| buffer_compaction_race | `Buffer_compaction_race.cfg` | violation | `WireInOrder`: an append that compacts while a write is in flight moves the bytes under it; the peer gets byte 3 where byte 2 belongs |
| scheduler_idempotent | `Scheduler_pass.cfg` | pass | `CancelTrueAtMostOnce`, `EveryTimerErased` |
| scheduler_cancel_race | `Scheduler_cancel_race.cfg` | violation | `ImplementsTimerService`: a timer that expired, then was cancelled (true), still runs its callback |
| fin_before_drain | `MCSession_fin_before_drain.cfg` | violation | `FinAfterDrain`: FIN is propagated while a delayed packet is still queued |
| append_truncation | `MCSession_append_truncation.cfg` | violation | `NoSilentLoss`: `Buffer::append` truncates and the caller drops the rest |
| session_leak | `MCSession_session_leak.cfg` | violation | `SessionEventuallyRemoved`: both FINs after the Buffer drained leave the session registered forever |
| manager_admission | `SessionManager_pass.cfg` | pass | `CountBounded`: arrivals, queued sheds, ending sessions and shutdown never put more than MAX_SESSIONS in the map |
| control_plane | `MCControlPlane_pass.cfg` | pass, 0.9M states | `WindowQuota`: no rate window admits more than the limit; `RenderedWithinCount`: a scrape racing an observe never prints a bucket above +Inf or +Inf above `_count` |
| logger_ring | `Logger_pass.cfg` | pass | `BlackBoxIsLatest`: the black box is exactly the latest debug entries; `PruneKeepsSevere`: pruning drops DEBUG before INFO and never WARN or ERROR |

The findings in `PROJECT.json` give the lines and what the spec says instead.
More divergences are recorded as hazards in `PROJECT.json`, without a run of
their own (the project keeps twelve runs):

- At the hard limit `tryAdmit` sheds an idle session and then rejects the
  newcomer anyway, because the posted `forceClose` has not run
  (`SessionManager.cpp:150`). TLC showed it from MAX_SESSIONS sessions and one
  arrival.
- The Logger's live queue is never drained. Once it holds LIVE_QUEUE_MAX
  WARN/ERROR entries, no later entry is written (`Logger.cpp:43`). TLC showed
  it in four calls with LIVE_QUEUE_MAX = 3.
- The rate limit counts every POST/DELETE, 400 and 404 included; the spec
  counts successful mutations (`ControlServer.cpp:122`).
- A render between two bucket increments of one observe prints non-cumulative
  buckets (`MetricsRegistry.cpp:19`). The spec allows best-effort snapshots.
- A write completion that drains the Buffer resumes a read paused by a Stall
  (`Session.cpp:449`), and the stall timer is never armed.
- `onAccept` returns on any accept error without `doAccept`, so the server
  stops accepting (`ProxyServer.cpp:78`).
- `eventLoop.stop()` right after `forceCloseAll` drops the posted `forceClose`
  handlers (`main.cpp:153`).
- A connection whose `onAccept` passed its `running_` check before
  `proxyServer.stop()` is inserted afterwards (`ProxyServer.cpp:81`). If
  `createSession` ran after `forceCloseAll`, no `forceClose` would reach that
  session; only the 2 s sleep in main prevents it, and the model has no clock.

Each property of a passing run has a mutant (an operator defined just before
the definition it replaces). The mutant makes the bug a reviewer would expect
there, such as a dropped `writeInProgress` guard, a missing re-arm, `>`
for `>=` in the rate check, or +Inf printed from the last bucket, and TLC
finds the property violated.

### Bounds

- **Scale.** `Cap`/`High`/`Low` = 4/3/1, so one 32 KiB read is 2 units. Two
  reads of 2 reach `High` and fill the Buffer, so backpressure, a full Buffer
  and the resume at `Low` all happen. The truncation run uses 8/6/2 with
  reads of 1 or 4. At 4/3/1, every append of the runs fits.
- **DelayQueue.** `DqMax` = 3 in the liveness run: two delayed reads of 2
  units overflow it, so the drop-head loop runs, with the queued packet tied
  with the new one or due sooner. The other Session runs use 8, where two
  reads never overflow. The safety run needs two delayed packets of 2 in the
  queue together, to flush a full Buffer at once.
- **Reads.** The safety and liveness runs read 2 units (one full 32 KiB
  read) at a time. Reads of 1 add no control path the Buffer run does not
  already cover, and they multiply the safety run's states by eight.
  `MaxReads` = 2 per direction, enough for one packet forwarded
  and one delayed (FIN ordering) or two packets in flight (backpressure).
- **Timing.** Latency 1 on one direction and 0 on the other gives both the
  immediate path and the delayed path. In the safety run that direction also
  has jitter 1, so its delays are 0, 1 and 2. A packet delayed 1 read after
  one delayed 2 is due before the armed timer: it waits one tick past its
  release. With `LatenessBounded` tightened to "never late", TLC finds that
  trace, so the bound is reached and not vacuous.
  `Tick` advances the clock only when no armed timer is due, so handlers
  take no time. The bound is relative to that idealisation: in the process a
  slow handler delays every timer behind it. `ConnectTimeout` = 1 and
  `IdleTimeout` = 2 let the connect timeout race the connect completion, and
  let the idle timeout race activity, including cancels of expired timers.
- **Buffer.** The module uses `Cap` 4 with chunks of 1 or 2 and 5 appends.
  That is enough for a write in flight from `readPos` > 0 while an append
  wraps: the smallest compaction under a write.
- **Scheduler.** The module uses 3 timers, each cancelled up to twice. That
  covers a timer cancelled before, between and after expiry and handler,
  which is the connect, idle and reset use in Session.
- **SessionManager.** `MAX_SESSIONS` = 3 with the code's 90% gives a soft
  limit of 2. Five connections reach every admission branch: below soft, the
  band, and the hard limit with and without a session to shed. They also reach
  the hard limit again while a shed is still queued.
- **ControlPlane.** Two names (one the default) and a path to no profile.
  A limit of 2 with half-second ticks over one second: a window fills, refuses
  the third request, and reopens. Four requests let a POST follow a DELETE of
  another name. Two bucket bounds with values 1 (in both) and 3 (in +Inf
  only) let one observe land between two bucket loads of a render. Renders
  are unbounded.
- **Logger.** `LIVE_QUEUE_MAX` 3, `BLACK_BOX_SIZE` 2 and six calls of any
  level: the queue fills, prunes DEBUG, then INFO, and finds nothing to
  prune; the ring wraps.
- **Liveness run.** Its space is narrowed to all-Pass decisions, reads of 2
  and one delayed direction, because liveness checking of the full space does
  not finish in minutes.

### Fairness

Only the Session runs check liveness. In Session.tla `FairSpec` makes every
handler the io thread can run weakly fair:

- posted handlers (`Start`, `MgrRun`)
- completions (`ConnectCompletes`, `ReadCompletes`, `WriteCompletes`)
- the timer steps `Expire`, `Fire` and `Tick`

asio runs every ready handler eventually and the OS completes pending socket
operations. The manager's posts (`MgrPost`) and the peers' behaviour are not
fair: nothing forces a shutdown or a peer to send. Deadlock checking is off,
because a finished session legitimately stops.

## Not modelled, and the plan

`AbortPending` turns every pending socket operation into an aborted one. In
asio a completion already queued before `cancelPending` or `forceReset`
keeps its result, so data arriving just after a cancel is not explored. No
property depends on it: every handler still runs once and sees the closed
sides.

Done: `Scheduler.tla`, `Buffer.tla`, `SessionManager.tla`, `Logger.tla`,
`ConfigManager.tla`, `Histogram.tla`, `ControlPlane.tla`, `DelayQueue.tla` and
`AnomalyEngine.tla`,
described above.

1. **Session timer properties.** A Session property that a connected session
   is never force-closed by its connect timeout; it follows from the
   Scheduler race.
2. **Multi-threaded loop.** Timer callbacks racing strand handlers. The spec
   says correctness does not depend on the thread count.
3. **DelayQueue tie order.** The spec says ties pop in insertion order; the
   heap does not keep it. Exact ties need two equal `steady_clock` readings,
   and the model merges release times within a tick, so no property states
   the spec's order. `clear()` and `hasReady()` are never called.
4. **Throttle and corrupt in Session.** Session profiles with a throttle or
   corrupt rate. processData does not act on the throttle, and corruption
   changes only bytes, which Session.tla does not carry.
5. **SessionManager with Session.** Compose SessionManager.tla with
   Session.tla instances, so that a session's end is its own close path, not a
   free choice.

Not modelled:

- **splitmix64.** `DeterministicRng::hash` multiplies and shifts 64-bit
  words. TLC's integers are 32-bit, and a 64-bit product by bits is far
  beyond its reach. The models take every hash value in a small range
  instead; `uniform` and `uniformInt` on it are modelled.
- **Text processing.** ControlServer's HTTP/JSON parsing and formatting, the
  Logger's formatting and output, and main's argument parsing.
- **Other parts.** MetricsRegistry's plain counters, which are single atomics,
  and the standalone test tools.
