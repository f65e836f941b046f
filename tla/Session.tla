------------------------------- MODULE Session -------------------------------
(***************************************************************************)
(* One proxied connection: src/src/Session.cpp.                            *)
(*                                                                         *)
(* Every handler of the Session runs on its strand (timer callbacks run    *)
(* on the single io thread), so each handler is one atomic step here.  A   *)
(* handler is written as a composition of state transformers, one per     *)
(* helper of the C++ class (StartRead, StartWrite, CloseSide, ...), so a   *)
(* step does everything the handler does, in the order the code does it.  *)
(*                                                                         *)
(* The whole session state is the record s.  Data is abstracted to units  *)
(* of buffer space (a unit stands for Buffer::DEFAULT_CAPACITY / Cap       *)
(* bytes); each unit in a Buffer is labelled with the packet sequence      *)
(* number it came from.  Time is discrete: Tick advances one unit, and    *)
(* timer deadlines and packet release times are kept relative to now.     *)
(* The AnomalyEngine is abstracted to the set of decisions a profile can  *)
(* produce (AnomalyEngine.tla models decide() itself).                    *)
(***************************************************************************)
EXTENDS Integers, Sequences, FiniteSets, SequencesExt, FiniteSetsExt

CONSTANTS
  Cap,            \* Buffer capacity in units (64 KiB)
  High,           \* Buffer::HIGH_WATERMARK in units (48 KiB)
  Low,            \* Buffer::LOW_WATERMARK in units (16 KiB)
  ReadSizes,      \* possible bytesRead of one async_read_some, in units
  MaxReads,       \* bound on successful reads per direction (packetSeq)
  Latency,        \* [Dirs -> Nat] latencyMs of the session's profile, in ticks
  Jitter,         \* [Dirs -> Nat] jitterMs of the profile, in ticks
  Rates,          \* [Dirs -> [Faults -> RateClass]] drop/halfClose/stall rates
  ConnectTimeout, \* ServerConfig::connectTimeout, in ticks
  IdleTimeout,    \* ServerConfig::idleTimeout, in ticks
  PeerErrors,     \* whether I/O may complete with an error other than EOF
  MgrRequests,    \* which of the manager's posts to the session may happen
  DqMax           \* DelayQueue::MAX_BYTES (2 MiB), in units

Dirs   == {"c2s", "s2c"}
Sides  == {"clientRead", "clientWrite", "serverRead", "serverWrite"}
Kinds  == {"connect", "idle", "delay"}
Faults == {"drop", "halfClose", "stall"}
RateClass == {"zero", "some", "one"}         \* rate = 0, 0 < rate < 1, rate = 1

ASSUME /\ Low < High /\ High <= Cap
       /\ ReadSizes \subseteq 1..Cap /\ ReadSizes # {}
       /\ MaxReads \in Nat /\ ConnectTimeout \in Nat /\ IdleTimeout \in Nat \ {0}
       /\ Latency \in [Dirs -> Nat] /\ Jitter \in [Dirs -> Nat]
       /\ Rates \in [Dirs -> [Faults -> RateClass]]
       /\ PeerErrors \in BOOLEAN
       /\ MgrRequests \subseteq {"shutdown", "force"}
       /\ DqMax \in Nat

\* Each direction's DelayQueue (DelayQueue.tla).
DQ == INSTANCE DelayQueue WITH MaxBytes <- DqMax

\* The read side of the socket a direction reads from, and the write side
\* of the socket it writes to (client->server reads the client, writes the
\* server).
R(d) == IF d = "c2s" THEN "clientRead" ELSE "serverRead"
W(d) == IF d = "c2s" THEN "serverWrite" ELSE "clientWrite"

(***************************************************************************)
(* The decisions of AnomalyEngine::decide (AnomalyEngine.tla), for every  *)
(* combination of the packet's seven rolls.  A roll has three outcomes,   *)
(* enough for a rate strictly between 0 and 1 (1/3 here) to hit or miss   *)
(* and for every jitter offset while Jitter <= 1.  The session's profile  *)
(* has no corrupt rate and no throttle: processData treats Corrupt,       *)
(* Delay, Throttle and Forward alike, by delayMs alone, so they are one   *)
(* outcome here, a Pass.                                                  *)
(***************************************************************************)
AE == INSTANCE AnomalyEngine WITH Res <- 3, HashRange <- 3, KnobMax <- 1

ASSUME \A d \in Dirs : 2 * Jitter[d] + 1 <= 3

\* A rate class as a numerator over AE's Res.
RateNum(c) == CASE c = "zero" -> 0 [] c = "some" -> 1 [] c = "one" -> 3

\* The direction's DirectionalProfile (getDirectionalProfile).
ProfileOf(d) ==
  [latency |-> Latency[d], jitter |-> Jitter[d], throttle |-> 0,
   drop |-> RateNum(Rates[d]["drop"]), halfClose |-> RateNum(Rates[d]["halfClose"]),
   stall |-> RateNum(Rates[d]["stall"]), corrupt |-> 0]

\* What processData's switch does with a decision: drop, half-close and
\* stall return; every other action continues to the delay test.
Outcome(dec) ==
  IF dec.action \in {"Drop", "HalfClose", "Stall"} THEN [act |-> dec.action, delay |-> 0]
  ELSE [act |-> "Pass", delay |-> dec.delayMs]

DecisionTable ==
  [d \in Dirs |-> {Outcome(AE!Decide(ProfileOf(d), 1, h)) : h \in AE!Rolls}]

Decisions(d) == DecisionTable[d]

VARIABLE s

vars == <<s>>

Timer  == [id : Nat, kind : Kinds, left : Nat, st : {"armed", "due", "stale"}]
Packet == [seq : 1..MaxReads, len : ReadSizes, rel : Int]
WriteOp == [len : 1..Cap, aborted : BOOLEAN]

TypeOK ==
  s \in [started : BOOLEAN,
         upstream : {"Connecting", "Connected", "Failed"},
         connectOp : {"none", "pending", "aborted"},
         open : [Sides -> BOOLEAN],
         rops : [Dirs -> Seq(BOOLEAN)],
         wops : [Dirs -> Seq(WriteOp)],
         wip : [Dirs -> BOOLEAN],
         paused : [Dirs -> BOOLEAN],
         stalled : [Dirs -> BOOLEAN],
         seq : [Dirs -> 0..MaxReads],
         buf : [Dirs -> Seq(1..MaxReads)],
         dq : [Dirs -> [pkts : SUBSET Packet, total : Nat]],
         timers : SUBSET Timer,
         tid : [Kinds -> Nat],
         nextId : Nat \ {0},
         registered : BOOLEAN,
         posted : SUBSET {"shutdown", "force"},
         queued : SUBSET {"shutdown", "force"},
         passed : [Dirs -> Nat],
         delivered : [Dirs -> Nat],
         fin : [Dirs -> BOOLEAN]]

(***************************************************************************)
(* The session object lives while the manager's map holds it, a posted    *)
(* handler (start, or a manager request) holds it, or a pending completion *)
(* handler holds shared_from_this().  Timer                                *)
(* callbacks hold only a weak_ptr: once the session is gone they do       *)
(* nothing.                                                                *)
(***************************************************************************)
Alive(x) ==
  \/ x.registered
  \/ ~x.started
  \/ x.connectOp # "none"
  \/ x.queued # {}
  \/ \E d \in Dirs : x.rops[d] # <<>> \/ x.wops[d] # <<>>

-----------------------------------------------------------------------------
(* Scheduler (Scheduler.cpp), as used through scheduleGuarded.             *)

\* schedule(): a new timer with a fresh id; every call site stores the id
\* in the session's field for that kind (connectTimerId_, idleTimerId_,
\* delayTimerId_).
Schedule(x, kind, delay) ==
  [x EXCEPT !.timers = @ \cup {[id |-> x.nextId, kind |-> kind,
                                left |-> delay, st |-> "armed"]},
            !.nextId = @ + 1,
            !.tid[kind] = x.nextId]

\* cancel(): a waiting timer is aborted (its handler does nothing); a timer
\* that has already expired, whose handler is queued, is erased from the
\* map but its handler still runs the callback ("stale").
Cancel(x, id) ==
  LET t == {u \in x.timers : u.id = id /\ u.st # "stale"}
  IN  IF id = 0 \/ t = {} THEN x
      ELSE LET u == CHOOSE u \in t : TRUE
           IN  IF u.st = "armed"
               THEN [x EXCEPT !.timers = @ \ {u}]
               ELSE [x EXCEPT !.timers = (@ \ {u}) \cup {[u EXCEPT !.st = "stale"]}]

-----------------------------------------------------------------------------
(* Helpers of Session.cpp, each a transformer of the session state.        *)

\* Mutant: the session never removes itself from the manager's map.
CheckFullyClosedNoDeregister(x) == x

CheckFullyClosed(x) ==
  IF \A sd \in Sides : ~x.open[sd] THEN [x EXCEPT !.registered = FALSE] ELSE x

\* closeClientRead / closeClientWrite / closeServerRead / closeServerWrite
CloseSide(x, sd) ==
  IF ~x.open[sd] THEN x ELSE CheckFullyClosed([x EXCEPT !.open[sd] = FALSE])

ResetIdleTimer(x) == Schedule(Cancel(x, x.tid.idle), "idle", IdleTimeout)

RecordActivity(x) == ResetIdleTimer(x)

StartRead(x, d) ==
  IF ~x.open[R(d)] \/ x.paused[d] THEN x
  ELSE [x EXCEPT !.rops[d] = Append(@, FALSE)]

\* Mutant: startXxxWrite without the writeInProgress guard.
StartWriteNoWipGuard(x, d) ==
  IF ~x.open[W(d)] \/ x.buf[d] = <<>> THEN x
  ELSE [x EXCEPT !.wip[d] = TRUE,
                 !.wops[d] = Append(@, [len |-> Len(x.buf[d]), aborted |-> FALSE])]

\* Mutant: dataToSend hands the write one unit more than is readable.
StartWriteOverrun(x, d) ==
  IF ~x.open[W(d)] \/ x.wip[d] \/ x.buf[d] = <<>> THEN x
  ELSE [x EXCEPT !.wip[d] = TRUE,
                 !.wops[d] = Append(@, [len |-> Len(x.buf[d]) + 1, aborted |-> FALSE])]

StartWrite(x, d) ==
  IF ~x.open[W(d)] \/ x.wip[d] \/ x.buf[d] = <<>> THEN x
  ELSE [x EXCEPT !.wip[d] = TRUE,
                 !.wops[d] = Append(@, [len |-> Len(x.buf[d]), aborted |-> FALSE])]

\* Buffer::append: accepts min(len, capacity - size) (compaction makes all
\* free space usable); the caller ignores the returned count.
BufAppend(x, d, p, n) ==
  LET k == Min({n, Cap - Len(x.buf[d])})
  IN  [x EXCEPT !.buf[d] = @ \o [i \in 1..k |-> p]]

\* Socket::cancelPending / forceReset: pending operations complete with
\* operation_aborted.
AbortPending(x) ==
  [x EXCEPT !.rops = [d \in Dirs |-> [i \in DOMAIN @[d] |-> TRUE]],
            !.wops = [d \in Dirs |-> [i \in DOMAIN @[d] |-> [@[d][i] EXCEPT !.aborted = TRUE]]],
            !.connectOp = IF @ = "pending" THEN "aborted" ELSE @]

InitiateShutdown(x) ==
  CheckFullyClosed(AbortPending([x EXCEPT !.open["clientRead"] = FALSE,
                                          !.open["serverRead"] = FALSE]))

ForceClose(x) ==
  [AbortPending(x) EXCEPT !.open = [sd \in Sides |-> FALSE], !.registered = FALSE]

\* scheduleDelayFlush: one timer for both queues, at the earliest release.
\* Mutant: scheduleDelayFlush looks only at the client-to-server queue.
ScheduleDelayFlushC2SOnly(x) ==
  IF x.dq["c2s"].pkts = {} THEN x
  ELSE Schedule(x, "delay", Max({0, DQ!NextReleaseTime(x.dq["c2s"])}))

\* Mutant: the delay to the earliest release is rounded up by one tick.
ScheduleDelayFlushRoundUp(x) ==
  LET ne == {d \in Dirs : x.dq[d].pkts # {}}
  IN  IF ne = {} THEN x
      ELSE Schedule(x, "delay", Max({0, Min({DQ!NextReleaseTime(x.dq[d]) : d \in ne})}) + 1)

ScheduleDelayFlush(x) ==
  LET ne == {d \in Dirs : x.dq[d].pkts # {}}
  IN  IF ne = {} THEN x
      ELSE Schedule(x, "delay", Max({0, Min({DQ!NextReleaseTime(x.dq[d]) : d \in ne})}))

\* flushDelayQueues, one direction: pop every ready packet (in the heap's
\* order o, one of DQ!ReadyOrders) into the Buffer, then start a write if there is data and none is in progress.
\* Mutant: flushDelayQueues moves the packets but starts no write.
FlushDirNoWrite(x, d, o) ==
  FoldLeft(LAMBDA acc, p : BufAppend(acc, d, p.seq, p.len),
           [x EXCEPT !.dq[d] = DQ!PopReady(@, o)], o)

FlushDir(x, d, o) ==
  LET y == FoldLeft(LAMBDA acc, p : BufAppend(acc, d, p.seq, p.len),
                    [x EXCEPT !.dq[d] = DQ!PopReady(@, o)], o)
  IN  IF Len(y.buf[d]) > 0 /\ ~y.wip[d] THEN StartWrite(y, d) ELSE y

\* Mutant: processData pushes a delayed packet but never arms the timer.
ProcessDataNoArm(x, d, n, dec, o) ==
  CASE dec.act = "Drop"      -> x
    [] dec.act = "HalfClose" -> CloseSide(x, W(d))
    [] dec.act = "Stall"     -> [x EXCEPT !.paused[d] = TRUE, !.stalled[d] = TRUE]
    [] dec.act = "Pass"      ->
         LET y == [x EXCEPT !.passed[d] = @ + n]
         IN  IF dec.delay > 0
             THEN [y EXCEPT !.dq[d] = DQ!Push(@, [seq |-> x.seq[d], len |-> n,
                                                  rel |-> dec.delay], o)]
             ELSE StartWrite(BufAppend(y, d, x.seq[d], n), d)

\* processClientData / processServerData for the packet just read (its
\* sequence number is x.seq[d]) of n units, with the engine's decision dec;
\* o is the order in which the DelayQueue would drop its packets.  push's
\* result is not looked at.
ProcessData(x, d, n, dec, o) ==
  CASE dec.act = "Drop"      -> x
    [] dec.act = "HalfClose" -> CloseSide(x, W(d))
    [] dec.act = "Stall"     -> [x EXCEPT !.paused[d] = TRUE, !.stalled[d] = TRUE]
    [] dec.act = "Pass"      ->
         LET y == [x EXCEPT !.passed[d] = @ + n]
         IN  IF dec.delay > 0
             THEN LET z == [y EXCEPT !.dq[d] = DQ!Push(@, [seq |-> x.seq[d], len |-> n,
                                                             rel |-> dec.delay], o)]
                  IN  IF z.tid.delay = 0 THEN ScheduleDelayFlush(z) ELSE z
             ELSE StartWrite(BufAppend(y, d, x.seq[d], n), d)

\* onClientRead / onServerRead, successful read of n units.
OnReadData(x, d, n, dec, o) ==
  LET y == ProcessData([RecordActivity(x) EXCEPT !.seq[d] = @ + 1], d, n, dec, o)
  IN  IF Len(y.buf[d]) >= High THEN [y EXCEPT !.paused[d] = TRUE]
                               ELSE StartRead(y, d)

\* onClientWrite / onServerWrite, successful write of n units.
\* Mutant: the write completion never resumes a paused read.
OnWriteOkNoResume(x, d, n) ==
  LET b == [RecordActivity(x) EXCEPT !.buf[d] = SubSeq(@, n + 1, Len(@)),
                                     !.delivered[d] = @ + n]
  IN  IF Len(b.buf[d]) > 0 THEN StartWrite(b, d)
      ELSE IF ~b.open[R(d)] /\ b.open[W(d)]
           THEN CloseSide([b EXCEPT !.fin[d] = TRUE], W(d))
           ELSE b

OnWriteOk(x, d, n) ==
  LET a == RecordActivity(x)
      b == [a EXCEPT !.buf[d] = SubSeq(@, n + 1, Len(@)), !.delivered[d] = @ + n]
      c == IF b.paused[d] /\ Len(b.buf[d]) <= Low
           THEN StartRead([b EXCEPT !.paused[d] = FALSE, !.stalled[d] = FALSE], d)
           ELSE b
  IN  IF Len(c.buf[d]) > 0 THEN StartWrite(c, d)
      ELSE IF ~c.open[R(d)] /\ c.open[W(d)]
           THEN CloseSide([c EXCEPT !.fin[d] = TRUE], W(d))
           ELSE c

-----------------------------------------------------------------------------
(* Actions: one per handler.                                               *)

Init ==
  s = [started |-> FALSE, upstream |-> "Connecting", connectOp |-> "none",
       open |-> [sd \in Sides |-> TRUE],
       rops |-> [d \in Dirs |-> <<>>], wops |-> [d \in Dirs |-> <<>>],
       wip |-> [d \in Dirs |-> FALSE], paused |-> [d \in Dirs |-> FALSE],
       stalled |-> [d \in Dirs |-> FALSE],
       seq |-> [d \in Dirs |-> 0], buf |-> [d \in Dirs |-> <<>>],
       dq |-> [d \in Dirs |-> DQ!NewQueue], timers |-> {}, tid |-> [k \in Kinds |-> 0],
       nextId |-> 1, registered |-> TRUE, posted |-> {}, queued |-> {},
       passed |-> [d \in Dirs |-> 0], delivered |-> [d \in Dirs |-> 0],
       fin |-> [d \in Dirs |-> FALSE]]

\* start(), posted by SessionManager::createSession.
Start ==
  /\ ~s.started
  /\ s' = [Schedule(s, "connect", ConnectTimeout) EXCEPT
             !.started = TRUE, !.upstream = "Connecting", !.connectOp = "pending"]

\* onConnectComplete(ec).
ConnectCompletes ==
  /\ s.connectOp # "none"
  /\ LET y == [Cancel(s, s.tid.connect) EXCEPT !.tid.connect = 0, !.connectOp = "none"]
         fail == ForceClose([y EXCEPT !.upstream = "Failed"])
         ok == LET a == ResetIdleTimer([y EXCEPT !.upstream = "Connected"])
               IN  StartRead(StartRead(a, "c2s"), "s2c")
     IN  IF s.connectOp = "aborted" THEN s' = fail
         ELSE \/ s' = ok
              \/ PeerErrors /\ s' = fail

\* onClientRead / onServerRead.
ReadCompletes(d) ==
  /\ s.rops[d] # <<>>
  /\ LET y == [s EXCEPT !.rops[d] = Tail(@)]
     IN  IF Head(s.rops[d]) THEN s' = y                     \* operation_aborted
         ELSE \/ /\ s.seq[d] < MaxReads
                 /\ \E n \in ReadSizes, dec \in Decisions(d), o \in DQ!HeapOrders(s.dq[d].pkts) :
                      s' = OnReadData(y, d, n, dec, o)
              \/ s' = CloseSide(y, R(d))                    \* eof, connection_reset
              \/ PeerErrors /\ s' = ForceClose(y)           \* other errors

\* onClientWrite / onServerWrite.
WriteCompletes(d) ==
  /\ s.wops[d] # <<>>
  /\ LET op == Head(s.wops[d])
         y == [s EXCEPT !.wops[d] = Tail(@), !.wip[d] = FALSE]
     IN  IF op.aborted THEN s' = CloseSide(y, W(d))
         ELSE \/ s' = OnWriteOk(y, d, op.len)
              \/ PeerErrors /\ s' = CloseSide(y, W(d))

\* A waiting timer reaches its deadline: its handler is queued.
Expire ==
  \E t \in s.timers :
    /\ t.st = "armed" /\ t.left = 0
    /\ s' = [s EXCEPT !.timers = (@ \ {t}) \cup {[t EXCEPT !.st = "due"]}]

\* onConnectTimeout.
OnConnectTimeout(x) == ForceClose([x EXCEPT !.tid.connect = 0])

\* onIdleTimeout.
OnIdleTimeout(x) == InitiateShutdown([x EXCEPT !.tid.idle = 0])

\* onDelayExpired: flush both queues (in a pop order oc, os of each), then
\* re-arm the delay timer for what is left.
OnDelayExpired(x, oc, os) ==
  ScheduleDelayFlush(FlushDir(FlushDir([x EXCEPT !.tid.delay = 0], "c2s", oc), "s2c", os))

\* The queued handler of an expired timer runs: the scheduleGuarded
\* wrapper runs the callback only if the session still exists.
Fire ==
  \E t \in s.timers :
    /\ t.st # "armed"
    /\ LET y == [s EXCEPT !.timers = @ \ {t}]
       IN  IF ~Alive(s) THEN s' = y
           ELSE CASE t.kind = "connect" -> s' = OnConnectTimeout(y)
                  [] t.kind = "idle" -> s' = OnIdleTimeout(y)
                  [] t.kind = "delay" ->
                       \E oc \in DQ!ReadyOrders(y.dq["c2s"]), os \in DQ!ReadyOrders(y.dq["s2c"]) :
                         s' = OnDelayExpired(y, oc, os)

\* One unit of time passes; every timer due now has fired first.
Tick ==
  /\ s.timers # {}
  /\ \A t \in s.timers : t.st = "armed" /\ t.left > 0
  /\ s' = [s EXCEPT !.timers = {[t EXCEPT !.left = @ - 1] : t \in @},
                    !.dq = [d \in Dirs |-> DQ!Aged(@[d])]]

\* SessionManager::shutdownAll ("shutdown") and forceCloseAll or
\* shedOldestIdle ("force") collect the sessions of the map and post
\* initiateShutdown / forceClose onto each one's strand; the posted handler
\* holds the session and runs later.
MgrPost(r) ==
  /\ r \in MgrRequests /\ r \notin s.posted /\ s.registered
  /\ s' = [s EXCEPT !.posted = @ \cup {r}, !.queued = @ \cup {r}]

MgrRun(r) ==
  /\ r \in s.queued
  /\ LET y == [s EXCEPT !.queued = @ \ {r}]
     IN  s' = IF r = "shutdown" THEN InitiateShutdown(y) ELSE ForceClose(y)

Next ==
  \/ Start
  \/ ConnectCompletes
  \/ \E d \in Dirs : ReadCompletes(d) \/ WriteCompletes(d)
  \/ Expire \/ Fire \/ Tick
  \/ \E r \in {"shutdown", "force"} : MgrPost(r) \/ MgrRun(r)

\* The io_context eventually runs every ready handler (posted, completion
\* or timer), the OS eventually completes every pending operation, and
\* time passes; the manager's requests are not assumed to be made.
Fairness ==
  /\ WF_vars(Start) /\ WF_vars(ConnectCompletes)
  /\ \A d \in Dirs : WF_vars(ReadCompletes(d)) /\ WF_vars(WriteCompletes(d))
  /\ WF_vars(Expire) /\ WF_vars(Fire) /\ WF_vars(Tick)
  /\ \A r \in {"shutdown", "force"} : WF_vars(MgrRun(r))

Spec == Init /\ [][Next]_vars

FairSpec == Spec /\ Fairness
-----------------------------------------------------------------------------
(* Properties.                                                             *)

\* Once start() has snapshotted the profile every decision is taken from,
\* decide agrees with the spec's evaluation order (section 4.2) on every
\* checked profile and every combination of rolls (AnomalyEngine.tla's
\* DecideMatchesSpec): the decisions this session's handlers act on are
\* the spec's.
EngineMatchesSpec == s.started => AE!DecideMatchesSpec

\* "Two concurrent writes to the same transport never overlap": the
\* writeInProgress flags of startClientWrite / startServerWrite and the
\* readPaused / readOpen guards of the read path leave at most one
\* async_write and one async_read_some pending per direction, across the
\* write-completion resume path, the delay flush and the stall decision.
SingleOutstandingIO ==
  \A d \in Dirs : Len(s.rops[d]) <= 1 /\ Len(s.wops[d]) <= 1

\* No bytes are stranded: whenever a direction's Buffer holds data and its
\* destination write side is open, a write is in progress to drain it
\* (processData, flushDelayQueues and the write completion all re-issue
\* startWrite).
NoStrandedBytes ==
  \A d \in Dirs : s.open[W(d)] /\ s.buf[d] # <<>> => s.wip[d]

\* "After fullyClosed, the manager map does not contain the session's id",
\* whichever of closeXxx, initiateShutdown or forceClose closed the last side.
DeregisteredWhenClosed ==
  (\A sd \in Sides : ~s.open[sd]) => ~s.registered

\* Every delayed packet is eventually moved from its DelayQueue to the
\* Buffer (the one delay timer is re-armed by onDelayExpired and armed by
\* processData when idle), unless the session has been destroyed.
DelayedEventuallyFlushed ==
  \A d \in Dirs : (s.dq[d].pkts # {}) ~> (s.dq[d].pkts = {} \/ ~Alive(s))

\* A read paused by backpressure (readable >= HIGH, not a Stall decision)
\* always has a write in progress whose completion will resume it once the
\* Buffer drains to LOW, while both sides of the direction are open: the
\* pause in onClientRead, the resume in onServerWrite and the writes
\* started by processData and flushDelayQueues must agree.
BackpressureHasWriter ==
  \A d \in Dirs :
    s.paused[d] /\ ~s.stalled[d] /\ s.open[R(d)] /\ s.open[W(d)] => s.wip[d]

\* "A DelayQueue maintains totalBytes = sum |payload| and totalBytes <=
\* MAX_BYTES": through the pushes of processData (dropping the soonest
\* releases on overflow), the popReady loops of flushDelayQueues and the
\* passing of time, totalBytes_ stays the size of what the heap holds, and
\* never exceeds the bound.
DelayQueueAccounting ==
  \A d \in Dirs : s.dq[d].total = DQ!HeldBytes(s.dq[d]) /\ s.dq[d].total <= DqMax

\* While the session exists and a DelayQueue holds a packet, the
\* delayTimerId_ that processData tests is the id of a delay timer still
\* in the Scheduler (waiting or queued): the "arm only if none is pending"
\* test in processData, the reset to 0 and re-arm in onDelayExpired, and
\* the cancels of the other timers never leave packets without a flush,
\* through every fault decision, peer error and forced close.
DelayTimerCoversQueues ==
  Alive(s) /\ (\E d \in Dirs : s.dq[d].pkts # {}) =>
    \E t \in s.timers : t.id = s.tid.delay /\ t.kind = "delay"

\* The longest delay a decision can give: latencyMs + jitterMs.
MaxDelay == Max({Latency[d] + Jitter[d] : d \in Dirs})

\* One delay timer serves both DelayQueues, and processData arms it only
\* when none is pending, so a packet due sooner than the armed deadline
\* (the other direction's, or an earlier packet's with more jitter) waits
\* for it.  The wait is bounded: while the session exists, no packet stays
\* in a DelayQueue MaxDelay ticks or more past its release time.
LatenessBounded ==
  Alive(s) => \A d \in Dirs : \A p \in s.dq[d].pkts : p.rel > -MaxDelay

\* No silent loss: while a direction's destination is writable, every unit
\* of every packet the engine let through has been written, or is in the
\* Buffer or the DelayQueue (spec 3.8 scenario 6: "no bytes are lost").
NoSilentLoss ==
  \A d \in Dirs :
    s.open[W(d)] =>
      s.passed[d] = s.delivered[d] + Len(s.buf[d])
                    + DQ!HeldBytes(s.dq[d])

\* "Client EOF => close server-write once clientToServerBuf drained" with
\* queued bytes "already decided": when the write completion propagates the
\* FIN, nothing of that direction is left in its Buffer or DelayQueue.
FinAfterDrain ==
  \A d \in Dirs : s.fin[d] => s.buf[d] = <<>> /\ s.dq[d].pkts = {}

\* "fullyClosed => self-deregister": once both peers are done, every
\* session eventually leaves the manager's map.
SessionEventuallyRemoved == <>(~s.registered)
=============================================================================
