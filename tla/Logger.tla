-------------------------------- MODULE Logger --------------------------------
(***************************************************************************)
(* Logger::log (src/src/Logger.cpp): under the mutex, a DEBUG entry goes  *)
(* to the black box (a ring of the last BLACK_BOX_SIZE debug entries);    *)
(* every entry goes to the live queue, which is pruned when full (DEBUG   *)
(* entries first, then INFO), and is written to the output only if it    *)
(* found room there.  Nothing removes entries from the live queue but the *)
(* pruning.  log holds the mutex for the whole update, so each call is    *)
(* one step; which thread calls it does not matter.  No caller disables   *)
(* the logger (setEnabled is never called), so enabled_ stays true.       *)
(*                                                                         *)
(* An entry is its call number and level; text and formatting are left  *)
(* out.                                                                    *)
(***************************************************************************)
EXTENDS Naturals, Sequences, SequencesExt

CONSTANTS
  LiveMax,      \* LIVE_QUEUE_MAX
  BlackBoxSize, \* BLACK_BOX_SIZE
  MaxLogs       \* bound on log calls

ASSUME LiveMax \in Nat \ {0} /\ BlackBoxSize \in Nat \ {0} /\ MaxLogs \in Nat

Levels == {"Debug", "Info", "Warn", "Error"}

Entry == [id : 1..MaxLogs, lvl : Levels]

VARIABLES
  live,     \* liveQueue_
  box,      \* blackBox_
  written,  \* ids of the entries writeEntry sent to the output, in order
  logged    \* every entry log was called with, in order (history)

vars == <<live, box, written, logged>>

TypeOK ==
  /\ live \in Seq(Entry) /\ box \in Seq(Entry)
  /\ written \in Seq(1..MaxLogs) /\ logged \in Seq(Entry)
  /\ Len(logged) <= MaxLogs

Init == live = <<>> /\ box = <<>> /\ written = <<>> /\ logged = <<>>

-----------------------------------------------------------------------------

\* One pass of pruneQueue: walk the queue from the front, erasing entries
\* of level l while the queue is still at LIVE_QUEUE_MAX or above; k is
\* how many erasures bring it below.
RECURSIVE EraseFirst(_, _, _)
EraseFirst(q, l, k) ==
  IF k <= 0 \/ q = <<>> THEN q
  ELSE IF Head(q).lvl = l THEN EraseFirst(Tail(q), l, k - 1)
       ELSE <<Head(q)>> \o EraseFirst(Tail(q), l, k)

\* Mutant: the INFO pass runs before the DEBUG pass.
PruneQueueInfoFirst(q) ==
  LET q1 == EraseFirst(q, "Info", Len(q) - LiveMax + 1)
  IN  EraseFirst(q1, "Debug", Len(q1) - LiveMax + 1)

\* pruneQueue: drop DEBUG entries first, then INFO.
PruneQueue(q) ==
  LET q1 == EraseFirst(q, "Debug", Len(q) - LiveMax + 1)
  IN  EraseFirst(q1, "Info", Len(q1) - LiveMax + 1)

\* Mutant: the black box evicts only once it is over the size.
BlackBoxPushLate(b, e) ==
  Append(IF Len(b) > BlackBoxSize THEN Tail(b) ELSE b, e)

\* A DEBUG entry enters the ring, evicting the oldest when it is full.
BlackBoxPush(b, e) ==
  Append(IF Len(b) >= BlackBoxSize THEN Tail(b) ELSE b, e)

\* log(level, ...): the black box, then pruning when the live queue is
\* full, then push and write only if there is room.
Log(l) ==
  /\ Len(logged) < MaxLogs
  /\ LET e  == [id |-> Len(logged) + 1, lvl |-> l]
         q1 == IF Len(live) >= LiveMax THEN PruneQueue(live) ELSE live
     IN  /\ box' = IF l = "Debug" THEN BlackBoxPush(box, e) ELSE box
         /\ IF Len(q1) < LiveMax
            THEN live' = Append(q1, e) /\ written' = Append(written, e.id)
            ELSE live' = q1 /\ UNCHANGED written
         /\ logged' = Append(logged, e)

Next == \E l \in Levels : Log(l)

Spec == Init /\ [][Next]_vars

-----------------------------------------------------------------------------
(* Properties.                                                             *)

IsDebug(e) == e.lvl = "Debug"

\* The black box dumped at shutdown holds exactly the most recent
\* BLACK_BOX_SIZE debug entries, oldest first, whatever else was logged.
BlackBoxIsLatest ==
  LET d == SelectSeq(logged, IsDebug)
  IN  box = SubSeq(d, IF Len(d) > BlackBoxSize THEN Len(d) - BlackBoxSize + 1 ELSE 1, Len(d))

\* "Drop DEBUG entries first, then INFO": a log call never drops an INFO
\* entry from the live queue while it keeps a DEBUG entry, and never drops
\* a WARN or ERROR entry.
PruneKeepsSevere ==
  [][\A e \in ToSet(live) \ ToSet(live') :
        /\ e.lvl \in {"Debug", "Info"}
        /\ e.lvl = "Info" => \A f \in ToSet(live') : f.lvl # "Debug" \/ f.id = Len(logged')]_vars
==============================================================================
