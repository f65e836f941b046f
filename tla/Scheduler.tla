------------------------------- MODULE Scheduler -------------------------------
(***************************************************************************)
(* Scheduler (src/src/Scheduler.cpp): timers_ maps an id to an            *)
(* asio::steady_timer whose async_wait handler erases the id and runs the *)
(* callback unless the wait completed with operation_aborted.  The        *)
(* handler is queued on the io_context when the timer expires or is       *)
(* cancelled, and runs later; schedule and cancel run under the mutex.    *)
(*                                                                         *)
(* The client schedules up to MaxTimers timers and cancels any id it was  *)
(* given, at most MaxCancels times per id (Session cancels a timer from   *)
(* its handlers and again from its destructor).                           *)
(***************************************************************************)
EXTENDS Naturals, Sequences

CONSTANTS MaxTimers, MaxCancels

ASSUME MaxTimers \in Nat \ {0} /\ MaxCancels \in Nat

Ids == 1..MaxTimers

VARIABLES
  timers,  \* the ids in timers_
  wait,    \* [Ids -> {"unused", "waiting", "expired", "aborted", "done"}]:
           \*   the steady_timer's async_wait: pending, handler queued with
           \*   success or with operation_aborted, handler run
  nextId,  \* nextId_
  fired,   \* the ids whose callback ran
  cres     \* [Ids -> Seq(BOOLEAN)]: what each cancel(id) returned

vars == <<timers, wait, nextId, fired, cres>>

TypeOK ==
  /\ timers \subseteq Ids
  /\ wait \in [Ids -> {"unused", "waiting", "expired", "aborted", "done"}]
  /\ nextId \in 1..(MaxTimers + 1)
  /\ fired \subseteq Ids
  /\ cres \in [Ids -> Seq(BOOLEAN)]

Init ==
  /\ timers = {} /\ wait = [i \in Ids |-> "unused"] /\ nextId = 1
  /\ fired = {} /\ cres = [i \in Ids |-> <<>>]

\* schedule(delay, cb): a fresh id, the timer in the map, async_wait pending.
Schedule ==
  /\ nextId <= MaxTimers
  /\ timers' = timers \cup {nextId}
  /\ wait' = [wait EXCEPT ![nextId] = "waiting"]
  /\ nextId' = nextId + 1
  /\ UNCHANGED <<fired, cres>>

\* The deadline passes: the handler is queued with success.
Expire(i) ==
  /\ wait[i] = "waiting"
  /\ wait' = [wait EXCEPT ![i] = "expired"]
  /\ UNCHANGED <<timers, nextId, fired, cres>>

\* Mutant: cancel leaves the id in the map.
CancelNoErase(i) ==
  /\ wait[i] # "unused" /\ Len(cres[i]) < MaxCancels
  /\ IF i \in timers
     THEN /\ wait' = [wait EXCEPT ![i] = IF @ = "waiting" THEN "aborted" ELSE @]
          /\ cres' = [cres EXCEPT ![i] = Append(@, TRUE)]
     ELSE /\ cres' = [cres EXCEPT ![i] = Append(@, FALSE)]
          /\ UNCHANGED wait
  /\ UNCHANGED <<timers, nextId, fired>>

\* cancel(id): if the id is in the map, timer->cancel() (which aborts only a
\* wait that is still pending) and erase it, returning true; else false.
Cancel(i) ==
  /\ wait[i] # "unused" /\ Len(cres[i]) < MaxCancels
  /\ IF i \in timers
     THEN /\ wait' = [wait EXCEPT ![i] = IF @ = "waiting" THEN "aborted" ELSE @]
          /\ timers' = timers \ {i}
          /\ cres' = [cres EXCEPT ![i] = Append(@, TRUE)]
     ELSE /\ cres' = [cres EXCEPT ![i] = Append(@, FALSE)]
          /\ UNCHANGED <<wait, timers>>
  /\ UNCHANGED <<nextId, fired>>

\* Mutant: the handler runs the callback but leaves the id in the map.
RunHandlerNoErase(i) ==
  /\ wait[i] \in {"expired", "aborted"}
  /\ wait' = [wait EXCEPT ![i] = "done"]
  /\ fired' = IF wait[i] = "expired" THEN fired \cup {i} ELSE fired
  /\ UNCHANGED <<timers, nextId, cres>>

\* The queued async_wait handler runs: erase the id, then run the callback
\* unless the wait was aborted.
RunHandler(i) ==
  /\ wait[i] \in {"expired", "aborted"}
  /\ timers' = timers \ {i}
  /\ wait' = [wait EXCEPT ![i] = "done"]
  /\ fired' = IF wait[i] = "expired" THEN fired \cup {i} ELSE fired
  /\ UNCHANGED <<nextId, cres>>

Next ==
  \/ Schedule
  \/ \E i \in Ids : Expire(i) \/ Cancel(i) \/ RunHandler(i)

\* The io_context runs every queued handler and every deadline passes.
Fairness == \A i \in Ids : WF_vars(Expire(i)) /\ WF_vars(RunHandler(i))

Spec == Init /\ [][Next]_vars

FairSpec == Spec /\ Fairness

-----------------------------------------------------------------------------
(* Properties.                                                             *)

\* What the client sees of a timer: cancelled once a cancel returned true,
\* fired once its callback ran.
AbsState(i) ==
  CASE i \in fired -> "fired"
    [] TRUE \in {cres[i][k] : k \in DOMAIN cres[i]} -> "cancelled"
    [] wait[i] = "unused" -> "idle"
    [] OTHER -> "pending"

Timers == INSTANCE TimerService WITH Ids <- Ids,
                                      st <- [i \in Ids |-> AbsState(i)]

\* Scheduler implements the spec's timer: "firing is suppressed if the
\* timer was cancelled", and "double cancel returns true then false, never
\* firing the timer".
ImplementsTimerService == Timers!Spec

\* Cancellation is idempotent: whatever the interleaving of cancels, the
\* deadline and the queued handler's erase, cancel(id) returns true at
\* most once per id ("double cancel returns true then false").
CancelTrueAtMostOnce ==
  \A i \in Ids : \A j, k \in DOMAIN cres[i] : cres[i][j] /\ cres[i][k] => j = k

\* Timer storage does not leak: every scheduled timer eventually leaves
\* timers_ (by its handler or by cancel), so activeCount() returns to zero.
EveryTimerErased ==
  \A i \in Ids : (wait[i] = "waiting") ~> (i \notin timers /\ wait[i] = "done")
==============================================================================
