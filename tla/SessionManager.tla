---------------------------- MODULE SessionManager ----------------------------
(***************************************************************************)
(* SessionManager (src/src/SessionManager.cpp) with the accept loop of    *)
(* ProxyServer (src/src/ProxyServer.cpp) that feeds it, and main's        *)
(* shutdown requests (src/src/main.cpp).                                   *)
(*                                                                         *)
(* A session is an id in the map; what it does on its strand is          *)
(* Session.tla's concern, so here a session may end by itself at any     *)
(* time (removeSession).  Handlers posted to a session's strand run later *)
(* on the single io thread; onAccept runs on the same thread, so tryAdmit *)
(* and createSession are one step.                                         *)
(***************************************************************************)
EXTENDS Naturals, FiniteSets

CONSTANTS
  MaxSessions,       \* ConfigLimits::MAX_SESSIONS
  SoftLimitPercent,  \* ConfigLimits::SOFT_LIMIT_PERCENT
  MaxArrivals,       \* bound on accepted connections
  AcceptErrors       \* whether async_accept may fail (EMFILE, ENFILE, ...)

ASSUME MaxSessions \in Nat \ {0} /\ SoftLimitPercent \in 0..100
       /\ MaxArrivals \in Nat /\ AcceptErrors \in BOOLEAN

SoftLimit == (MaxSessions * SoftLimitPercent) \div 100

Sids == 1..MaxArrivals

VARIABLES
  sessions,   \* the ids in sessions_
  nextSid,    \* nextSessionId_
  posted,     \* handlers posted to sessions' strands: <<id, "force" | "shutdown">>
  phase,      \* main: "serving", "stopped" (proxyServer.stop), "shutdown"
              \*   (shutdownAll), "forced" (forceCloseAll), "halted" (eventLoop.stop)
  accepting,  \* an async_accept is outstanding
  admitting,  \* onAccept passed its running_ check and has not yet run createSession
  arrivals,   \* connections accepted so far
  last        \* the last tryAdmit: [shed, admitted]

vars == <<sessions, nextSid, posted, phase, accepting, admitting, arrivals, last>>

Phases == <<"serving", "stopped", "shutdown", "forced", "halted">>

\* ProxyServer::running_
running == phase = "serving"

\* The io thread runs handlers until eventLoop.stop().
ioRuns == phase # "halted"

TypeOK ==
  /\ sessions \subseteq Sids /\ nextSid \in 1..(MaxArrivals + 1)
  /\ posted \subseteq Sids \X {"force", "shutdown"}
  /\ phase \in {Phases[k] : k \in 1..5}
  /\ accepting \in BOOLEAN /\ admitting \in BOOLEAN
  /\ arrivals \in 0..MaxArrivals
  /\ last \in [shed : BOOLEAN, admitted : BOOLEAN]

Init ==
  /\ sessions = {} /\ nextSid = 1 /\ posted = {}
  /\ phase = "serving" /\ accepting = TRUE    \* start(): running_, doAccept()
  /\ admitting = FALSE
  /\ arrivals = 0 /\ last = [shed |-> FALSE, admitted |-> FALSE]

-----------------------------------------------------------------------------
(* tryAdmit, as the set of outcomes [shed, admitted] it can return and the *)
(* posts it makes, for count = sessionCount().                             *)

\* shedOldestIdle: post forceClose to the session with the largest
\* idleTime; findOldestIdle returns none when no idleTime is above zero.
ShedChoices == {{<<i, "force">>} : i \in sessions} \cup {{}}

\* Mutant: at the hard limit, admit once a session has been shed.
TryAdmitOptimisticShed(count) ==
  IF count < SoftLimit THEN {[shed |-> {}, admitted |-> TRUE]}
  ELSE IF count >= MaxSessions
       THEN {[shed |-> p, admitted |-> p # {}] : p \in ShedChoices}
       ELSE {[shed |-> {}, admitted |-> a] : a \in BOOLEAN}

\* Below the soft limit admit.  At the hard limit shed, then admit iff
\* sessionCount() < MAX now, while the posted forceClose has not run.
\* Between, admit iff rand()/RAND_MAX < 1 - (count - soft)/(hard - soft):
\* the roll can be 1.0f even where the probability is 1, so both outcomes
\* are possible throughout the band.
TryAdmit(count) ==
  IF count < SoftLimit THEN {[shed |-> {}, admitted |-> TRUE]}
  ELSE IF count >= MaxSessions
       THEN {[shed |-> p, admitted |-> count < MaxSessions] : p \in ShedChoices}
       ELSE {[shed |-> {}, admitted |-> a] : a \in BOOLEAN}

-----------------------------------------------------------------------------
(* Actions of the io thread.                                               *)

\* onAccept(ec, socket): on any error (operation_aborted after stop, or
\* another) return without doAccept(); on success return if running_ is
\* false, else go on to createSession.  Only a success consumes a
\* connection.
AcceptCompletes ==
  /\ ioRuns /\ accepting /\ ~admitting /\ arrivals < MaxArrivals
  /\ \/ /\ arrivals' = arrivals + 1
        /\ admitting' = running
        /\ accepting' = running
     \/ /\ AcceptErrors \/ ~running
        /\ accepting' = FALSE
        /\ UNCHANGED <<arrivals, admitting>>
  /\ UNCHANGED <<sessions, nextSid, posted, phase, last>>

\* The rest of onAccept: createSession (tryAdmit; on success insert the new
\* id and post start), then doAccept(), which arms a new accept only if
\* running_ is still true.
CreateSession ==
  /\ ioRuns /\ admitting
  /\ \E r \in TryAdmit(Cardinality(sessions)) :
       /\ posted' = posted \cup r.shed
       /\ sessions' = IF r.admitted THEN sessions \cup {nextSid} ELSE sessions
       /\ nextSid' = IF r.admitted THEN nextSid + 1 ELSE nextSid
       /\ last' = [shed |-> r.shed # {}, admitted |-> r.admitted]
  /\ admitting' = FALSE
  /\ accepting' = running
  /\ UNCHANGED <<phase, arrivals>>

\* A session reaches fullyClosed or forceClose by itself: removeSession.
SessionEnds(i) ==
  /\ ioRuns /\ i \in sessions
  /\ sessions' = sessions \ {i}
  /\ UNCHANGED <<nextSid, posted, phase, accepting, admitting, arrivals, last>>

\* A posted handler runs on the session's strand: forceClose always
\* removes the session; initiateShutdown removes it only if it is then
\* fully closed.
RunPosted(h) ==
  /\ ioRuns /\ h \in posted
  /\ posted' = posted \ {h}
  /\ \/ sessions' = sessions \ {h[1]}
     \/ h[2] = "shutdown" /\ UNCHANGED sessions
  /\ UNCHANGED <<nextSid, phase, accepting, admitting, arrivals, last>>

-----------------------------------------------------------------------------
(* main's shutdown sequence, on the main thread: proxyServer.stop(),       *)
(* shutdownAll(), a 2 s sleep, forceCloseAll(), eventLoop.stop().          *)

\* proxyServer.stop() clears running_ and cancels the acceptor; the
\* outstanding accept then completes with operation_aborted.
Stop ==
  /\ phase = "serving"
  /\ phase' = "stopped"
  /\ UNCHANGED <<sessions, nextSid, posted, accepting, admitting, arrivals, last>>

\* shutdownAll / forceCloseAll post to every session in the map.
PostAll(kind, from, to) ==
  /\ phase = from
  /\ posted' = posted \cup (sessions \X {kind})
  /\ phase' = to
  /\ UNCHANGED <<sessions, nextSid, accepting, admitting, arrivals, last>>

\* eventLoop.stop(): io_context::stop, run() returns and handlers still
\* queued are never run.
LoopStop ==
  /\ phase = "forced"
  /\ phase' = "halted"
  /\ UNCHANGED <<sessions, nextSid, posted, accepting, admitting, arrivals, last>>

Next ==
  \/ AcceptCompletes \/ CreateSession
  \/ \E i \in Sids : SessionEnds(i)
  \/ \E h \in posted : RunPosted(h)
  \/ Stop \/ PostAll("shutdown", "stopped", "shutdown")
  \/ PostAll("force", "shutdown", "forced") \/ LoopStop

Spec == Init /\ [][Next]_vars

-----------------------------------------------------------------------------
(* Properties.                                                             *)

\* "Open > 10 000 sessions quickly => count never exceeds 10 000": across
\* arrivals, sheds whose forceClose is still queued, and sessions ending,
\* the map never holds more than MAX_SESSIONS sessions.
CountBounded == Cardinality(sessions) <= MaxSessions
==============================================================================
