------------------------------ MODULE ControlPlane ------------------------------
(***************************************************************************)
(* The control server's thread against the io thread                      *)
(* (src/src/ControlServer.cpp, src/src/main.cpp).                          *)
(*                                                                         *)
(* ControlServer::doAccept handles one connection at a time, blocking, so *)
(* the control thread is either idle, inside one mutating request (a     *)
(* single step under ConfigManager's mutexes), or inside a GET /metrics  *)
(* render, which reads the registry's atomics one by one.  Meanwhile the *)
(* io thread starts sessions, which snapshot the default profile, and    *)
(* observes histogram values.  The GET /health and /sessions handlers    *)
(* only read and are left out.                                             *)
(***************************************************************************)
EXTENDS Naturals

CONSTANTS Names, Default, Limit, TickMs, MaxTicks, MaxRequests, NoProfile,
          Bounds, Values, MaxObs

VARIABLES store, nextVersion, lastUpdate, updateCount, now, passed, snaps,
          sum, count, bucket, opc, oval, oidx, nobs, rpc, ridx, out, shown

C == INSTANCE ConfigManager
H == INSTANCE Histogram

cvars == <<store, nextVersion, lastUpdate, updateCount, now, passed, snaps>>
hvars == <<sum, count, bucket, opc, oval, oidx, nobs, rpc, ridx, out, shown>>
vars == <<cvars, hvars>>

TypeOK == C!TypeOK /\ H!TypeOK

Init == C!Init /\ H!Init

\* handleRequest for a POST or DELETE runs only between renders: the
\* control thread serves one connection to the end before accepting the
\* next.
ControlMutation ==
  /\ rpc = "idle"
  /\ \E m \in {"POST", "DELETE"}, p \in Names \cup {NoProfile}, b \in BOOLEAN :
       C!Mutation(m, p, b)
  /\ UNCHANGED hvars

\* handleGetMetrics: renderPrometheus, one load at a time.
ControlRender == H!RenderStep /\ UNCHANGED cvars

\* The io thread: a session's start, or an observe step.
IoStep ==
  \/ C!SessionSnapshot /\ UNCHANGED hvars
  \/ H!ObserveStep /\ UNCHANGED cvars

Tick == C!Tick /\ UNCHANGED hvars

Next == ControlMutation \/ ControlRender \/ IoStep \/ Tick

Spec == Init /\ [][Next]_vars

-----------------------------------------------------------------------------
(* Properties, each stated in the component's module.                     *)

\* No rate window admits more than CONFIG_UPDATE_RATE_LIMIT requests.
WindowQuota == C!WindowQuota

\* A scrape never prints a bucket above its +Inf, nor +Inf above _count.
RenderedWithinCount == H!RenderedWithinCount
==============================================================================
