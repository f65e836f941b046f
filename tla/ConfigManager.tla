----------------------------- MODULE ConfigManager -----------------------------
(***************************************************************************)
(* ConfigManager (src/src/Config.cpp) behind the control surface's        *)
(* mutating requests (ControlServer::handleRequest, handlePostProfile,    *)
(* handleDeleteProfile in src/src/ControlServer.cpp), and the sessions'  *)
(* snapshot of the "default" profile (Session::start).                    *)
(*                                                                         *)
(* The control server handles one connection at a time on its own thread, *)
(* and every ConfigManager operation runs under its mutex, so a request   *)
(* is one step; a session's getProfile is another.  Time advances in      *)
(* ticks of TickMs milliseconds; steady_clock's epoch is boot, so the     *)
(* first request finds lastUpdate_ at least a second old.                 *)
(*                                                                         *)
(* A profile's knobs are left out: validate only clamps them, and no      *)
(* property here reads them.  A request's path either names a profile or *)
(* not, and a POST body either parses or makes stoul/stof throw.         *)
(***************************************************************************)
EXTENDS Naturals, Sequences, FiniteSets

CONSTANTS
  Names,        \* profile names a request can carry
  Default,      \* "default", the profile sessions snapshot
  Limit,        \* ConfigLimits::CONFIG_UPDATE_RATE_LIMIT
  TickMs,       \* milliseconds per clock tick
  MaxTicks,     \* bound on the clock
  MaxRequests,  \* bound on mutating requests
  NoProfile     \* a path that is not /profiles/{name}

ASSUME Default \in Names /\ NoProfile \notin Names /\ Limit \in Nat \ {0} /\ TickMs \in 1..1000
       /\ MaxTicks \in Nat /\ MaxRequests \in Nat

VARIABLES
  store,        \* profiles_: the version of each stored profile, 0 if absent
  nextVersion,  \* nextVersion_
  lastUpdate,   \* lastUpdate_, in ticks
  updateCount,  \* updateCount_
  now,          \* steady_clock::now(), in ticks
  passed,       \* requests past the rate limit, in order: [win, status]
  snaps         \* versions sessions took from getProfile(Default)

vars == <<store, nextVersion, lastUpdate, updateCount, now, passed, snaps>>

TypeOK ==
  /\ store \in [Names -> Nat]
  /\ nextVersion \in Nat \ {0} /\ updateCount \in 0..Limit
  /\ lastUpdate \in 0..MaxTicks /\ now \in 0..MaxTicks
  /\ passed \in Seq([win : 0..MaxTicks, status : {200, 400, 404}]) /\ snaps \subseteq Nat

\* Members' initial values; the clock starts a second after the epoch.
Init ==
  /\ store = [n \in Names |-> 0]
  /\ nextVersion = 1 /\ lastUpdate = 0 /\ updateCount = 0
  /\ now = (1000 + TickMs - 1) \div TickMs
  /\ passed = <<>> /\ snaps = {}

-----------------------------------------------------------------------------
(* ConfigManager.                                                          *)

\* Whole seconds since lastUpdate_ (duration_cast truncates).
ElapsedSeconds == ((now - lastUpdate) * TickMs) \div 1000

\* Mutant: the count is compared with > instead of >=.
CheckRateLimitLate ==
  IF ElapsedSeconds >= 1 THEN [ok |-> TRUE, last |-> now, count |-> 1]
  ELSE IF updateCount > Limit THEN [ok |-> FALSE, last |-> lastUpdate, count |-> updateCount]
  ELSE [ok |-> TRUE, last |-> lastUpdate, count |-> updateCount + 1]

\* checkRateLimit: a second or more after the window opened, open a new
\* one counting this call; else refuse at the limit, or count the call.
CheckRateLimit ==
  IF ElapsedSeconds >= 1 THEN [ok |-> TRUE, last |-> now, count |-> 1]
  ELSE IF updateCount >= Limit THEN [ok |-> FALSE, last |-> lastUpdate, count |-> updateCount]
  ELSE [ok |-> TRUE, last |-> lastUpdate, count |-> updateCount + 1]

\* getProfile(name): the stored profile, or AnomalyProfile{} (version 0).
GetProfile(n) == store[n]

\* setProfile(name, profile): validate, version := nextVersion_++, store.
SetProfile(n) ==
  /\ store' = [store EXCEPT ![n] = nextVersion]
  /\ nextVersion' = nextVersion + 1

\* deleteProfile(name): erase; true if there was a profile.
DeleteProfile(n) ==
  /\ store' = [store EXCEPT ![n] = 0]
  /\ UNCHANGED nextVersion

-----------------------------------------------------------------------------
(* ControlServer's mutating requests.  The info lines the handlers log go  *)
(* to Logger (Logger.tla) and are left out here.                          *)

\* handlePostProfile: a body stoul/stof cannot parse throws, 400; else
\* setProfile and 200 with the version it returned.
HandlePostProfile(n, parses) ==
  IF parses THEN SetProfile(n) ELSE UNCHANGED <<store, nextVersion>>

\* handleDeleteProfile: 200 if deleteProfile erased a profile, else 404.
HandleDeleteProfile(n) == DeleteProfile(n)

\* The response handleRequest gives a request past the rate limit.
Status(method, p, parses) ==
  IF p \notin Names THEN 404
  ELSE IF method = "POST" THEN (IF parses THEN 200 ELSE 400)
  ELSE IF GetProfile(p) # 0 THEN 200 ELSE 404

\* handleRequest for a POST or DELETE: the rate limit first (429), then
\* the route (404 unless /profiles/{name}), then the handler.
Mutation(method, p, parses) ==
  /\ Len(passed) < MaxRequests
  /\ LET r == CheckRateLimit
     IN  /\ lastUpdate' = r.last /\ updateCount' = r.count
         /\ IF r.ok /\ p \in Names
            THEN IF method = "POST" THEN HandlePostProfile(p, parses)
                 ELSE HandleDeleteProfile(p)
            ELSE UNCHANGED <<store, nextVersion>>
         /\ passed' = IF r.ok
                      THEN Append(passed, [win |-> r.last, status |-> Status(method, p, parses)])
                      ELSE passed
  /\ UNCHANGED <<now, snaps>>

\* Session::start: currentProfile_ = getProfile("default"), by value.
SessionSnapshot ==
  /\ snaps' = snaps \cup {GetProfile(Default)}
  /\ UNCHANGED <<store, nextVersion, lastUpdate, updateCount, now, passed>>

Tick ==
  /\ now < MaxTicks
  /\ now' = now + 1
  /\ UNCHANGED <<store, nextVersion, lastUpdate, updateCount, passed, snaps>>

Next ==
  \/ \E m \in {"POST", "DELETE"}, p \in Names \cup {NoProfile}, b \in BOOLEAN :
       Mutation(m, p, b)
  \/ SessionSnapshot
  \/ Tick

Spec == Init /\ [][Next]_vars

-----------------------------------------------------------------------------
(* Properties.                                                             *)

\* "At most 10 mutations per second, counted over a 1-second tumbling
\* window": no window admits more than CONFIG_UPDATE_RATE_LIMIT requests,
\* and a window opens at least a second after the previous one.
WindowQuota ==
  /\ \A i \in DOMAIN passed :
       Cardinality({j \in DOMAIN passed : passed[j].win = passed[i].win}) <= Limit
  /\ \A i \in DOMAIN passed : \A j \in i..Len(passed) :
       passed[j].win = passed[i].win \/ (passed[j].win - passed[i].win) * TickMs >= 1000
==============================================================================
