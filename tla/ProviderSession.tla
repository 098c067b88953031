-------------------------- MODULE ProviderSession ---------------------------
(***************************************************************************)
(* The web session of the Airtel provider                                  *)
(* (src/src/services/mobilemoney/providers/airtel.ts) on top of its        *)
(* request queue: concurrent calls share one cached session, log in,       *)
(* refresh and retry.  The Orange provider has the same structure.         *)
(*                                                                         *)
(* An entry of the queue is one enqueue() of a call; a call whose entry    *)
(* was rejected because the session expired enqueues itself once more.     *)
(* A session is named by the number of the login that created it: the      *)
(* object is shared by reference, so its expiry is kept apart from who     *)
(* refers to it.  Cookies, tokens and payloads are left out; what the      *)
(* remote side answers is nondeterministic.                                *)
(***************************************************************************)
EXTENDS SessionQueue

CONSTANTS
  Calls,        \* the payments, payouts and queries under way
  First,        \* call -> its first queue entry
  Again,        \* call -> the entry of its one retry
  MaxAttempts,  \* config.maxAttempts
  Ttl,          \* config.sessionTtlMs
  CookieTimes,  \* the times an Expires or Max-Age of a cookie may name
  Skew,         \* config.refreshSkewMs
  MaxLogins     \* bound: how many sessions there may be

ASSUME SessionAssumption ==
  /\ First \in [Calls -> Requests] /\ Again \in [Calls -> Requests]
  /\ \A c, d \in Calls : /\ First[c] # Again[d]
                         /\ c # d => First[c] # First[d] /\ Again[c] # Again[d]
  /\ \A c, d \in Calls : KeyOf[First[c]] = KeyOf[First[d]] /\ KeyOf[Again[c]] = KeyOf[First[d]]
  /\ None \notin Outcomes
  /\ MaxAttempts \in Nat \ {0}
  /\ MaxLogins \in Nat \ {0}
  /\ Ttl \in Nat \ {0}
  /\ CookieTimes \subseteq Nat \ {0}
  /\ Skew \in Nat

VARIABLES
  session,  \* this.session: a login, or 0 for null
  logins,   \* how many sessions there have been
  expiry,   \* login -> session.expiresAt
  dead,     \* history: the sessions the provider answered as expired
  stage,    \* call -> what it does or waits for
  guard,    \* call -> requestWithSessionAndRetry's loop counter
  attempt,  \* call -> performRequestWithSessionAndRetry's loop counter
  mine,     \* call -> the session it is using
  sent      \* history: call -> how often its request went out

queueVars == vars
sessionVars == <<session, logins, expiry, dead>>
callVars == <<stage, guard, attempt, mine, sent>>
providerVars == <<now, queues, pending, chain, locked, phase, expires, outcome, order,
                  cleared, session, logins, expiry, dead, stage, guard, attempt, mine, sent>>

Logins == 1..MaxLogins
Stages == {"new", "queued", "ensure", "refresh", "login", "await", "backoff",
           "return", "throw", "answered", "failed"}

\* The provider is new, or an earlier call left it logged in.
ProviderInit ==
  /\ Init
  /\ \/ session = 0 /\ logins = 0 /\ expiry = [s \in Logins |-> 0]
     \/ /\ session = 1 /\ logins = 1
        /\ expiry = [s \in Logins |-> IF s = 1 THEN Ttl ELSE 0]
  /\ dead = {}
  /\ stage = [c \in Calls |-> "new"]
  /\ guard = [c \in Calls |-> 0]
  /\ attempt = [c \in Calls |-> 0]
  /\ mine = [c \in Calls |-> 0]
  /\ sent = [c \in Calls |-> 0]

Entry(c) == IF guard[c] = 0 THEN First[c] ELSE Again[c]

\* sessionExpiresAt as enqueue() gets it: undefined, here 0, without a session.
Bound(s) == IF s = 0 THEN 0 ELSE expiry[s]

To(c, st) == stage' = [stage EXCEPT ![c] = st]

-----------------------------------------------------------------------------
\* enqueue() of an entry, accepted or refused because the queue is full.
Enqueue(e, until) == Accept(e, until) \/ Overflow(e)

\* requestWithSessionAndRetry() up to its first await.
Call(c) ==
  /\ stage[c] = "new"
  /\ Enqueue(First[c], Bound(session))
  /\ To(c, "queued")
  /\ UNCHANGED <<sessionVars, guard, attempt, mine, sent>>

\* Faulty variant: the retry stays bound to the session that expired.
RequeueBound(c) ==
  /\ stage[c] = "queued"
  /\ guard[c] = 0
  /\ outcome[First[c]] = "timeout"
  /\ session' = 0
  /\ guard' = [guard EXCEPT ![c] = 1]
  /\ Enqueue(Again[c], Bound(session))
  /\ UNCHANGED <<logins, expiry, dead, stage, attempt, mine, sent>>

\* Faulty variant: every error is retried, not only a SessionTimeoutError.
RequeueAnyError(c) ==
  /\ stage[c] = "queued"
  /\ guard[c] = 0
  /\ outcome[First[c]] \in {"timeout", "error"}
  /\ session' = 0
  /\ guard' = [guard EXCEPT ![c] = 1]
  /\ Enqueue(Again[c], Bound(session'))
  /\ UNCHANGED <<logins, expiry, dead, stage, attempt, mine, sent>>

\* The catch block for a SessionTimeoutError: drop the session, enqueue again.
Requeue(c) ==
  /\ stage[c] = "queued"
  /\ guard[c] = 0
  /\ outcome[First[c]] = "timeout"
  /\ session' = 0
  /\ guard' = [guard EXCEPT ![c] = 1]
  /\ Enqueue(Again[c], Bound(session'))
  /\ UNCHANGED <<logins, expiry, dead, stage, attempt, mine, sent>>

\* The call ends with what its entry settled with.
Answer(c) ==
  /\ stage[c] = "queued"
  /\ outcome[Entry(c)] # None
  /\ ~(outcome[Entry(c)] = "timeout" /\ guard[c] = 0)
  /\ To(c, IF outcome[Entry(c)] = "value" THEN "answered" ELSE "failed")
  /\ UNCHANGED <<queueVars, sessionVars, guard, attempt, mine, sent>>

\* The queue runs the call's task.
Begin(c, o) ==
  /\ chain[o] # <<>>
  /\ Head(chain[o]) = Entry(c)
  /\ Start(o)
  /\ To(c, "ensure")
  /\ attempt' = [attempt EXCEPT ![c] = 1]
  /\ UNCHANGED <<sessionVars, guard, mine, sent>>

\* The task settles and the queue moves on.
End(c, o) ==
  /\ stage[c] \in {"return", "throw"}
  /\ chain[o] # <<>>
  /\ Head(chain[o]) = Entry(c)
  /\ Finish(o)
  /\ outcome'[Entry(c)] = (IF stage[c] = "return" THEN "value" ELSE "error")
  /\ To(c, "queued")
  /\ UNCHANGED <<sessionVars, guard, attempt, mine, sent>>

\* An entry is rejected because its session expired while it waited.
QueueExpires(o) == Expire(o) /\ UNCHANGED <<sessionVars, callVars>>

Clock == Tick /\ UNCHANGED <<sessionVars, callVars>>

-----------------------------------------------------------------------------
\* The request goes out with session s.
Send(c, s) ==
  /\ mine' = [mine EXCEPT ![c] = s]
  /\ sent' = [sent EXCEPT ![c] = @ + 1]
  /\ To(c, "await")

\* ensureSession(attempt > 1) finds a session it may use.
Usable(c) == attempt[c] = 1 /\ session # 0 /\ now < expiry[session]

\* ensureSession(): use, refresh or replace the cached session.
UseCached(c) ==
  /\ stage[c] = "ensure"
  /\ Usable(c)
  /\ now + Skew < expiry[session]
  /\ Send(c, session)
  /\ UNCHANGED <<queueVars, sessionVars, guard, attempt>>

BeginRefresh(c) ==
  /\ stage[c] = "ensure"
  /\ Usable(c)
  /\ now + Skew >= expiry[session]
  /\ mine' = [mine EXCEPT ![c] = session]
  /\ To(c, "refresh")
  /\ UNCHANGED <<queueVars, sessionVars, guard, attempt, sent>>

BeginLogin(c) ==
  /\ stage[c] = "ensure"
  /\ ~Usable(c)
  /\ To(c, "login")
  /\ UNCHANGED <<queueVars, sessionVars, guard, attempt, mine, sent>>

\* captureSession() of a session it has: it expires when a cookie says, which may
\* be in the past, and as it did before when no cookie says.
Capture(s) ==
  \E t \in {expiry[s]} \cup CookieTimes : expiry' = [expiry EXCEPT ![s] = t]

\* refreshSession() succeeds: the refreshed session is the cached one, ...
Refreshed(c) ==
  /\ stage[c] = "refresh"
  /\ session' = mine[c]
  /\ Capture(mine[c])
  /\ Send(c, mine[c])
  /\ UNCHANGED <<queueVars, logins, dead, guard, attempt>>

\* ... or fails: the session is dropped and login() runs.
RefreshFails(c) ==
  /\ stage[c] = "refresh"
  /\ session' = 0
  /\ To(c, "login")
  /\ UNCHANGED <<queueVars, logins, expiry, dead, guard, attempt, mine, sent>>

\* login() succeeds: captureSession() makes a session that expires after its time
\* to live or when a cookie says.  Tasks run one at a time, so nobody refers to
\* an earlier session any more and its expiry is forgotten.
LoggedIn(c) ==
  LET s == logins + 1 IN
  /\ stage[c] = "login"
  /\ logins < MaxLogins
  /\ logins' = s
  /\ session' = s
  /\ \E t \in {now + Ttl} \cup CookieTimes :
       expiry' = [q \in Logins |-> IF q = s THEN t ELSE 0]
  /\ Send(c, s)
  /\ UNCHANGED <<queueVars, dead, guard, attempt>>

\* login() throws, outside the try block of the loop.
LoginFails(c) ==
  /\ stage[c] = "login"
  /\ To(c, "throw")
  /\ UNCHANGED <<queueVars, sessionVars, guard, attempt, mine, sent>>

-----------------------------------------------------------------------------
\* A response below 500 that is not about the session: the task's result.
Response(c) ==
  /\ stage[c] = "await"
  /\ Capture(mine[c])
  /\ To(c, "return")
  /\ UNCHANGED <<queueVars, session, logins, dead, guard, attempt, mine, sent>>

\* isSessionExpiredResponse(): drop the session and go round the loop; after
\* the last attempt the response is the result.
SessionRejected(c) ==
  /\ stage[c] = "await"
  /\ dead' = dead \cup {mine[c]}
  /\ session' = 0
  /\ Capture(mine[c])
  /\ IF attempt[c] < MaxAttempts
     THEN To(c, "ensure") /\ attempt' = [attempt EXCEPT ![c] = @ + 1]
     ELSE To(c, "return") /\ UNCHANGED attempt
  /\ UNCHANGED <<queueVars, logins, guard, mine, sent>>

\* A 5xx response: retry after a delay, or return it.
ServerError(c) ==
  /\ stage[c] = "await"
  /\ Capture(mine[c])
  /\ To(c, IF attempt[c] < MaxAttempts THEN "backoff" ELSE "return")
  /\ UNCHANGED <<queueVars, session, logins, dead, guard, attempt, mine, sent>>

\* No response: retry after a delay, or throw.
RequestFails(c) ==
  /\ stage[c] = "await"
  /\ To(c, IF attempt[c] < MaxAttempts THEN "backoff" ELSE "throw")
  /\ UNCHANGED <<queueVars, sessionVars, guard, attempt, mine, sent>>

\* delay() is over.
Delay(c) ==
  /\ stage[c] = "backoff"
  /\ To(c, "ensure")
  /\ attempt' = [attempt EXCEPT ![c] = @ + 1]
  /\ UNCHANGED <<queueVars, sessionVars, guard, mine, sent>>

-----------------------------------------------------------------------------
\* What a call does by itself, and what its HTTP client tells it.
Work(c) ==
  \/ Requeue(c) \/ Answer(c)
  \/ \E o \in Requests : Begin(c, o) \/ End(c, o)
  \/ UseCached(c) \/ BeginRefresh(c) \/ BeginLogin(c)
  \/ Refreshed(c) \/ RefreshFails(c) \/ LoggedIn(c) \/ LoginFails(c)
  \/ Response(c) \/ SessionRejected(c) \/ ServerError(c) \/ RequestFails(c)
  \/ Delay(c)

ProviderNext ==
  \/ \E c \in Calls : Call(c) \/ Work(c)
  \/ \E o \in Requests : QueueExpires(o)
  \/ Clock

\* The event loop runs every continuation, and every HTTP request ends: the
\* client has requestTimeoutMs.
ProviderFairness ==
  /\ \A c \in Calls : WF_providerVars(Work(c))
  /\ \A o \in Requests : WF_providerVars(QueueExpires(o))

ProviderSpec == ProviderInit /\ [][ProviderNext]_providerVars /\ ProviderFairness

-----------------------------------------------------------------------------
\* Every variable of the provider keeps its type.
ProviderTypeOK ==
  /\ session \in Logins \cup {0}
  /\ logins \in 0..MaxLogins
  /\ expiry \in [Logins -> Nat]
  /\ dead \in SUBSET Logins
  /\ stage \in [Calls -> Stages]
  /\ guard \in [Calls -> 0..1]
  /\ attempt \in [Calls -> 0..MaxAttempts]
  /\ mine \in [Calls -> Logins \cup {0}]
  /\ sent \in [Calls -> Nat]

\* "concurrent callers cannot corrupt shared cookie/CSRF state": a session the
\* provider answered as expired is never cached again and never used again,
\* whatever refreshes and logins were under way when the answer came.
RejectedNotReused ==
  /\ session \notin dead
  /\ \A c \in Calls : stage[c] \in {"refresh", "await"} => mine[c] \notin dead

\* "the request is retried once": a session that expires in the queue costs a
\* caller at most one round, the SessionTimeoutError never reaches it.
TimeoutNotSurfaced ==
  \A c \in Calls : stage[c] \in {"answered", "failed"} => outcome[Entry(c)] # "timeout"

\* Queue retry and attempts together never send a request more often than
\* maxAttempts: the queue's retry only follows an entry that never ran.
SentWithinAttempts == \A c \in Calls : sent[c] <= MaxAttempts

\* Every call is answered or fails.
EveryCallEnds ==
  \A c \in Calls : stage[c] = "queued" ~> stage[c] \in {"answered", "failed"}
=============================================================================
