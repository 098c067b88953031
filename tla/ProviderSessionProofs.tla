----------------------- MODULE ProviderSessionProofs ------------------------
(***************************************************************************)
(* Proofs about ProviderSession, for any number of calls, attempts and     *)
(* sessions.  What the queue guarantees is taken from SessionQueueProofs:  *)
(* every step of the provider is a step of the queue or leaves it alone.   *)
(***************************************************************************)
EXTENDS ProviderSession, SessionQueueProofs

\* A call whose task is running.
Tasks == {"ensure", "refresh", "login", "await", "backoff", "return", "throw"}

\* The providers never call clear(), so nothing settles before it is done.
SettledDone ==
  /\ cleared = {}
  /\ \A r \in Requests : outcome[r] # None => phase[r] = "done"

\* A task runs as the queue entry of its call.
TaskRuns == \A c \in Calls : stage[c] \in Tasks => phase[Entry(c)] = "running"

\* The second entry is enqueued after the first is done.
GuardOrder ==
  \A c \in Calls : /\ guard[c] = 0 => phase[Again[c]] = "idle"
                   /\ guard[c] = 1 => phase[First[c]] = "done"

\* The second entry is bound to no session, so it cannot time out.
AgainUnbound ==
  \A c \in Calls : expires[Again[c]] = 0 /\ outcome[Again[c]] # "timeout"

\* A call that ended, ended with its entry's outcome, and not with a timeout.
AnswerFinal ==
  \A c \in Calls : stage[c] \in {"answered", "failed"} =>
    outcome[Entry(c)] \notin {None, "timeout"}

\* Nothing is sent before the task runs, and then once per attempt.
SentCounted ==
  \A c \in Calls :
    /\ phase[Entry(c)] \in {"idle", "chained"} => sent[c] = 0
    /\ guard[c] = 0 /\ outcome[First[c]] = "timeout" => sent[c] = 0
    /\ stage[c] \in {"ensure", "refresh", "login"} => sent[c] < attempt[c]
    /\ stage[c] = "await" => sent[c] <= attempt[c]
    /\ stage[c] = "backoff" => sent[c] <= attempt[c] /\ attempt[c] < MaxAttempts
    /\ sent[c] <= MaxAttempts

\* Only sessions that exist are cached, used or rejected, and a rejected one
\* is neither cached nor in use.
SessionsLive ==
  /\ session \in 0..logins
  /\ dead \in SUBSET (1..logins)
  /\ session \notin dead
  /\ \A c \in Calls : stage[c] \in {"refresh", "await"} =>
       mine[c] \in 1..logins /\ mine[c] \notin dead

ProviderInv ==
  /\ QueueInv
  /\ ProviderTypeOK
  /\ SettledDone
  /\ TaskRuns
  /\ GuardOrder
  /\ AgainUnbound
  /\ AnswerFinal
  /\ SentCounted
  /\ SessionsLive

\* The entries of calls are distinct requests of one key.
LEMMA EntryFacts ==
  ASSUME ProviderTypeOK, NEW c \in Calls
  PROVE  /\ Entry(c) \in Requests /\ First[c] \in Requests /\ Again[c] \in Requests
         /\ \A d \in Calls : /\ First[c] # Again[d]
                             /\ d # c => /\ Entry(d) # Entry(c) /\ First[d] # Entry(c)
                                         /\ Again[d] # Entry(c) /\ First[d] # First[c]
                                         /\ Again[d] # Again[c] /\ Entry(d) # First[c]
                                         /\ Entry(d) # Again[c]
                             /\ KeyOf[Entry(c)] = KeyOf[Entry(d)]
         /\ guard[c] = 0 => Entry(c) = First[c]
         /\ guard[c] = 1 => Entry(c) = Again[c]
         /\ guard[c] \in {0, 1}
  BY SessionAssumption DEF Entry, ProviderTypeOK

\* The queue runs one task at a time.
LEMMA OneTask ==
  ASSUME ProviderInv, NEW c \in Calls, NEW d \in Calls,
         stage[c] \in Tasks, stage[d] \in Tasks
  PROVE  c = d
<1>1. phase[Entry(c)] = "running" /\ phase[Entry(d)] = "running"
  BY DEF ProviderInv, TaskRuns
<1>2. Entry(c) \in Requests /\ Entry(d) \in Requests /\ KeyOf[Entry(c)] = KeyOf[Entry(d)]
  BY EntryFacts DEF ProviderInv
<1>3. Entry(c) = Entry(d)
  BY <1>1, <1>2, RunningAlone DEF ProviderInv, SettledDone
<1>4. QED
  BY <1>3, EntryFacts DEF ProviderInv

\* What a step that leaves the queue alone leaves alone.
LEMMA QueueRests ==
  ASSUME QueueInv, UNCHANGED queueVars
  PROVE  QueueInv' /\ UNCHANGED <<phase, outcome, expires, cleared>>
<1>1. UNCHANGED <<queues, pending, chain, locked, phase, outcome, expires, cleared>>
  BY DEF queueVars, vars
<1>2. TypeOK'
  BY DEF queueVars, vars, QueueInv, TypeOK
<1>3. QED
  BY <1>1, <1>2 DEF QueueInv, MapEntriesKeyed, MapEntriesLive, WorkIsMapped,
                    ChainsAreKeyed, PendingIsRest, ChainedOnce, ChainedIsLive, LockPerObject, Positions

\* The initial state.
LEMMA ProviderInvInit == ProviderInit => ProviderInv
<1> SUFFICES ASSUME ProviderInit PROVE ProviderInv
  OBVIOUS
<1> USE SessionAssumption, QueueAssumption
<1>2. QueueInv
  BY QueueInvInit DEF ProviderInit
<1>3. ProviderTypeOK
  BY DEF ProviderInit, ProviderTypeOK, Logins, Stages
<1>4. SettledDone /\ TaskRuns /\ GuardOrder
  BY DEF ProviderInit, Init, SettledDone, TaskRuns, GuardOrder, Tasks
<1>5. AgainUnbound
  <2>1. \A c \in Calls : Again[c] \in Requests
    OBVIOUS
  <2>2. expires = [r \in Requests |-> 0] /\ outcome = [r \in Requests |-> None]
    BY DEF ProviderInit, Init
  <2>3. QED
    BY <2>1, <2>2 DEF AgainUnbound, Outcomes
<1>6. AnswerFinal /\ SentCounted /\ SessionsLive
  BY DEF ProviderInit, AnswerFinal, SentCounted, SessionsLive
<1>7. QED
  BY <1>2, <1>3, <1>4, <1>5, <1>6 DEF ProviderInv

\* A call ends with the outcome of its entry.
LEMMA AnswerKeeps ==
  ASSUME ProviderInv, NEW c \in Calls, Answer(c)
  PROVE  ProviderInv'
<1> USE SessionAssumption
<1>1. QueueInv' /\ UNCHANGED <<phase, outcome, expires, cleared>>
  BY QueueRests DEF ProviderInv, Answer
<1>2. guard' = guard /\ guard \in [Calls -> 0..1]
  BY DEF Answer, sessionVars, ProviderInv, ProviderTypeOK
<1>3. \A d \in Calls : Entry(d)' = Entry(d)
  BY <1>2 DEF Entry
<1>4. ProviderTypeOK'
  <2>1. ProviderTypeOK /\ SentCounted /\ SessionsLive /\ now + Ttl \in Nat
    BY DEF ProviderInv, QueueInv, TypeOK
  <2>m. stage[c] \in {"refresh", "await"} => mine[c] \in Logins
    BY <2>1 DEF SessionsLive, ProviderTypeOK, Logins
  <2>2. session' \in Logins \cup {0} /\ logins' \in 0..MaxLogins
    BY <2>1 DEF Answer, sessionVars, ProviderTypeOK, SessionsLive, Logins
  <2>3. expiry' \in [Logins -> Nat]
    BY <2>1, <2>m DEF Answer, sessionVars, ProviderTypeOK
  <2>4. dead' \in SUBSET Logins
    BY <2>1, <2>m DEF Answer, sessionVars, ProviderTypeOK
  <2>5. stage' \in [Calls -> Stages]
    BY <2>1 DEF Answer, To, ProviderTypeOK, Stages
  <2>6. guard' \in [Calls -> 0..1] /\ attempt' \in [Calls -> 0..MaxAttempts]
    BY <2>1 DEF Answer, ProviderTypeOK, SentCounted
  <2>7. mine' \in [Calls -> Logins \cup {0}]
    BY <2>1, <2>2 DEF Answer, ProviderTypeOK
  <2>8. sent' \in [Calls -> Nat]
    BY <2>1 DEF Answer, ProviderTypeOK
  <2>9. QED
    BY <2>2, <2>3, <2>4, <2>5, <2>6, <2>7, <2>8 DEF ProviderTypeOK
<1>5. SettledDone' /\ GuardOrder' /\ AgainUnbound'
  BY <1>1, <1>2 DEF ProviderInv, SettledDone, GuardOrder, AgainUnbound
<1>6. TaskRuns'
  BY <1>1, <1>3 DEF Answer, To, ProviderInv, ProviderTypeOK, TaskRuns, Tasks
<1>7. AnswerFinal'
  <2>1. outcome[Entry(c)] \notin {None, "timeout"}
    BY EntryFacts DEF Answer, ProviderInv, AgainUnbound
  <2>2. QED
    BY <1>1, <1>3, <2>1 DEF Answer, To, ProviderInv, ProviderTypeOK, AnswerFinal
<1>8. SentCounted'
  BY <1>1, <1>2, <1>3 DEF Answer, To, sessionVars, ProviderInv, ProviderTypeOK, SentCounted,
         SettledDone, TaskRuns, Tasks, Entry
<1>9. SessionsLive'
  BY OneTask DEF Answer, To, sessionVars, ProviderInv, ProviderTypeOK, SessionsLive, Tasks
<1>10. QED
  BY <1>1, <1>4, <1>5, <1>6, <1>7, <1>8, <1>9 DEF ProviderInv

\* The cached session is used.
LEMMA UseCachedKeeps ==
  ASSUME ProviderInv, NEW c \in Calls, UseCached(c)
  PROVE  ProviderInv'
<1> USE SessionAssumption
<1>1. QueueInv' /\ UNCHANGED <<phase, outcome, expires, cleared>>
  BY QueueRests DEF ProviderInv, UseCached
<1>2. guard' = guard /\ guard \in [Calls -> 0..1]
  BY DEF UseCached, sessionVars, ProviderInv, ProviderTypeOK
<1>3. \A d \in Calls : Entry(d)' = Entry(d)
  BY <1>2 DEF Entry
<1>4. ProviderTypeOK'
  <2>1. ProviderTypeOK /\ SentCounted /\ SessionsLive /\ now + Ttl \in Nat
    BY DEF ProviderInv, QueueInv, TypeOK
  <2>m. stage[c] \in {"refresh", "await"} => mine[c] \in Logins
    BY <2>1 DEF SessionsLive, ProviderTypeOK, Logins
  <2>2. session' \in Logins \cup {0} /\ logins' \in 0..MaxLogins
    BY <2>1 DEF UseCached, sessionVars, ProviderTypeOK, SessionsLive, Logins
  <2>3. expiry' \in [Logins -> Nat]
    BY <2>1, <2>m DEF UseCached, sessionVars, ProviderTypeOK
  <2>4. dead' \in SUBSET Logins
    BY <2>1, <2>m DEF UseCached, sessionVars, ProviderTypeOK
  <2>5. stage' \in [Calls -> Stages]
    BY <2>1 DEF UseCached, Send, Usable, To, ProviderTypeOK, Stages
  <2>6. guard' \in [Calls -> 0..1] /\ attempt' \in [Calls -> 0..MaxAttempts]
    BY <2>1 DEF UseCached, ProviderTypeOK, SentCounted
  <2>7. mine' \in [Calls -> Logins \cup {0}]
    BY <2>1, <2>2 DEF UseCached, Send, ProviderTypeOK
  <2>8. sent' \in [Calls -> Nat]
    BY <2>1 DEF UseCached, Send, ProviderTypeOK
  <2>9. QED
    BY <2>2, <2>3, <2>4, <2>5, <2>6, <2>7, <2>8 DEF ProviderTypeOK
<1>5. SettledDone' /\ GuardOrder' /\ AgainUnbound'
  BY <1>1, <1>2 DEF ProviderInv, SettledDone, GuardOrder, AgainUnbound
<1>6. TaskRuns'
  BY <1>1, <1>3 DEF UseCached, Send, Usable, To, ProviderInv, ProviderTypeOK, TaskRuns,
         Tasks
<1>7. AnswerFinal'
  BY <1>1, <1>3 DEF UseCached, Send, Usable, To, ProviderInv, ProviderTypeOK, AnswerFinal
<1>8. SentCounted'
  <2>1. /\ stage[c] \in {"ensure", "refresh",
         "login"} /\ stage' = [stage EXCEPT ![c] = "await"]
        /\ sent' = [sent EXCEPT ![c] = @ + 1] /\ attempt' = attempt
    BY DEF UseCached, Send, To
  <2>2. /\ sent \in [Calls -> Nat] /\ attempt \in [Calls -> 0..MaxAttempts]
        /\ stage \in [Calls -> Stages] /\ SentCounted
    BY DEF ProviderInv, ProviderTypeOK
  <2>3. sent'[c] \in Nat /\ sent'[c] <= attempt'[c] /\ sent'[c] <= MaxAttempts
    BY <2>1, <2>2 DEF SentCounted
  <2>4. phase[Entry(c)] = "running"
    BY <2>1 DEF ProviderInv, TaskRuns, Tasks
  <2>5. guard[c] = 0 => outcome[First[c]] # "timeout"
    <3>1. guard[c] = 0 => First[c] \in Requests /\ phase[First[c]] = "running"
      BY <2>4, EntryFacts DEF ProviderInv
    <3>2. QED
      BY <3>1, SessionAssumption DEF ProviderInv, SettledDone, Outcomes
  <2>6. ASSUME NEW d \in Calls, d # c
        PROVE  sent'[d] = sent[d] /\ stage'[d] = stage[d] /\ attempt'[d] = attempt[d]
    BY <2>1, <2>2, <2>6
  <2>7. stage'[c] = "await"
    BY <2>1, <2>2
  <2>8. QED
    BY <1>1, <1>2, <1>3, <2>2, <2>3, <2>4, <2>5, <2>6, <2>7 DEF SentCounted
<1>9. SessionsLive'
  BY OneTask DEF UseCached, Send, Usable, To, sessionVars, ProviderInv, ProviderTypeOK,
         SessionsLive, Tasks
<1>10. QED
  BY <1>1, <1>4, <1>5, <1>6, <1>7, <1>8, <1>9 DEF ProviderInv

\* The cached session is refreshed.
LEMMA BeginRefreshKeeps ==
  ASSUME ProviderInv, NEW c \in Calls, BeginRefresh(c)
  PROVE  ProviderInv'
<1> USE SessionAssumption
<1>1. QueueInv' /\ UNCHANGED <<phase, outcome, expires, cleared>>
  BY QueueRests DEF ProviderInv, BeginRefresh
<1>2. guard' = guard /\ guard \in [Calls -> 0..1]
  BY DEF BeginRefresh, sessionVars, ProviderInv, ProviderTypeOK
<1>3. \A d \in Calls : Entry(d)' = Entry(d)
  BY <1>2 DEF Entry
<1>4. ProviderTypeOK'
  <2>1. ProviderTypeOK /\ SentCounted /\ SessionsLive /\ now + Ttl \in Nat
    BY DEF ProviderInv, QueueInv, TypeOK
  <2>m. stage[c] \in {"refresh", "await"} => mine[c] \in Logins
    BY <2>1 DEF SessionsLive, ProviderTypeOK, Logins
  <2>2. session' \in Logins \cup {0} /\ logins' \in 0..MaxLogins
    BY <2>1 DEF BeginRefresh, sessionVars, ProviderTypeOK, SessionsLive, Logins
  <2>3. expiry' \in [Logins -> Nat]
    BY <2>1, <2>m DEF BeginRefresh, sessionVars, ProviderTypeOK
  <2>4. dead' \in SUBSET Logins
    BY <2>1, <2>m DEF BeginRefresh, sessionVars, ProviderTypeOK
  <2>5. stage' \in [Calls -> Stages]
    BY <2>1 DEF BeginRefresh, Usable, To, ProviderTypeOK, Stages
  <2>6. guard' \in [Calls -> 0..1] /\ attempt' \in [Calls -> 0..MaxAttempts]
    BY <2>1 DEF BeginRefresh, ProviderTypeOK, SentCounted
  <2>7. mine' \in [Calls -> Logins \cup {0}]
    BY <2>1, <2>2 DEF BeginRefresh, ProviderTypeOK
  <2>8. sent' \in [Calls -> Nat]
    BY <2>1 DEF BeginRefresh, ProviderTypeOK
  <2>9. QED
    BY <2>2, <2>3, <2>4, <2>5, <2>6, <2>7, <2>8 DEF ProviderTypeOK
<1>5. SettledDone' /\ GuardOrder' /\ AgainUnbound'
  BY <1>1, <1>2 DEF ProviderInv, SettledDone, GuardOrder, AgainUnbound
<1>6. TaskRuns'
  BY <1>1, <1>3 DEF BeginRefresh, Usable, To, ProviderInv, ProviderTypeOK, TaskRuns, Tasks
<1>7. AnswerFinal'
  BY <1>1, <1>3 DEF BeginRefresh, Usable, To, ProviderInv, ProviderTypeOK, AnswerFinal
<1>8. SentCounted'
  BY <1>1, <1>2, <1>3 DEF BeginRefresh, Usable, To, sessionVars, ProviderInv,
         ProviderTypeOK, SentCounted,
         SettledDone, TaskRuns, Tasks, Entry
<1>9. SessionsLive'
  BY OneTask DEF BeginRefresh, Usable, To, sessionVars, ProviderInv, ProviderTypeOK,
         SessionsLive, Tasks
<1>10. QED
  BY <1>1, <1>4, <1>5, <1>6, <1>7, <1>8, <1>9 DEF ProviderInv

\* A login begins.
LEMMA BeginLoginKeeps ==
  ASSUME ProviderInv, NEW c \in Calls, BeginLogin(c)
  PROVE  ProviderInv'
<1> USE SessionAssumption
<1>1. QueueInv' /\ UNCHANGED <<phase, outcome, expires, cleared>>
  BY QueueRests DEF ProviderInv, BeginLogin
<1>2. guard' = guard /\ guard \in [Calls -> 0..1]
  BY DEF BeginLogin, sessionVars, ProviderInv, ProviderTypeOK
<1>3. \A d \in Calls : Entry(d)' = Entry(d)
  BY <1>2 DEF Entry
<1>4. ProviderTypeOK'
  <2>1. ProviderTypeOK /\ SentCounted /\ SessionsLive /\ now + Ttl \in Nat
    BY DEF ProviderInv, QueueInv, TypeOK
  <2>m. stage[c] \in {"refresh", "await"} => mine[c] \in Logins
    BY <2>1 DEF SessionsLive, ProviderTypeOK, Logins
  <2>2. session' \in Logins \cup {0} /\ logins' \in 0..MaxLogins
    BY <2>1 DEF BeginLogin, sessionVars, ProviderTypeOK, SessionsLive, Logins
  <2>3. expiry' \in [Logins -> Nat]
    BY <2>1, <2>m DEF BeginLogin, sessionVars, ProviderTypeOK
  <2>4. dead' \in SUBSET Logins
    BY <2>1, <2>m DEF BeginLogin, sessionVars, ProviderTypeOK
  <2>5. stage' \in [Calls -> Stages]
    BY <2>1 DEF BeginLogin, To, ProviderTypeOK, Stages
  <2>6. guard' \in [Calls -> 0..1] /\ attempt' \in [Calls -> 0..MaxAttempts]
    BY <2>1 DEF BeginLogin, ProviderTypeOK, SentCounted
  <2>7. mine' \in [Calls -> Logins \cup {0}]
    BY <2>1, <2>2 DEF BeginLogin, ProviderTypeOK
  <2>8. sent' \in [Calls -> Nat]
    BY <2>1 DEF BeginLogin, ProviderTypeOK
  <2>9. QED
    BY <2>2, <2>3, <2>4, <2>5, <2>6, <2>7, <2>8 DEF ProviderTypeOK
<1>5. SettledDone' /\ GuardOrder' /\ AgainUnbound'
  BY <1>1, <1>2 DEF ProviderInv, SettledDone, GuardOrder, AgainUnbound
<1>6. TaskRuns'
  BY <1>1, <1>3 DEF BeginLogin, To, ProviderInv, ProviderTypeOK, TaskRuns, Tasks
<1>7. AnswerFinal'
  BY <1>1, <1>3 DEF BeginLogin, To, ProviderInv, ProviderTypeOK, AnswerFinal
<1>8. SentCounted'
  BY <1>1, <1>2, <1>3 DEF BeginLogin, To, sessionVars, ProviderInv, ProviderTypeOK,
         SentCounted,
         SettledDone, TaskRuns, Tasks, Entry
<1>9. SessionsLive'
  BY OneTask DEF BeginLogin, To, sessionVars, ProviderInv, ProviderTypeOK, SessionsLive,
         Tasks
<1>10. QED
  BY <1>1, <1>4, <1>5, <1>6, <1>7, <1>8, <1>9 DEF ProviderInv

\* The refreshed session was not rejected meanwhile: no other task runs.
LEMMA RefreshedKeeps ==
  ASSUME ProviderInv, NEW c \in Calls, Refreshed(c)
  PROVE  ProviderInv'
<1> USE SessionAssumption
<1>1. QueueInv' /\ UNCHANGED <<phase, outcome, expires, cleared>>
  BY QueueRests DEF ProviderInv, Refreshed
<1>2. guard' = guard /\ guard \in [Calls -> 0..1]
  BY DEF Refreshed, sessionVars, ProviderInv, ProviderTypeOK
<1>3. \A d \in Calls : Entry(d)' = Entry(d)
  BY <1>2 DEF Entry
<1>4. ProviderTypeOK'
  <2>1. ProviderTypeOK /\ SentCounted /\ SessionsLive /\ now + Ttl \in Nat
    BY DEF ProviderInv, QueueInv, TypeOK
  <2>m. stage[c] \in {"refresh", "await"} => mine[c] \in Logins
    BY <2>1 DEF SessionsLive, ProviderTypeOK, Logins
  <2>2. session' \in Logins \cup {0} /\ logins' \in 0..MaxLogins
    BY <2>1 DEF Refreshed, sessionVars, ProviderTypeOK, SessionsLive, Logins
  <2>3. expiry' \in [Logins -> Nat]
    BY <2>1, <2>m DEF Refreshed, Capture, sessionVars, ProviderTypeOK
  <2>4. dead' \in SUBSET Logins
    BY <2>1, <2>m DEF Refreshed, sessionVars, ProviderTypeOK
  <2>5. stage' \in [Calls -> Stages]
    BY <2>1 DEF Refreshed, Send, Capture, To, ProviderTypeOK, Stages
  <2>6. guard' \in [Calls -> 0..1] /\ attempt' \in [Calls -> 0..MaxAttempts]
    BY <2>1 DEF Refreshed, ProviderTypeOK, SentCounted
  <2>7. mine' \in [Calls -> Logins \cup {0}]
    BY <2>1, <2>2 DEF Refreshed, Send, ProviderTypeOK
  <2>8. sent' \in [Calls -> Nat]
    BY <2>1 DEF Refreshed, Send, ProviderTypeOK
  <2>9. QED
    BY <2>2, <2>3, <2>4, <2>5, <2>6, <2>7, <2>8 DEF ProviderTypeOK
<1>5. SettledDone' /\ GuardOrder' /\ AgainUnbound'
  BY <1>1, <1>2 DEF ProviderInv, SettledDone, GuardOrder, AgainUnbound
<1>6. TaskRuns'
  BY <1>1, <1>3 DEF Refreshed, Send, Capture, To, ProviderInv, ProviderTypeOK, TaskRuns,
         Tasks
<1>7. AnswerFinal'
  BY <1>1, <1>3 DEF Refreshed, Send, Capture, To, ProviderInv, ProviderTypeOK, AnswerFinal
<1>8. SentCounted'
  <2>1. /\ stage[c] \in {"ensure", "refresh",
         "login"} /\ stage' = [stage EXCEPT ![c] = "await"]
        /\ sent' = [sent EXCEPT ![c] = @ + 1] /\ attempt' = attempt
    BY DEF Refreshed, Send, To
  <2>2. /\ sent \in [Calls -> Nat] /\ attempt \in [Calls -> 0..MaxAttempts]
        /\ stage \in [Calls -> Stages] /\ SentCounted
    BY DEF ProviderInv, ProviderTypeOK
  <2>3. sent'[c] \in Nat /\ sent'[c] <= attempt'[c] /\ sent'[c] <= MaxAttempts
    BY <2>1, <2>2 DEF SentCounted
  <2>4. phase[Entry(c)] = "running"
    BY <2>1 DEF ProviderInv, TaskRuns, Tasks
  <2>5. guard[c] = 0 => outcome[First[c]] # "timeout"
    <3>1. guard[c] = 0 => First[c] \in Requests /\ phase[First[c]] = "running"
      BY <2>4, EntryFacts DEF ProviderInv
    <3>2. QED
      BY <3>1, SessionAssumption DEF ProviderInv, SettledDone, Outcomes
  <2>6. ASSUME NEW d \in Calls, d # c
        PROVE  sent'[d] = sent[d] /\ stage'[d] = stage[d] /\ attempt'[d] = attempt[d]
    BY <2>1, <2>2, <2>6
  <2>7. stage'[c] = "await"
    BY <2>1, <2>2
  <2>8. QED
    BY <1>1, <1>2, <1>3, <2>2, <2>3, <2>4, <2>5, <2>6, <2>7 DEF SentCounted
<1>9. SessionsLive'
  BY OneTask DEF Refreshed, Send, Capture, To, sessionVars, ProviderInv, ProviderTypeOK,
         SessionsLive, Tasks
<1>10. QED
  BY <1>1, <1>4, <1>5, <1>6, <1>7, <1>8, <1>9 DEF ProviderInv

\* A failed refresh drops the session.
LEMMA RefreshFailsKeeps ==
  ASSUME ProviderInv, NEW c \in Calls, RefreshFails(c)
  PROVE  ProviderInv'
<1> USE SessionAssumption
<1>1. QueueInv' /\ UNCHANGED <<phase, outcome, expires, cleared>>
  BY QueueRests DEF ProviderInv, RefreshFails
<1>2. guard' = guard /\ guard \in [Calls -> 0..1]
  BY DEF RefreshFails, sessionVars, ProviderInv, ProviderTypeOK
<1>3. \A d \in Calls : Entry(d)' = Entry(d)
  BY <1>2 DEF Entry
<1>4. ProviderTypeOK'
  <2>1. ProviderTypeOK /\ SentCounted /\ SessionsLive /\ now + Ttl \in Nat
    BY DEF ProviderInv, QueueInv, TypeOK
  <2>m. stage[c] \in {"refresh", "await"} => mine[c] \in Logins
    BY <2>1 DEF SessionsLive, ProviderTypeOK, Logins
  <2>2. session' \in Logins \cup {0} /\ logins' \in 0..MaxLogins
    BY <2>1 DEF RefreshFails, sessionVars, ProviderTypeOK, SessionsLive, Logins
  <2>3. expiry' \in [Logins -> Nat]
    BY <2>1, <2>m DEF RefreshFails, sessionVars, ProviderTypeOK
  <2>4. dead' \in SUBSET Logins
    BY <2>1, <2>m DEF RefreshFails, sessionVars, ProviderTypeOK
  <2>5. stage' \in [Calls -> Stages]
    BY <2>1 DEF RefreshFails, To, ProviderTypeOK, Stages
  <2>6. guard' \in [Calls -> 0..1] /\ attempt' \in [Calls -> 0..MaxAttempts]
    BY <2>1 DEF RefreshFails, ProviderTypeOK, SentCounted
  <2>7. mine' \in [Calls -> Logins \cup {0}]
    BY <2>1, <2>2 DEF RefreshFails, ProviderTypeOK
  <2>8. sent' \in [Calls -> Nat]
    BY <2>1 DEF RefreshFails, ProviderTypeOK
  <2>9. QED
    BY <2>2, <2>3, <2>4, <2>5, <2>6, <2>7, <2>8 DEF ProviderTypeOK
<1>5. SettledDone' /\ GuardOrder' /\ AgainUnbound'
  BY <1>1, <1>2 DEF ProviderInv, SettledDone, GuardOrder, AgainUnbound
<1>6. TaskRuns'
  BY <1>1, <1>3 DEF RefreshFails, To, ProviderInv, ProviderTypeOK, TaskRuns, Tasks
<1>7. AnswerFinal'
  BY <1>1, <1>3 DEF RefreshFails, To, ProviderInv, ProviderTypeOK, AnswerFinal
<1>8. SentCounted'
  BY <1>1, <1>2, <1>3 DEF RefreshFails, To, sessionVars, ProviderInv, ProviderTypeOK,
         SentCounted,
         SettledDone, TaskRuns, Tasks, Entry
<1>9. SessionsLive'
  BY OneTask DEF RefreshFails, To, sessionVars, ProviderInv, ProviderTypeOK,
         SessionsLive, Tasks
<1>10. QED
  BY <1>1, <1>4, <1>5, <1>6, <1>7, <1>8, <1>9 DEF ProviderInv

\* A new session has never been rejected.
LEMMA LoggedInKeeps ==
  ASSUME ProviderInv, NEW c \in Calls, LoggedIn(c)
  PROVE  ProviderInv'
<1> USE SessionAssumption
<1>1. QueueInv' /\ UNCHANGED <<phase, outcome, expires, cleared>>
  BY QueueRests DEF ProviderInv, LoggedIn
<1>2. guard' = guard /\ guard \in [Calls -> 0..1]
  BY DEF LoggedIn, sessionVars, ProviderInv, ProviderTypeOK
<1>3. \A d \in Calls : Entry(d)' = Entry(d)
  BY <1>2 DEF Entry
<1>4. ProviderTypeOK'
  <2>1. ProviderTypeOK /\ SentCounted /\ SessionsLive /\ now + Ttl \in Nat
    BY DEF ProviderInv, QueueInv, TypeOK
  <2>m. stage[c] \in {"refresh", "await"} => mine[c] \in Logins
    BY <2>1 DEF SessionsLive, ProviderTypeOK, Logins
  <2>2. session' \in Logins \cup {0} /\ logins' \in 0..MaxLogins
    BY <2>1 DEF LoggedIn, sessionVars, ProviderTypeOK, SessionsLive, Logins
  <2>3. expiry' \in [Logins -> Nat]
    BY <2>1, <2>m DEF LoggedIn, sessionVars, ProviderTypeOK
  <2>4. dead' \in SUBSET Logins
    BY <2>1, <2>m DEF LoggedIn, sessionVars, ProviderTypeOK
  <2>5. stage' \in [Calls -> Stages]
    BY <2>1 DEF LoggedIn, Send, To, ProviderTypeOK, Stages
  <2>6. guard' \in [Calls -> 0..1] /\ attempt' \in [Calls -> 0..MaxAttempts]
    BY <2>1 DEF LoggedIn, ProviderTypeOK, SentCounted
  <2>7. mine' \in [Calls -> Logins \cup {0}]
    BY <2>1, <2>2 DEF LoggedIn, Send, ProviderTypeOK
  <2>8. sent' \in [Calls -> Nat]
    BY <2>1 DEF LoggedIn, Send, ProviderTypeOK
  <2>9. QED
    BY <2>2, <2>3, <2>4, <2>5, <2>6, <2>7, <2>8 DEF ProviderTypeOK
<1>5. SettledDone' /\ GuardOrder' /\ AgainUnbound'
  BY <1>1, <1>2 DEF ProviderInv, SettledDone, GuardOrder, AgainUnbound
<1>6. TaskRuns'
  BY <1>1, <1>3 DEF LoggedIn, Send, To, ProviderInv, ProviderTypeOK, TaskRuns, Tasks
<1>7. AnswerFinal'
  BY <1>1, <1>3 DEF LoggedIn, Send, To, ProviderInv, ProviderTypeOK, AnswerFinal
<1>8. SentCounted'
  <2>1. /\ stage[c] \in {"ensure", "refresh",
         "login"} /\ stage' = [stage EXCEPT ![c] = "await"]
        /\ sent' = [sent EXCEPT ![c] = @ + 1] /\ attempt' = attempt
    BY DEF LoggedIn, Send, To
  <2>2. /\ sent \in [Calls -> Nat] /\ attempt \in [Calls -> 0..MaxAttempts]
        /\ stage \in [Calls -> Stages] /\ SentCounted
    BY DEF ProviderInv, ProviderTypeOK
  <2>3. sent'[c] \in Nat /\ sent'[c] <= attempt'[c] /\ sent'[c] <= MaxAttempts
    BY <2>1, <2>2 DEF SentCounted
  <2>4. phase[Entry(c)] = "running"
    BY <2>1 DEF ProviderInv, TaskRuns, Tasks
  <2>5. guard[c] = 0 => outcome[First[c]] # "timeout"
    <3>1. guard[c] = 0 => First[c] \in Requests /\ phase[First[c]] = "running"
      BY <2>4, EntryFacts DEF ProviderInv
    <3>2. QED
      BY <3>1, SessionAssumption DEF ProviderInv, SettledDone, Outcomes
  <2>6. ASSUME NEW d \in Calls, d # c
        PROVE  sent'[d] = sent[d] /\ stage'[d] = stage[d] /\ attempt'[d] = attempt[d]
    BY <2>1, <2>2, <2>6
  <2>7. stage'[c] = "await"
    BY <2>1, <2>2
  <2>8. QED
    BY <1>1, <1>2, <1>3, <2>2, <2>3, <2>4, <2>5, <2>6, <2>7 DEF SentCounted
<1>9. SessionsLive'
  BY OneTask DEF LoggedIn, Send, To, sessionVars, ProviderInv, ProviderTypeOK,
         SessionsLive, Tasks
<1>10. QED
  BY <1>1, <1>4, <1>5, <1>6, <1>7, <1>8, <1>9 DEF ProviderInv

\* A failed login ends the task.
LEMMA LoginFailsKeeps ==
  ASSUME ProviderInv, NEW c \in Calls, LoginFails(c)
  PROVE  ProviderInv'
<1> USE SessionAssumption
<1>1. QueueInv' /\ UNCHANGED <<phase, outcome, expires, cleared>>
  BY QueueRests DEF ProviderInv, LoginFails
<1>2. guard' = guard /\ guard \in [Calls -> 0..1]
  BY DEF LoginFails, sessionVars, ProviderInv, ProviderTypeOK
<1>3. \A d \in Calls : Entry(d)' = Entry(d)
  BY <1>2 DEF Entry
<1>4. ProviderTypeOK'
  <2>1. ProviderTypeOK /\ SentCounted /\ SessionsLive /\ now + Ttl \in Nat
    BY DEF ProviderInv, QueueInv, TypeOK
  <2>m. stage[c] \in {"refresh", "await"} => mine[c] \in Logins
    BY <2>1 DEF SessionsLive, ProviderTypeOK, Logins
  <2>2. session' \in Logins \cup {0} /\ logins' \in 0..MaxLogins
    BY <2>1 DEF LoginFails, sessionVars, ProviderTypeOK, SessionsLive, Logins
  <2>3. expiry' \in [Logins -> Nat]
    BY <2>1, <2>m DEF LoginFails, sessionVars, ProviderTypeOK
  <2>4. dead' \in SUBSET Logins
    BY <2>1, <2>m DEF LoginFails, sessionVars, ProviderTypeOK
  <2>5. stage' \in [Calls -> Stages]
    BY <2>1 DEF LoginFails, To, ProviderTypeOK, Stages
  <2>6. guard' \in [Calls -> 0..1] /\ attempt' \in [Calls -> 0..MaxAttempts]
    BY <2>1 DEF LoginFails, ProviderTypeOK, SentCounted
  <2>7. mine' \in [Calls -> Logins \cup {0}]
    BY <2>1, <2>2 DEF LoginFails, ProviderTypeOK
  <2>8. sent' \in [Calls -> Nat]
    BY <2>1 DEF LoginFails, ProviderTypeOK
  <2>9. QED
    BY <2>2, <2>3, <2>4, <2>5, <2>6, <2>7, <2>8 DEF ProviderTypeOK
<1>5. SettledDone' /\ GuardOrder' /\ AgainUnbound'
  BY <1>1, <1>2 DEF ProviderInv, SettledDone, GuardOrder, AgainUnbound
<1>6. TaskRuns'
  BY <1>1, <1>3 DEF LoginFails, To, ProviderInv, ProviderTypeOK, TaskRuns, Tasks
<1>7. AnswerFinal'
  BY <1>1, <1>3 DEF LoginFails, To, ProviderInv, ProviderTypeOK, AnswerFinal
<1>8. SentCounted'
  BY <1>1, <1>2, <1>3 DEF LoginFails, To, sessionVars, ProviderInv, ProviderTypeOK,
         SentCounted,
         SettledDone, TaskRuns, Tasks, Entry
<1>9. SessionsLive'
  BY OneTask DEF LoginFails, To, sessionVars, ProviderInv, ProviderTypeOK, SessionsLive,
         Tasks
<1>10. QED
  BY <1>1, <1>4, <1>5, <1>6, <1>7, <1>8, <1>9 DEF ProviderInv

\* A response ends the task.
LEMMA ResponseKeeps ==
  ASSUME ProviderInv, NEW c \in Calls, Response(c)
  PROVE  ProviderInv'
<1> USE SessionAssumption
<1>1. QueueInv' /\ UNCHANGED <<phase, outcome, expires, cleared>>
  BY QueueRests DEF ProviderInv, Response
<1>2. guard' = guard /\ guard \in [Calls -> 0..1]
  BY DEF Response, sessionVars, ProviderInv, ProviderTypeOK
<1>3. \A d \in Calls : Entry(d)' = Entry(d)
  BY <1>2 DEF Entry
<1>4. ProviderTypeOK'
  <2>1. ProviderTypeOK /\ SentCounted /\ SessionsLive /\ now + Ttl \in Nat
    BY DEF ProviderInv, QueueInv, TypeOK
  <2>m. stage[c] \in {"refresh", "await"} => mine[c] \in Logins
    BY <2>1 DEF SessionsLive, ProviderTypeOK, Logins
  <2>2. session' \in Logins \cup {0} /\ logins' \in 0..MaxLogins
    BY <2>1 DEF Response, sessionVars, ProviderTypeOK, SessionsLive, Logins
  <2>3. expiry' \in [Logins -> Nat]
    BY <2>1, <2>m DEF Response, Capture, sessionVars, ProviderTypeOK
  <2>4. dead' \in SUBSET Logins
    BY <2>1, <2>m DEF Response, sessionVars, ProviderTypeOK
  <2>5. stage' \in [Calls -> Stages]
    BY <2>1 DEF Response, Capture, To, ProviderTypeOK, Stages
  <2>6. guard' \in [Calls -> 0..1] /\ attempt' \in [Calls -> 0..MaxAttempts]
    BY <2>1 DEF Response, ProviderTypeOK, SentCounted
  <2>7. mine' \in [Calls -> Logins \cup {0}]
    BY <2>1, <2>2 DEF Response, ProviderTypeOK
  <2>8. sent' \in [Calls -> Nat]
    BY <2>1 DEF Response, ProviderTypeOK
  <2>9. QED
    BY <2>2, <2>3, <2>4, <2>5, <2>6, <2>7, <2>8 DEF ProviderTypeOK
<1>5. SettledDone' /\ GuardOrder' /\ AgainUnbound'
  BY <1>1, <1>2 DEF ProviderInv, SettledDone, GuardOrder, AgainUnbound
<1>6. TaskRuns'
  BY <1>1, <1>3 DEF Response, Capture, To, ProviderInv, ProviderTypeOK, TaskRuns, Tasks
<1>7. AnswerFinal'
  BY <1>1, <1>3 DEF Response, Capture, To, ProviderInv, ProviderTypeOK, AnswerFinal
<1>8. SentCounted'
  BY <1>1, <1>2, <1>3 DEF Response, Capture, To, sessionVars, ProviderInv,
         ProviderTypeOK, SentCounted,
         SettledDone, TaskRuns, Tasks, Entry
<1>9. SessionsLive'
  BY OneTask DEF Response, Capture, To, sessionVars, ProviderInv, ProviderTypeOK,
         SessionsLive, Tasks
<1>10. QED
  BY <1>1, <1>4, <1>5, <1>6, <1>7, <1>8, <1>9 DEF ProviderInv

\* No other task uses the session that is rejected.
LEMMA SessionRejectedKeeps ==
  ASSUME ProviderInv, NEW c \in Calls, SessionRejected(c)
  PROVE  ProviderInv'
<1> USE SessionAssumption
<1>1. QueueInv' /\ UNCHANGED <<phase, outcome, expires, cleared>>
  BY QueueRests DEF ProviderInv, SessionRejected
<1>2. guard' = guard /\ guard \in [Calls -> 0..1]
  BY DEF SessionRejected, sessionVars, ProviderInv, ProviderTypeOK
<1>3. \A d \in Calls : Entry(d)' = Entry(d)
  BY <1>2 DEF Entry
<1>4. ProviderTypeOK'
  <2>1. ProviderTypeOK /\ SentCounted /\ SessionsLive /\ now + Ttl \in Nat
    BY DEF ProviderInv, QueueInv, TypeOK
  <2>m. stage[c] \in {"refresh", "await"} => mine[c] \in Logins
    BY <2>1 DEF SessionsLive, ProviderTypeOK, Logins
  <2>2. session' \in Logins \cup {0} /\ logins' \in 0..MaxLogins
    BY <2>1 DEF SessionRejected, sessionVars, ProviderTypeOK, SessionsLive, Logins
  <2>3. expiry' \in [Logins -> Nat]
    BY <2>1, <2>m DEF SessionRejected, Capture, sessionVars, ProviderTypeOK
  <2>4. dead' \in SUBSET Logins
    BY <2>1, <2>m DEF SessionRejected, sessionVars, ProviderTypeOK
  <2>5. stage' \in [Calls -> Stages]
    BY <2>1 DEF SessionRejected, Capture, To, ProviderTypeOK, Stages
  <2>6. guard' \in [Calls -> 0..1] /\ attempt' \in [Calls -> 0..MaxAttempts]
    BY <2>1 DEF SessionRejected, ProviderTypeOK, SentCounted
  <2>7. mine' \in [Calls -> Logins \cup {0}]
    BY <2>1, <2>2 DEF SessionRejected, ProviderTypeOK
  <2>8. sent' \in [Calls -> Nat]
    BY <2>1 DEF SessionRejected, ProviderTypeOK
  <2>9. QED
    BY <2>2, <2>3, <2>4, <2>5, <2>6, <2>7, <2>8 DEF ProviderTypeOK
<1>5. SettledDone' /\ GuardOrder' /\ AgainUnbound'
  BY <1>1, <1>2 DEF ProviderInv, SettledDone, GuardOrder, AgainUnbound
<1>6. TaskRuns'
  BY <1>1, <1>3 DEF SessionRejected, Capture, To, ProviderInv, ProviderTypeOK, TaskRuns,
         Tasks
<1>7. AnswerFinal'
  BY <1>1, <1>3 DEF SessionRejected, Capture, To, ProviderInv, ProviderTypeOK, AnswerFinal
<1>8. SentCounted'
  BY <1>1, <1>2, <1>3 DEF SessionRejected, Capture, To, sessionVars, ProviderInv,
         ProviderTypeOK, SentCounted,
         SettledDone, TaskRuns, Tasks, Entry
<1>9. SessionsLive'
  <2>1. mine[c] \in 1..logins /\ dead \in SUBSET (1..logins) /\ logins \in Nat
    BY DEF SessionRejected, ProviderInv, ProviderTypeOK, SessionsLive
  <2>2. dead' = dead \cup {mine[c]} /\ session' = 0 /\ UNCHANGED <<logins, mine>>
    BY DEF SessionRejected
  <2>3. ASSUME NEW d \in Calls PROVE stage'[d] \notin {"refresh", "await"}
    <3>1. CASE d = c
      BY <3>1 DEF SessionRejected, To, ProviderInv, ProviderTypeOK
    <3>2. CASE d # c
      <4>1. stage'[d] = stage[d] /\ stage[c] = "await"
        BY <3>2 DEF SessionRejected, To, ProviderInv, ProviderTypeOK
      <4>2. stage[d] \notin Tasks
        BY <3>2, <4>1, OneTask DEF Tasks
      <4>3. QED
        BY <4>1, <4>2 DEF Tasks
    <3>3. QED
      BY <3>1, <3>2
  <2>4. session' \in 0..logins' /\ session' \notin dead' /\ dead' \in SUBSET (1..logins')
    <3>1. session' = 0 /\ logins' = logins /\ 0 \in 0..logins
      BY <2>1, <2>2
    <3>2. 0 \notin 1..logins
      BY <2>1
    <3>3. \A x \in dead' : x \in 1..logins
      BY <2>1, <2>2
    <3>4. QED
      BY <3>1, <3>2, <3>3
  <2>5. QED
    BY <2>3, <2>4 DEF SessionsLive
<1>10. QED
  BY <1>1, <1>4, <1>5, <1>6, <1>7, <1>8, <1>9 DEF ProviderInv

\* A 5xx response is retried or returned.
LEMMA ServerErrorKeeps ==
  ASSUME ProviderInv, NEW c \in Calls, ServerError(c)
  PROVE  ProviderInv'
<1> USE SessionAssumption
<1>1. QueueInv' /\ UNCHANGED <<phase, outcome, expires, cleared>>
  BY QueueRests DEF ProviderInv, ServerError
<1>2. guard' = guard /\ guard \in [Calls -> 0..1]
  BY DEF ServerError, sessionVars, ProviderInv, ProviderTypeOK
<1>3. \A d \in Calls : Entry(d)' = Entry(d)
  BY <1>2 DEF Entry
<1>4. ProviderTypeOK'
  <2>1. ProviderTypeOK /\ SentCounted /\ SessionsLive /\ now + Ttl \in Nat
    BY DEF ProviderInv, QueueInv, TypeOK
  <2>m. stage[c] \in {"refresh", "await"} => mine[c] \in Logins
    BY <2>1 DEF SessionsLive, ProviderTypeOK, Logins
  <2>2. session' \in Logins \cup {0} /\ logins' \in 0..MaxLogins
    BY <2>1 DEF ServerError, sessionVars, ProviderTypeOK, SessionsLive, Logins
  <2>3. expiry' \in [Logins -> Nat]
    BY <2>1, <2>m DEF ServerError, Capture, sessionVars, ProviderTypeOK
  <2>4. dead' \in SUBSET Logins
    BY <2>1, <2>m DEF ServerError, sessionVars, ProviderTypeOK
  <2>5. stage' \in [Calls -> Stages]
    BY <2>1 DEF ServerError, Capture, To, ProviderTypeOK, Stages
  <2>6. guard' \in [Calls -> 0..1] /\ attempt' \in [Calls -> 0..MaxAttempts]
    BY <2>1 DEF ServerError, ProviderTypeOK, SentCounted
  <2>7. mine' \in [Calls -> Logins \cup {0}]
    BY <2>1, <2>2 DEF ServerError, ProviderTypeOK
  <2>8. sent' \in [Calls -> Nat]
    BY <2>1 DEF ServerError, ProviderTypeOK
  <2>9. QED
    BY <2>2, <2>3, <2>4, <2>5, <2>6, <2>7, <2>8 DEF ProviderTypeOK
<1>5. SettledDone' /\ GuardOrder' /\ AgainUnbound'
  BY <1>1, <1>2 DEF ProviderInv, SettledDone, GuardOrder, AgainUnbound
<1>6. TaskRuns'
  BY <1>1, <1>3 DEF ServerError, Capture, To, ProviderInv, ProviderTypeOK, TaskRuns, Tasks
<1>7. AnswerFinal'
  BY <1>1, <1>3 DEF ServerError, Capture, To, ProviderInv, ProviderTypeOK, AnswerFinal
<1>8. SentCounted'
  BY <1>1, <1>2, <1>3 DEF ServerError, Capture, To, sessionVars, ProviderInv,
         ProviderTypeOK, SentCounted,
         SettledDone, TaskRuns, Tasks, Entry
<1>9. SessionsLive'
  BY OneTask DEF ServerError, Capture, To, sessionVars, ProviderInv, ProviderTypeOK,
         SessionsLive, Tasks
<1>10. QED
  BY <1>1, <1>4, <1>5, <1>6, <1>7, <1>8, <1>9 DEF ProviderInv

\* A request without response is retried or thrown.
LEMMA RequestFailsKeeps ==
  ASSUME ProviderInv, NEW c \in Calls, RequestFails(c)
  PROVE  ProviderInv'
<1> USE SessionAssumption
<1>1. QueueInv' /\ UNCHANGED <<phase, outcome, expires, cleared>>
  BY QueueRests DEF ProviderInv, RequestFails
<1>2. guard' = guard /\ guard \in [Calls -> 0..1]
  BY DEF RequestFails, sessionVars, ProviderInv, ProviderTypeOK
<1>3. \A d \in Calls : Entry(d)' = Entry(d)
  BY <1>2 DEF Entry
<1>4. ProviderTypeOK'
  <2>1. ProviderTypeOK /\ SentCounted /\ SessionsLive /\ now + Ttl \in Nat
    BY DEF ProviderInv, QueueInv, TypeOK
  <2>m. stage[c] \in {"refresh", "await"} => mine[c] \in Logins
    BY <2>1 DEF SessionsLive, ProviderTypeOK, Logins
  <2>2. session' \in Logins \cup {0} /\ logins' \in 0..MaxLogins
    BY <2>1 DEF RequestFails, sessionVars, ProviderTypeOK, SessionsLive, Logins
  <2>3. expiry' \in [Logins -> Nat]
    BY <2>1, <2>m DEF RequestFails, sessionVars, ProviderTypeOK
  <2>4. dead' \in SUBSET Logins
    BY <2>1, <2>m DEF RequestFails, sessionVars, ProviderTypeOK
  <2>5. stage' \in [Calls -> Stages]
    BY <2>1 DEF RequestFails, To, ProviderTypeOK, Stages
  <2>6. guard' \in [Calls -> 0..1] /\ attempt' \in [Calls -> 0..MaxAttempts]
    BY <2>1 DEF RequestFails, ProviderTypeOK, SentCounted
  <2>7. mine' \in [Calls -> Logins \cup {0}]
    BY <2>1, <2>2 DEF RequestFails, ProviderTypeOK
  <2>8. sent' \in [Calls -> Nat]
    BY <2>1 DEF RequestFails, ProviderTypeOK
  <2>9. QED
    BY <2>2, <2>3, <2>4, <2>5, <2>6, <2>7, <2>8 DEF ProviderTypeOK
<1>5. SettledDone' /\ GuardOrder' /\ AgainUnbound'
  BY <1>1, <1>2 DEF ProviderInv, SettledDone, GuardOrder, AgainUnbound
<1>6. TaskRuns'
  BY <1>1, <1>3 DEF RequestFails, To, ProviderInv, ProviderTypeOK, TaskRuns, Tasks
<1>7. AnswerFinal'
  BY <1>1, <1>3 DEF RequestFails, To, ProviderInv, ProviderTypeOK, AnswerFinal
<1>8. SentCounted'
  BY <1>1, <1>2, <1>3 DEF RequestFails, To, sessionVars, ProviderInv, ProviderTypeOK,
         SentCounted,
         SettledDone, TaskRuns, Tasks, Entry
<1>9. SessionsLive'
  BY OneTask DEF RequestFails, To, sessionVars, ProviderInv, ProviderTypeOK,
         SessionsLive, Tasks
<1>10. QED
  BY <1>1, <1>4, <1>5, <1>6, <1>7, <1>8, <1>9 DEF ProviderInv

\* A delay ends.
LEMMA DelayKeeps ==
  ASSUME ProviderInv, NEW c \in Calls, Delay(c)
  PROVE  ProviderInv'
<1> USE SessionAssumption
<1>1. QueueInv' /\ UNCHANGED <<phase, outcome, expires, cleared>>
  BY QueueRests DEF ProviderInv, Delay
<1>2. guard' = guard /\ guard \in [Calls -> 0..1]
  BY DEF Delay, sessionVars, ProviderInv, ProviderTypeOK
<1>3. \A d \in Calls : Entry(d)' = Entry(d)
  BY <1>2 DEF Entry
<1>4. ProviderTypeOK'
  <2>1. ProviderTypeOK /\ SentCounted /\ SessionsLive /\ now + Ttl \in Nat
    BY DEF ProviderInv, QueueInv, TypeOK
  <2>m. stage[c] \in {"refresh", "await"} => mine[c] \in Logins
    BY <2>1 DEF SessionsLive, ProviderTypeOK, Logins
  <2>2. session' \in Logins \cup {0} /\ logins' \in 0..MaxLogins
    BY <2>1 DEF Delay, sessionVars, ProviderTypeOK, SessionsLive, Logins
  <2>3. expiry' \in [Logins -> Nat]
    BY <2>1, <2>m DEF Delay, sessionVars, ProviderTypeOK
  <2>4. dead' \in SUBSET Logins
    BY <2>1, <2>m DEF Delay, sessionVars, ProviderTypeOK
  <2>5. stage' \in [Calls -> Stages]
    BY <2>1 DEF Delay, To, ProviderTypeOK, Stages
  <2>6. guard' \in [Calls -> 0..1] /\ attempt' \in [Calls -> 0..MaxAttempts]
    BY <2>1 DEF Delay, ProviderTypeOK, SentCounted
  <2>7. mine' \in [Calls -> Logins \cup {0}]
    BY <2>1, <2>2 DEF Delay, ProviderTypeOK
  <2>8. sent' \in [Calls -> Nat]
    BY <2>1 DEF Delay, ProviderTypeOK
  <2>9. QED
    BY <2>2, <2>3, <2>4, <2>5, <2>6, <2>7, <2>8 DEF ProviderTypeOK
<1>5. SettledDone' /\ GuardOrder' /\ AgainUnbound'
  BY <1>1, <1>2 DEF ProviderInv, SettledDone, GuardOrder, AgainUnbound
<1>6. TaskRuns'
  BY <1>1, <1>3 DEF Delay, To, ProviderInv, ProviderTypeOK, TaskRuns, Tasks
<1>7. AnswerFinal'
  BY <1>1, <1>3 DEF Delay, To, ProviderInv, ProviderTypeOK, AnswerFinal
<1>8. SentCounted'
  BY <1>1, <1>2, <1>3 DEF Delay, To, sessionVars, ProviderInv, ProviderTypeOK, SentCounted,
         SettledDone, TaskRuns, Tasks, Entry
<1>9. SessionsLive'
  BY OneTask DEF Delay, To, sessionVars, ProviderInv, ProviderTypeOK, SessionsLive, Tasks
<1>10. QED
  BY <1>1, <1>4, <1>5, <1>6, <1>7, <1>8, <1>9 DEF ProviderInv

-----------------------------------------------------------------------------
\* What enqueue() does to the entry and to no other.
LEMMA EnqueueFacts ==
  ASSUME QueueInv, NEW r \in Requests, NEW e \in Nat, Enqueue(r, e)
  PROVE  /\ QueueInv' /\ UNCHANGED cleared
         /\ phase[r] = "idle" /\ phase'[r] \in {"chained", "done"}
         /\ outcome'[r] \in {outcome[r], "overflow"}
         /\ phase'[r] = "chained" => expires'[r] = e
         /\ phase'[r] = "done" => expires'[r] = expires[r]
         /\ outcome'[r] # outcome[r] => phase'[r] = "done"
         /\ \A q \in Requests : q # r =>
              phase'[q] = phase[q] /\ outcome'[q] = outcome[q] /\ expires'[q] = expires[q]
<1>1. /\ phase \in [Requests -> Phases] /\ expires \in [Requests -> Nat]
      /\ outcome \in [Requests -> Outcomes \cup {None}]
  BY DEF QueueInv, TypeOK
<1>2. CASE Accept(r, e)
  <2>1. QueueInv'
    BY <1>2, AcceptStep
  <2>2. /\ phase[r] = "idle" /\ phase' = [phase EXCEPT ![r] = "chained"]
        /\ expires' = [expires EXCEPT ![r] = e] /\ UNCHANGED <<outcome, cleared>>
    BY <1>2 DEF Accept
  <2>3. QED
    BY <1>1, <2>1, <2>2
<1>3. CASE Overflow(r)
  <2>1. QueueInv'
    BY <1>3, OverflowStep
  <2>2. /\ phase[r] = "idle" /\ phase' = [phase EXCEPT ![r] = "done"]
        /\ UNCHANGED <<expires, cleared>>
        /\ outcome' = outcome \/ outcome' = [outcome EXCEPT ![r] = "overflow"]
    BY <1>3 DEF Overflow, Settle
  <2>3. QED
    BY <1>1, <2>1, <2>2
<1>4. QED
  BY <1>2, <1>3 DEF Enqueue

\* The expiry a call is bound to is a time.
LEMMA BoundTyped == ProviderTypeOK => Bound(session) \in Nat
  BY DEF ProviderTypeOK, Bound

\* A call arrives.
LEMMA CallKeeps ==
  ASSUME ProviderInv, NEW c \in Calls, Call(c)
  PROVE  ProviderInv'
<1> USE SessionAssumption
<1> DEFINE r == First[c]
<1>1. /\ QueueInv' /\ r \in Requests /\ UNCHANGED cleared
      /\ phase[r] = "idle" /\ phase'[r] \in {"chained", "done"}
      /\ outcome'[r] \in {outcome[r], "overflow"}
      /\ outcome'[r] # outcome[r] => phase'[r] = "done"
      /\ \A q \in Requests : q # r =>
           phase'[q] = phase[q] /\ outcome'[q] = outcome[q] /\ expires'[q] = expires[q]
  BY EnqueueFacts, BoundTyped DEF ProviderInv, Call
<1>2. /\ stage[c] = "new" /\ stage' = [stage EXCEPT ![c] = "queued"]
      /\ UNCHANGED <<session, logins, expiry, dead, guard, attempt, mine, sent>>
  BY DEF Call, To, sessionVars
<1>3. ProviderTypeOK /\ ProviderTypeOK'
  BY <1>2 DEF ProviderInv, ProviderTypeOK, Stages
<1>4. \A d \in Calls : Entry(d)' = Entry(d)
  BY <1>2 DEF Entry
<1>5. outcome[r] = None
  BY <1>1 DEF ProviderInv, SettledDone
<1>6. guard[c] = 0 /\ Entry(c) = r
  BY <1>1, <1>3, EntryFacts DEF ProviderInv, GuardOrder
<1>7. \A d \in Calls : /\ Again[d] # r /\ Again[d] \in Requests
                       /\ d # c => First[d] # r /\ Entry(d) # r
                       /\ First[d] \in Requests /\ Entry(d) \in Requests
  BY <1>3, <1>6, EntryFacts
<1>8. SettledDone'
  BY <1>1 DEF ProviderInv, SettledDone
<1>9. TaskRuns'
  BY <1>1, <1>2, <1>3, <1>4, <1>7 DEF ProviderInv, ProviderTypeOK, TaskRuns, Tasks
<1>10. GuardOrder'
  BY <1>1, <1>2, <1>6, <1>7 DEF ProviderInv, GuardOrder
<1>11. AgainUnbound'
  BY <1>1, <1>7 DEF ProviderInv, AgainUnbound
<1>12. AnswerFinal'
  BY <1>1, <1>2, <1>3, <1>4, <1>7 DEF ProviderInv, ProviderTypeOK, AnswerFinal
<1>13. sent[c] = 0
  BY <1>1, <1>6 DEF ProviderInv, SentCounted
<1>14. SentCounted'
  BY <1>1, <1>2, <1>3, <1>4, <1>7, <1>13 DEF ProviderInv, ProviderTypeOK, SentCounted
<1>15. SessionsLive'
  BY <1>2, <1>3 DEF ProviderInv, ProviderTypeOK, SessionsLive
<1>16. QED
  BY <1>1, <1>3, <1>8, <1>9, <1>10, <1>11, <1>12, <1>14, <1>15 DEF ProviderInv

\* The retry of a call whose entry timed out: it is bound to no session.
LEMMA RequeueKeeps ==
  ASSUME ProviderInv, NEW c \in Calls, Requeue(c)
  PROVE  ProviderInv'
<1> USE SessionAssumption
<1> DEFINE r == Again[c]
<1>0. Enqueue(r, 0) /\ r \in Requests
  BY DEF Requeue, Bound
<1>1. /\ QueueInv' /\ UNCHANGED cleared
      /\ phase[r] = "idle" /\ phase'[r] \in {"chained", "done"}
      /\ outcome'[r] \in {outcome[r], "overflow"}
      /\ phase'[r] = "chained" => expires'[r] = 0
      /\ phase'[r] = "done" => expires'[r] = expires[r]
      /\ outcome'[r] # outcome[r] => phase'[r] = "done"
      /\ \A q \in Requests : q # r =>
           phase'[q] = phase[q] /\ outcome'[q] = outcome[q] /\ expires'[q] = expires[q]
  BY <1>0, EnqueueFacts DEF ProviderInv
<1>2. /\ stage[c] = "queued" /\ guard[c] = 0 /\ outcome[First[c]] = "timeout"
      /\ session' = 0 /\ guard' = [guard EXCEPT ![c] = 1]
      /\ UNCHANGED <<logins, expiry, dead, stage, attempt, mine, sent>>
  BY DEF Requeue
<1>3. ProviderTypeOK /\ ProviderTypeOK'
  BY <1>2 DEF ProviderInv, ProviderTypeOK
<1>4. Entry(c)' = r /\ \A d \in Calls : d # c => Entry(d)' = Entry(d)
  BY <1>2, <1>3 DEF Entry, ProviderTypeOK
<1>5. outcome[r] = None
  BY <1>1, <1>0 DEF ProviderInv, SettledDone
<1>6. Entry(c) = First[c] /\ phase[First[c]] = "done"
  <2>1. outcome[First[c]] # None /\ First[c] \in Requests
    BY <1>2 DEF Outcomes
  <2>2. QED
    BY <1>2, <2>1 DEF Entry, ProviderInv, SettledDone
<1>7. \A d \in Calls : /\ First[d] # r /\ First[d] \in Requests
                       /\ d # c => Again[d] # r /\ Again[d] \in Requests
                       /\ d # c => Entry(d) # r /\ Entry(d) \in Requests
  BY <1>3, EntryFacts
<1>8. SettledDone'
  BY <1>1 DEF ProviderInv, SettledDone
<1>9. TaskRuns'
  BY <1>1, <1>2, <1>4, <1>7 DEF ProviderInv, TaskRuns, Tasks
<1>10. GuardOrder'
  <2>1. guard \in [Calls -> 0..1]
    BY <1>3 DEF ProviderTypeOK
  <2>2. guard'[c] = 1 /\ \A d \in Calls : d # c => guard'[d] = guard[d]
    BY <1>2, <2>1
  <2>3. QED
    BY <1>1, <1>6, <1>7, <2>2 DEF ProviderInv, GuardOrder
<1>11. AgainUnbound'
  <2>1. expires'[r] = 0
    BY <1>1 DEF ProviderInv, AgainUnbound
  <2>2. outcome'[r] # "timeout"
    BY <1>1, <1>5 DEF Outcomes
  <2>3. QED
    BY <1>1, <1>7, <2>1, <2>2 DEF ProviderInv, AgainUnbound
<1>12. AnswerFinal'
  BY <1>1, <1>2, <1>4, <1>7 DEF ProviderInv, AnswerFinal
<1>13. sent[c] = 0
  BY <1>2 DEF ProviderInv, SentCounted
<1>14. SentCounted'
  <2>1. guard \in [Calls -> 0..1]
    BY <1>3 DEF ProviderTypeOK
  <2>2. guard'[c] = 1 /\ \A d \in Calls : d # c => guard'[d] = guard[d]
    BY <1>2, <2>1
  <2>3. QED
    BY <1>1, <1>2, <1>4, <1>7, <1>13, <2>2 DEF ProviderInv, SentCounted
<1>15. SessionsLive'
  BY <1>2, <1>3 DEF ProviderInv, ProviderTypeOK, SessionsLive
<1>16. QED
  BY <1>1, <1>3, <1>8, <1>9, <1>10, <1>11, <1>12, <1>14, <1>15 DEF ProviderInv

\* The queue starts a call's task: nothing has been sent for it yet.
LEMMA BeginKeeps ==
  ASSUME ProviderInv, NEW c \in Calls, NEW o \in Requests, Begin(c, o)
  PROVE  ProviderInv'
<1> USE SessionAssumption
<1> DEFINE r == Entry(c)
<1>1. /\ QueueInv'
      /\ phase[r] = "chained" /\ phase' = [phase EXCEPT ![r] = "running"]
      /\ UNCHANGED <<outcome, expires, cleared>>
  BY StartStep DEF Begin, Start, ProviderInv
<1>2. /\ stage' = [stage EXCEPT ![c] = "ensure"] /\ attempt' = [attempt EXCEPT ![c] = 1]
      /\ UNCHANGED <<session, logins, expiry, dead, guard, mine, sent>>
  BY DEF Begin, To, sessionVars
<1>3. ProviderTypeOK /\ ProviderTypeOK'
  BY <1>2 DEF ProviderInv, ProviderTypeOK, Stages
<1>4. \A d \in Calls : Entry(d)' = Entry(d)
  BY <1>2 DEF Entry
<1>5. phase \in [Requests -> Phases] /\ r \in Requests
  BY <1>3, EntryFacts DEF ProviderInv, QueueInv, TypeOK
<1>6. phase'[r] = "running" /\ \A q \in Requests : q # r => phase'[q] = phase[q]
  BY <1>1, <1>5
<1>7. \A d \in Calls : Entry(d) \in Requests /\ (d # c => Entry(d) # r)
  BY <1>3, EntryFacts
<1>8. SettledDone'
  BY <1>1, <1>6 DEF ProviderInv, SettledDone
<1>9. TaskRuns'
  BY <1>2, <1>3, <1>4, <1>6, <1>7 DEF ProviderInv, ProviderTypeOK, TaskRuns
<1>10. GuardOrder'
  <2>1. \A d \in Calls : First[d] \in Requests /\ Again[d] \in Requests
    OBVIOUS
  <2>2. \A d \in Calls : phase[Again[d]] = "idle" => Again[d] # r
    BY <1>1
  <2>3. \A d \in Calls : phase[First[d]] = "done" => First[d] # r
    BY <1>1
  <2>4. QED
    BY <1>2, <1>6, <2>1, <2>2, <2>3 DEF ProviderInv, GuardOrder
<1>11. AgainUnbound'
  BY <1>1 DEF ProviderInv, AgainUnbound
<1>12. AnswerFinal'
  BY <1>1, <1>2, <1>3, <1>4 DEF ProviderInv, ProviderTypeOK, AnswerFinal
<1>13. sent[c] = 0
  BY <1>1 DEF ProviderInv, SentCounted
<1>14. SentCounted'
  <2>1. stage'[c] = "ensure" /\ attempt'[c] = 1
    BY <1>2, <1>3 DEF ProviderTypeOK
  <2>2. \A d \in Calls : d # c => stage'[d] = stage[d] /\ attempt'[d] = attempt[d]
    BY <1>2, <1>3 DEF ProviderTypeOK
  <2>3. QED
    BY <1>1, <1>2, <1>4, <1>6, <1>7, <1>13, <2>1, <2>2 DEF ProviderInv, SentCounted
<1>15. SessionsLive'
  BY <1>2, <1>3 DEF ProviderInv, ProviderTypeOK, SessionsLive
<1>16. QED
  BY <1>1, <1>3, <1>8, <1>9, <1>10, <1>11, <1>12, <1>14, <1>15 DEF ProviderInv

\* A task settles its entry.
LEMMA EndKeeps ==
  ASSUME ProviderInv, NEW c \in Calls, NEW o \in Requests, End(c, o)
  PROVE  ProviderInv'
<1> USE SessionAssumption
<1> DEFINE r == Entry(c)
<1>1. /\ QueueInv'
      /\ phase[r] = "running" /\ phase' = [phase EXCEPT ![r] = "done"]
      /\ UNCHANGED <<expires, cleared>>
      /\ \E how \in {"value", "error"} : outcome' = Settle(outcome, r, how)
  BY FinishStep DEF End, Finish, ProviderInv
<1>2. /\ stage' = [stage EXCEPT ![c] = "queued"]
      /\ UNCHANGED <<session, logins, expiry, dead, guard, attempt, mine, sent>>
  BY DEF End, To, sessionVars
<1>3. ProviderTypeOK /\ ProviderTypeOK'
  BY <1>2 DEF ProviderInv, ProviderTypeOK, Stages
<1>4. \A d \in Calls : Entry(d)' = Entry(d)
  BY <1>2 DEF Entry
<1>5. /\ phase \in [Requests -> Phases] /\ outcome \in [Requests -> Outcomes \cup {None}]
      /\ r \in Requests
  BY <1>3, EntryFacts DEF ProviderInv, QueueInv, TypeOK
<1>6. /\ phase'[r] = "done" /\ outcome'[r] \in {outcome[r], "value", "error"}
      /\ \A q \in Requests : q # r => phase'[q] = phase[q] /\ outcome'[q] = outcome[q]
  BY <1>1, <1>5 DEF Settle
<1>7. \A d \in Calls : Entry(d) \in Requests /\ (d # c => Entry(d) # r)
  BY <1>3, EntryFacts
<1>8. SettledDone'
  BY <1>1, <1>6 DEF ProviderInv, SettledDone
<1>9. TaskRuns'
  BY <1>2, <1>3, <1>4, <1>6, <1>7 DEF ProviderInv, ProviderTypeOK, TaskRuns, Tasks
<1>10. GuardOrder'
  BY <1>1, <1>2, <1>6 DEF ProviderInv, GuardOrder
<1>11. AgainUnbound'
  BY <1>1, <1>6 DEF ProviderInv, AgainUnbound
<1>12. AnswerFinal'
  BY <1>2, <1>3, <1>4, <1>6, <1>7 DEF ProviderInv, ProviderTypeOK, AnswerFinal
<1>13. outcome[r] = None
  BY <1>1, <1>5 DEF ProviderInv, SettledDone
<1>14. SentCounted'
  <2>1. \A d \in Calls : outcome'[First[d]] = "timeout" => outcome[First[d]] = "timeout"
    BY <1>6
  <2>2. \A d \in Calls : phase'[Entry(d)] \in {"idle", "chained"} =>
                           phase[Entry(d)] \in {"idle", "chained"}
    BY <1>6, <1>7
  <2>3. stage'[c] = "queued" /\ \A d \in Calls : d # c => stage'[d] = stage[d]
    BY <1>2, <1>3 DEF ProviderTypeOK
  <2>4. QED
    BY <1>2, <1>4, <2>1, <2>2, <2>3 DEF ProviderInv, SentCounted
<1>15. SessionsLive'
  BY <1>2, <1>3 DEF ProviderInv, ProviderTypeOK, SessionsLive
<1>16. QED
  BY <1>1, <1>3, <1>8, <1>9, <1>10, <1>11, <1>12, <1>14, <1>15 DEF ProviderInv

\* An entry times out in the queue: it is a first one and has sent nothing.
LEMMA QueueExpiresKeeps ==
  ASSUME ProviderInv, NEW o \in Requests, QueueExpires(o)
  PROVE  ProviderInv'
<1> USE SessionAssumption
<1> DEFINE r == Head(chain[o])
<1>1. /\ QueueInv' /\ r \in Requests
      /\ phase[r] = "chained" /\ phase' = [phase EXCEPT ![r] = "done"]
      /\ UNCHANGED <<expires, cleared>> /\ expires[r] > 0
      /\ outcome' = Settle(outcome, r, "timeout")
  BY ExpireStep, HeadFacts DEF QueueExpires, Expire, Expired, ProviderInv
<1>2. UNCHANGED <<session, logins, expiry, dead, stage, guard, attempt, mine, sent>>
  BY DEF QueueExpires, sessionVars, callVars
<1>3. ProviderTypeOK /\ ProviderTypeOK'
  BY <1>2 DEF ProviderInv, ProviderTypeOK
<1>4. \A d \in Calls : Entry(d)' = Entry(d)
  BY <1>2 DEF Entry
<1>5. phase \in [Requests -> Phases] /\ outcome \in [Requests -> Outcomes \cup {None}]
  BY DEF ProviderInv, QueueInv, TypeOK
<1>6. /\ phase'[r] = "done" /\ outcome'[r] \in {outcome[r], "timeout"}
      /\ \A q \in Requests : q # r => phase'[q] = phase[q] /\ outcome'[q] = outcome[q]
  BY <1>1, <1>5 DEF Settle
<1>7. \A d \in Calls : Again[d] # r /\ Again[d] \in Requests /\ First[d] \in Requests
                       /\ Entry(d) \in Requests
  BY <1>1, <1>3, EntryFacts DEF ProviderInv, AgainUnbound
<1>8. SettledDone'
  BY <1>1, <1>6 DEF ProviderInv, SettledDone
<1>9. TaskRuns'
  BY <1>1, <1>2, <1>4, <1>6, <1>7 DEF ProviderInv, TaskRuns
<1>10. GuardOrder'
  BY <1>1, <1>2, <1>6, <1>7 DEF ProviderInv, GuardOrder
<1>11. AgainUnbound'
  BY <1>1, <1>6, <1>7 DEF ProviderInv, AgainUnbound
<1>12. AnswerFinal'
  <2>1. outcome[r] = None
    BY <1>1 DEF ProviderInv, SettledDone
  <2>2. \A d \in Calls : outcome[Entry(d)] # None => Entry(d) # r
    BY <2>1
  <2>3. QED
    BY <1>2, <1>4, <1>6, <1>7, <2>2 DEF ProviderInv, AnswerFinal
<1>14. SentCounted'
  <2>1. ASSUME NEW d \in Calls, guard[d] = 0, outcome'[First[d]] = "timeout"
        PROVE  sent[d] = 0
    <3>1. Entry(d) = First[d]
      BY <1>3, <2>1, EntryFacts
    <3>2. CASE First[d] = r
      BY <1>1, <3>1, <3>2 DEF ProviderInv, SentCounted
    <3>3. CASE First[d] # r
      BY <1>6, <1>7, <2>1, <3>3 DEF ProviderInv, SentCounted
    <3>4. QED
      BY <3>2, <3>3
  <2>2. \A d \in Calls : phase'[Entry(d)] \in {"idle", "chained"} =>
                           phase[Entry(d)] \in {"idle", "chained"}
    BY <1>6, <1>7
  <2>3. QED
    BY <1>2, <1>4, <2>1, <2>2 DEF ProviderInv, SentCounted
<1>15. SessionsLive'
  BY <1>2 DEF ProviderInv, SessionsLive
<1>16. QED
  BY <1>1, <1>3, <1>8, <1>9, <1>10, <1>11, <1>12, <1>14, <1>15 DEF ProviderInv

\* The clock, and stuttering.
LEMMA ClockKeeps ==
  ASSUME ProviderInv, Clock \/ UNCHANGED providerVars
  PROVE  ProviderInv'
<1>1. UNCHANGED <<queues, pending, chain, locked, phase, cleared>>
  BY DEF Clock, Tick, providerVars
<1>2. TypeOK'
  BY DEF Clock, Tick, providerVars, ProviderInv, QueueInv, TypeOK
<1>3. QueueInv'
  BY <1>1, <1>2 DEF ProviderInv, QueueInv, MapEntriesKeyed, MapEntriesLive, WorkIsMapped,
       ChainsAreKeyed, PendingIsRest, ChainedOnce, ChainedIsLive, LockPerObject, Positions
<1>4. UNCHANGED <<phase, outcome, expires, session, logins, expiry, dead, stage, guard,
                  attempt, mine, sent>>
  BY DEF Clock, Tick, providerVars, sessionVars, callVars
<1>5. \A d \in Calls : Entry(d)' = Entry(d)
  BY <1>4 DEF Entry
<1>6. ProviderTypeOK' /\ SettledDone' /\ GuardOrder' /\ AgainUnbound'
  BY <1>1, <1>4 DEF ProviderInv, ProviderTypeOK, SettledDone, GuardOrder, AgainUnbound
<1>7. TaskRuns' /\ AnswerFinal' /\ SentCounted' /\ SessionsLive'
  BY <1>4, <1>5 DEF ProviderInv, TaskRuns, AnswerFinal, SentCounted, SessionsLive
<1>8. QED
  BY <1>3, <1>6, <1>7 DEF ProviderInv

\* Every step of the provider preserves the invariant.
LEMMA ProviderStep == ProviderInv /\ [ProviderNext]_providerVars => ProviderInv'
<1> SUFFICES ASSUME ProviderInv, [ProviderNext]_providerVars PROVE ProviderInv'
  OBVIOUS
<1>1. ASSUME NEW c \in Calls, Call(c) PROVE ProviderInv'
  BY <1>1, CallKeeps
<1>2. ASSUME NEW c \in Calls, Work(c) PROVE ProviderInv'
  <2>1. CASE Requeue(c) \/ Answer(c) \/ (\E o \in Requests : Begin(c, o) \/ End(c, o))
    BY <2>1, RequeueKeeps, AnswerKeeps, BeginKeeps, EndKeeps
  <2>2. CASE \/ UseCached(c) \/ BeginRefresh(c) \/ BeginLogin(c) \/ Refreshed(c)
             \/ RefreshFails(c) \/ LoggedIn(c) \/ LoginFails(c)
    BY <2>2, UseCachedKeeps, BeginRefreshKeeps, BeginLoginKeeps, RefreshedKeeps,
       RefreshFailsKeeps, LoggedInKeeps, LoginFailsKeeps
  <2>3. CASE \/ Response(c) \/ SessionRejected(c) \/ ServerError(c) \/ RequestFails(c)
             \/ Delay(c)
    BY <2>3, ResponseKeeps, SessionRejectedKeeps, ServerErrorKeeps, RequestFailsKeeps,
       DelayKeeps
  <2>4. QED
    BY <1>2, <2>1, <2>2, <2>3 DEF Work
<1>3. ASSUME NEW o \in Requests, QueueExpires(o) PROVE ProviderInv'
  BY <1>3, QueueExpiresKeeps
<1>4. CASE Clock \/ UNCHANGED providerVars
  BY <1>4, ClockKeeps
<1>5. QED
  BY <1>1, <1>2, <1>3, <1>4 DEF ProviderNext

\* The invariant of provider and queue together holds for ever.
THEOREM ProviderInvariant == ProviderSpec => []ProviderInv
  BY ProviderInvInit, ProviderStep, PTL DEF ProviderSpec

\* Session, attempts and stages keep their types (airtel.ts:110-112).
THEOREM ProviderTypes == ProviderSpec => []ProviderTypeOK
<1>1. ProviderInv => ProviderTypeOK
  BY DEF ProviderInv
<1>2. QED
  BY <1>1, ProviderInvariant, PTL

\* A session the provider rejected is never cached or used again: the queue
\* keeps every other call away from it (airtel.ts:853-858).
THEOREM ProviderSessionSafe == ProviderSpec => []RejectedNotReused
<1>1. ProviderInv => RejectedNotReused
  BY DEF ProviderInv, SessionsLive, RejectedNotReused
<1>2. QED
  BY <1>1, ProviderInvariant, PTL

\* No caller ever gets a SessionTimeoutError (airtel.ts:865-880).
THEOREM ProviderHidesTimeout == ProviderSpec => []TimeoutNotSurfaced
<1>1. ProviderInv => TimeoutNotSurfaced
  BY DEF ProviderInv, AnswerFinal, TimeoutNotSurfaced
<1>2. QED
  BY <1>1, ProviderInvariant, PTL

\* The queue's retry never adds to the attempts of a request (airtel.ts:896).
THEOREM ProviderSendsBounded == ProviderSpec => []SentWithinAttempts
<1>1. ProviderInv => SentWithinAttempts
  BY DEF ProviderInv, SentCounted, SentWithinAttempts
<1>2. QED
  BY <1>1, ProviderInvariant, PTL
=============================================================================
