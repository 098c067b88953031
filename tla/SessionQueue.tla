---------------------------- MODULE SessionQueue ----------------------------
(***************************************************************************)
(* The per-session request queue of the mobile-money web-session providers *)
(* (src/src/services/mobilemoney/sessionRequestQueue.ts).                  *)
(*                                                                         *)
(* The class keeps a map from session keys to queue-state objects and      *)
(* drops a state object from the map when it looks idle, so one key may be *)
(* served by several state objects over time.  A state object is named     *)
(* here by the request whose enqueue created it.                           *)
(***************************************************************************)
EXTENDS Naturals, Sequences, FiniteSets

CONSTANTS
  Requests,       \* the requests callers may enqueue
  Keys,           \* session keys
  KeyOf,          \* the session key each request is for
  MaxQueueDepth,  \* constructor option maxQueueDepth
  Expiries,       \* values of options.sessionExpiresAt; 0 is "not bound"
  MaxTime,        \* bound: the last instant of the clock
  ClearAllowed,   \* whether some caller ever invokes clear()
  None            \* absent map entry, unset outcome

ASSUME QueueAssumption ==
  /\ KeyOf \in [Requests -> Keys]
  /\ MaxQueueDepth \in Nat \ {0}
  /\ Expiries \subseteq Nat
  /\ MaxTime \in Nat
  /\ ClearAllowed \in BOOLEAN
  /\ None \notin Requests

VARIABLES
  now,      \* this.clock()
  queues,   \* this.queues: key -> state object, or None
  pending,  \* state object -> state.pending
  chain,    \* state object -> the runEntry calls chained on state.tail
  locked,   \* state object -> state.locked
  phase,    \* request -> where its entry is
  expires,  \* request -> options.sessionExpiresAt
  outcome,  \* request -> how its promise settled, None before
  order,    \* history: the accepted requests, in the order of their enqueue
  cleared   \* history: the keys clear() was called for

vars == <<now, queues, pending, chain, locked, phase, expires, outcome, order, cleared>>

Phases == {"idle", "chained", "running", "done"}
Outcomes == {"value", "error", "timeout", "overflow"}

Init ==
  /\ now = 0
  /\ queues = [k \in Keys |-> None]
  /\ pending = [o \in Requests |-> <<>>]
  /\ chain = [o \in Requests |-> <<>>]
  /\ locked = [o \in Requests |-> FALSE]
  /\ phase = [r \in Requests |-> "idle"]
  /\ expires = [r \in Requests |-> 0]
  /\ outcome = [r \in Requests |-> None]
  /\ order = <<>>
  /\ cleared = {}

\* The state object getOrCreateState returns to the enqueue of request r.
StateFor(r) == IF queues[KeyOf[r]] = None THEN r ELSE queues[KeyOf[r]]

\* A promise keeps its first outcome: a later resolve or reject is ignored.
Settle(out, r, how) ==
  IF out[r] = None THEN [out EXCEPT ![r] = how] ELSE out

\* Faulty variant: release() that does not look at what still waits.
ReleaseIgnoringPending(k, isLocked, waiting) ==
  IF ~isLocked THEN [queues EXCEPT ![k] = None] ELSE queues

\* Faulty variant: the map entry is never removed.
ReleaseNever(k, isLocked, waiting) == queues

\* The map after release(): it deletes the key's entry when the state object
\* it is given is idle, without looking at which object the entry holds.
Release(k, isLocked, waiting) ==
  IF ~isLocked /\ waiting = <<>> THEN [queues EXCEPT ![k] = None] ELSE queues

\* state.pending without the entry that starts.  pending is always a suffix of
\* the chain, so the entry is either its head or was removed by clear().
Unqueue(waiting, r) ==
  IF waiting # <<>> /\ Head(waiting) = r THEN Tail(waiting) ELSE waiting

-----------------------------------------------------------------------------
\* enqueue() of a request bound to a session that expires at e.
Accept(r, e) ==
  LET o == StateFor(r) IN
  /\ phase[r] = "idle"
  /\ Len(pending[o]) < MaxQueueDepth
  /\ queues' = [queues EXCEPT ![KeyOf[r]] = o]
  /\ pending' = [pending EXCEPT ![o] = Append(@, r)]
  /\ chain' = [chain EXCEPT ![o] = Append(@, r)]
  /\ phase' = [phase EXCEPT ![r] = "chained"]
  /\ expires' = [expires EXCEPT ![r] = e]
  /\ order' = Append(order, r)
  /\ UNCHANGED <<now, locked, outcome, cleared>>

\* enqueue() when maxQueueDepth requests already wait.
Overflow(r) ==
  LET o == StateFor(r) IN
  /\ phase[r] = "idle"
  /\ Len(pending[o]) >= MaxQueueDepth
  /\ queues' = [queues EXCEPT ![KeyOf[r]] = o]
  /\ phase' = [phase EXCEPT ![r] = "done"]
  /\ outcome' = Settle(outcome, r, "overflow")
  /\ UNCHANGED <<now, pending, chain, locked, expires, order, cleared>>

Expired(r) == expires[r] > 0 /\ expires[r] <= now

\* runEntry() of the next entry chained on o, when its session has expired.
Expire(o) ==
  LET r == Head(chain[o]) IN
  /\ chain[o] # <<>>
  /\ phase[r] = "chained"
  /\ Expired(r)
  /\ pending' = [pending EXCEPT ![o] = Unqueue(@, r)]
  /\ chain' = [chain EXCEPT ![o] = Tail(@)]
  /\ phase' = [phase EXCEPT ![r] = "done"]
  /\ outcome' = Settle(outcome, r, "timeout")
  /\ queues' = Release(KeyOf[r], locked[o], pending'[o])
  /\ UNCHANGED <<now, locked, expires, order, cleared>>

\* Faulty variant: the entry after the next one overtakes it.
StartOutOfOrder(o) ==
  LET r == chain[o][Len(chain[o])] IN
  /\ chain[o] # <<>>
  /\ \A i \in 1..Len(chain[o]) : phase[chain[o][i]] = "chained"
  /\ ~Expired(r)
  /\ pending' = [pending EXCEPT ![o] = SubSeq(@, 1, Len(@) - 1)]
  /\ chain' = [chain EXCEPT ![o] = <<r>> \o SubSeq(@, 1, Len(@) - 1)]
  /\ locked' = [locked EXCEPT ![o] = TRUE]
  /\ phase' = [phase EXCEPT ![r] = "running"]
  /\ UNCHANGED <<now, queues, expires, outcome, order, cleared>>

\* Faulty variant: the lock is not taken before the task is awaited.
StartUnlocked(o) ==
  LET r == Head(chain[o]) IN
  /\ chain[o] # <<>>
  /\ phase[r] = "chained"
  /\ ~Expired(r)
  /\ pending' = [pending EXCEPT ![o] = Unqueue(@, r)]
  /\ phase' = [phase EXCEPT ![r] = "running"]
  /\ UNCHANGED <<now, queues, chain, locked, expires, outcome, order, cleared>>

\* runEntry() of the next entry chained on o, up to its await of the task.
Start(o) ==
  LET r == Head(chain[o]) IN
  /\ chain[o] # <<>>
  /\ phase[r] = "chained"
  /\ ~Expired(r)
  /\ pending' = [pending EXCEPT ![o] = Unqueue(@, r)]
  /\ locked' = [locked EXCEPT ![o] = TRUE]
  /\ phase' = [phase EXCEPT ![r] = "running"]
  /\ UNCHANGED <<now, queues, chain, expires, outcome, order, cleared>>

\* Faulty variant: a task that fails leaves the chain rejected and stuck.
FinishWithoutFinally(o) ==
  LET r == Head(chain[o]) IN
  /\ chain[o] # <<>>
  /\ phase[r] = "running"
  /\ \E how \in {"value", "error"} :
       /\ outcome' = Settle(outcome, r, how)
       /\ IF how = "value"
          THEN /\ chain' = [chain EXCEPT ![o] = Tail(@)]
               /\ locked' = [locked EXCEPT ![o] = FALSE]
               /\ queues' = Release(KeyOf[r], FALSE, pending[o])
          ELSE /\ chain' = [chain EXCEPT ![o] = <<>>]
               /\ UNCHANGED <<locked, queues>>
  /\ phase' = [phase EXCEPT ![r] = "done"]
  /\ UNCHANGED <<now, pending, expires, order, cleared>>

\* The rest of runEntry(): the task of the entry that holds o's lock settles.
Finish(o) ==
  LET r == Head(chain[o]) IN
  /\ chain[o] # <<>>
  /\ phase[r] = "running"
  /\ chain' = [chain EXCEPT ![o] = Tail(@)]
  /\ locked' = [locked EXCEPT ![o] = FALSE]
  /\ phase' = [phase EXCEPT ![r] = "done"]
  /\ \E how \in {"value", "error"} : outcome' = Settle(outcome, r, how)
  /\ queues' = Release(KeyOf[r], FALSE, pending[o])
  /\ UNCHANGED <<now, pending, expires, order, cleared>>

\* clear(): reject what waits under the key; forget the object if unlocked.
Clear(k) ==
  LET o == queues[k] IN
  /\ ClearAllowed
  /\ o # None
  /\ pending' = [pending EXCEPT ![o] = <<>>]
  /\ outcome' = [r \in Requests |->
                   IF (\E i \in 1..Len(pending[o]) : pending[o][i] = r)
                        /\ outcome[r] = None
                   THEN "timeout" ELSE outcome[r]]
  /\ queues' = IF locked[o] THEN queues ELSE [queues EXCEPT ![k] = None]
  /\ cleared' = cleared \cup {k}
  /\ UNCHANGED <<now, chain, locked, phase, expires, order>>

\* Time passes.
Tick ==
  /\ now < MaxTime
  /\ now' = now + 1
  /\ UNCHANGED <<queues, pending, chain, locked, phase, expires, outcome, order, cleared>>

Next ==
  \/ \E r \in Requests, e \in Expiries : Accept(r, e)
  \/ \E r \in Requests : Overflow(r)
  \/ \E o \in Requests : Expire(o) \/ Start(o) \/ Finish(o)
  \/ \E k \in Keys : Clear(k)
  \/ Tick

\* The event loop runs every chained continuation, and every task settles:
\* the providers' HTTP clients carry a request timeout.
Fairness ==
  \A o \in Requests : WF_vars(Expire(o) \/ Start(o)) /\ WF_vars(Finish(o))

Spec == Init /\ [][Next]_vars /\ Fairness

-----------------------------------------------------------------------------
\* Every variable keeps the shape the class declares for it.
TypeOK ==
  /\ now \in Nat
  /\ queues \in [Keys -> Requests \cup {None}]
  /\ pending \in [Requests -> Seq(Requests)]
  /\ chain \in [Requests -> Seq(Requests)]
  /\ locked \in [Requests -> BOOLEAN]
  /\ phase \in [Requests -> Phases]
  /\ expires \in [Requests -> Nat]
  /\ outcome \in [Requests -> Outcomes \cup {None}]
  /\ order \in Seq(Requests)
  /\ cleared \in SUBSET Keys

\* "a serialization lock so only one session request runs at a time": no two
\* requests of one session key ever execute together, also when the key's
\* state object has been dropped from the map and created again.  clear()
\* forfeits it: it forgets a state object whose entries are still chained.
OneAtATime ==
  \A r, s \in Requests :
    phase[r] = "running" /\ phase[s] = "running" /\ KeyOf[r] = KeyOf[s]
      => r = s \/ KeyOf[r] \in cleared

\* size() and isLocked() tell the truth: a key's entry is in the map exactly
\* while one of its requests waits or runs, and is locked exactly while one
\* runs, until clear() is called for the key.
MapTracksWork ==
  \A k \in Keys \ cleared :
    /\ (queues[k] # None) <=>
         \E r \in Requests : KeyOf[r] = k /\ phase[r] \in {"chained", "running"}
    /\ (queues[k] # None /\ locked[queues[k]]) <=>
         \E r \in Requests : KeyOf[r] = k /\ phase[r] = "running"

\* Each queue-state object is a lock: it is locked exactly while the entry at
\* the head of its chain runs, and nothing behind that entry has started.
LockPerObject ==
  \A o \in Requests :
    /\ locked[o] <=> chain[o] # <<>> /\ phase[Head(chain[o])] = "running"
    /\ \A i \in 2..Len(chain[o]) : phase[chain[o][i]] = "chained"

\* "request queueing per session (FIFO)": a request of a key that has started
\* leaves every request of the key enqueued before it finished, until clear()
\* is called for the key.
FirstComeFirstServed ==
  \A i, j \in 1..Len(order) :
    i < j /\ KeyOf[order[i]] = KeyOf[order[j]]
          /\ KeyOf[order[i]] \notin cleared
          /\ phase[order[j]] \in {"running", "done"}
      => phase[order[i]] = "done"

\* Every accepted request settles: the caller's promise never hangs, whatever
\* expired, failed or was cleared around it.
EveryRequestSettles ==
  \A r \in Requests : phase[r] = "chained" ~> outcome[r] # None /\ phase[r] = "done"

\* The queue is a line per session: however often a state object is dropped
\* from the map and created again, requests of a session join one line and only
\* its first is ever run, until clear() is called for the session.
Line ==
  [k \in Keys |-> IF k \in cleared \/ queues[k] = None THEN <<>> ELSE chain[queues[k]]]
Served == {r \in Requests : phase[r] = "running" /\ KeyOf[r] \notin cleared}
LineView == INSTANCE SessionLine WITH line <- Line, serving <- Served, closed <- cleared
IsLine == LineView!Spec
=============================================================================
