------------------------- MODULE SessionQueueProofs -------------------------
(***************************************************************************)
(* Proofs about SessionQueue: for every set of requests and keys, every    *)
(* depth and every clock, the requests of one session execute one at a     *)
(* time and in order, and the map of queues is exact.  clear() may be      *)
(* called at any time for any key and forfeits that for its own key only;  *)
(* the lock of each state object survives it.                              *)
(***************************************************************************)
EXTENDS SessionQueue, SequenceTheorems, TLAPS

\* The positions of a chain.
Positions(o) == 1..Len(chain[o])

\* A map entry names an object of its own key ...
MapEntriesKeyed == \A k \in Keys : queues[k] # None => KeyOf[queues[k]] = k

\* ... that still has work.
MapEntriesLive == \A k \in Keys \ cleared : queues[k] # None => chain[queues[k]] # <<>>

\* An object with work is the one the map names: no second object serves the
\* key, which is what serialisation rests on and what clear() breaks.
WorkIsMapped ==
  \A o \in Requests : KeyOf[o] \notin cleared /\ chain[o] # <<>> => queues[KeyOf[o]] = o

\* Every entry is chained on an object of its own key.
ChainsAreKeyed ==
  \A o \in Requests : \A i \in Positions(o) : KeyOf[chain[o][i]] = KeyOf[o]

\* What waits is the chain without the entry that holds the lock.
PendingIsRest ==
  \A o \in Requests : KeyOf[o] \notin cleared =>
    pending[o] = IF locked[o] THEN Tail(chain[o]) ELSE chain[o]

\* A request is on at most one place of one chain ...
ChainedOnce ==
  \A o, p \in Requests : \A i \in Positions(o), j \in Positions(p) :
    chain[o][i] = chain[p][j] => o = p /\ i = j

\* ... and on one exactly while it waits or runs.
ChainedIsLive ==
  \A r \in Requests :
    phase[r] \in {"chained", "running"} <=>
      \E o \in Requests : \E i \in Positions(o) : chain[o][i] = r

\* The inductive invariant.
QueueInv ==
  /\ TypeOK
  /\ MapEntriesKeyed
  /\ MapEntriesLive
  /\ WorkIsMapped
  /\ ChainsAreKeyed
  /\ PendingIsRest
  /\ ChainedOnce
  /\ ChainedIsLive
  /\ LockPerObject

-----------------------------------------------------------------------------
\* What Append and Tail do to the positions of a chain of requests.
LEMMA AppendFacts ==
  ASSUME NEW s \in Seq(Requests), NEW r \in Requests
  PROVE  /\ Append(s, r) \in Seq(Requests)
         /\ Append(s, r) # <<>>
         /\ Len(Append(s, r)) = Len(s) + 1
         /\ \A i \in 1..Len(s) : Append(s, r)[i] = s[i]
         /\ Append(s, r)[Len(s) + 1] = r
         /\ s = <<>> => Head(Append(s, r)) = r /\ Len(s) = 0
         /\ s # <<>> => Head(Append(s, r)) = Head(s) /\ Len(s) > 0
                        /\ Tail(Append(s, r)) = Append(Tail(s), r)
  OBVIOUS

LEMMA TailFacts ==
  ASSUME NEW s \in Seq(Requests), s # <<>>
  PROVE  /\ Head(s) \in Requests
         /\ Head(s) = s[1]
         /\ Len(s) \in Nat \ {0}
         /\ Tail(s) \in Seq(Requests)
         /\ Len(Tail(s)) = Len(s) - 1
         /\ \A i \in 1..Len(s) - 1 : Tail(s)[i] = s[i + 1]
         /\ Tail(s) # <<>> => Head(Tail(s)) = s[2] /\ Len(s) >= 2
         /\ Tail(s) = <<>> => Len(s) = 1
<1>1. Len(s) \in Nat \ {0} /\ Head(s) = s[1]
  BY EmptySeq
<1>2. /\ Head(s) \in Requests
      /\ Tail(s) \in Seq(Requests)
      /\ Len(Tail(s)) = Len(s) - 1
      /\ \A i \in 1..Len(s) - 1 : Tail(s)[i] = s[i + 1]
  BY HeadTailProperties
<1>3. Tail(s) # <<>> => Head(Tail(s)) = s[2] /\ Len(s) >= 2
  <2>1. SUFFICES ASSUME Tail(s) # <<>> PROVE Head(Tail(s)) = s[2] /\ Len(s) >= 2
    OBVIOUS
  <2>2. Len(Tail(s)) \in Nat \ {0} /\ Head(Tail(s)) = Tail(s)[1]
    BY <1>2, <2>1, EmptySeq
  <2>3. 1 \in 1..Len(s) - 1 /\ Len(s) >= 2
    BY <1>1, <1>2, <2>2
  <2>4. Tail(s)[1] = s[1 + 1]
    BY <1>2, <2>3
  <2>5. QED
    BY <2>2, <2>3, <2>4
<1>4. Tail(s) = <<>> => Len(s) = 1
  <2>1. Len(Tail(s)) = Len(s) - 1
    BY <1>2
  <2>2. Tail(s) = <<>> => Len(Tail(s)) = 0
    BY EmptySeq, Zenon
  <2>3. QED
    BY <1>1, <2>1, <2>2
<1>5. QED
  BY <1>1, <1>2, <1>3, <1>4

\* The initial queue, with no work anywhere, satisfies the invariant.
LEMMA QueueInvInit == Init => QueueInv
  BY QueueAssumption
  DEF Init, QueueInv, TypeOK, MapEntriesKeyed, MapEntriesLive, WorkIsMapped, ChainsAreKeyed,
      PendingIsRest, ChainedOnce, ChainedIsLive, LockPerObject, Positions,
      Phases, Outcomes

\* enqueue() puts the request at the end of the one object that serves its key.
LEMMA AcceptStep ==
  ASSUME QueueInv, NEW r \in Requests, NEW e \in Nat, Accept(r, e)
  PROVE  QueueInv'
<1> USE QueueAssumption
<1>0. PICK o \in Requests : o = StateFor(r)
  BY DEF QueueInv, TypeOK, StateFor
<1>1. TypeOK /\ o \in Requests /\ KeyOf[o] = KeyOf[r] /\ o # None /\ KeyOf[r] \in Keys
  BY <1>0 DEF QueueInv, TypeOK, MapEntriesKeyed, StateFor
<1>2. chain[o] \in Seq(Requests) /\ Len(chain[o]) \in Nat
  BY <1>1 DEF TypeOK
<1>3. /\ chain' = [chain EXCEPT ![o] = Append(@, r)]
      /\ pending' = [pending EXCEPT ![o] = Append(@, r)]
      /\ queues' = [queues EXCEPT ![KeyOf[r]] = o]
      /\ phase' = [phase EXCEPT ![r] = "chained"]
      /\ phase[r] = "idle"
      /\ UNCHANGED <<locked, cleared>>
  BY <1>0 DEF Accept
<1>4. \A p \in Requests : \A i \in Positions(p) : chain[p][i] # r
  BY <1>3, <1>1 DEF QueueInv, ChainedIsLive
<1>5. /\ chain'[o] = Append(chain[o], r)
      /\ chain'[o] # <<>>
      /\ Len(chain'[o]) = Len(chain[o]) + 1
      /\ \A i \in 1..Len(chain[o]) : chain'[o][i] = chain[o][i]
      /\ chain'[o][Len(chain[o]) + 1] = r
      /\ \A p \in Requests \ {o} : chain'[p] = chain[p]
  <2>1. chain'[o] = Append(chain[o], r) /\ \A p \in Requests \ {o} : chain'[p] = chain[p]
    BY <1>1, <1>3 DEF TypeOK
  <2>2. QED
    BY <1>2, <2>1, AppendFacts
<1>len. \A p \in Requests : chain[p] \in Seq(Requests) /\ Len(chain[p]) \in Nat
  BY <1>1 DEF TypeOK
<1>old. \A p \in Requests : \A i \in Positions(p) :
          i \in 1..Len(chain'[p]) /\ chain'[p][i] = chain[p][i] /\ chain[p][i] \in Requests
  <2>1. ASSUME NEW p \in Requests, NEW i \in Positions(p)
        PROVE  i \in 1..Len(chain'[p]) /\ chain'[p][i] = chain[p][i]
    <3>1. CASE p = o
      BY <1>2, <1>5, <2>1, <3>1 DEF Positions
    <3>2. CASE p # o
      BY <1>5, <2>1, <3>2 DEF Positions
    <3>3. QED
      BY <3>1, <3>2
  <2>2. \A p \in Requests : \A i \in Positions(p) : chain[p][i] \in Requests
    BY <1>len, ElementOfSeq DEF Positions
  <2>3. QED
    BY <2>1, <2>2
<1>new. \A p \in Requests : \A i \in 1..Len(chain'[p]) :
          \/ i \in Positions(p)
          \/ p = o /\ i = Len(chain[o]) + 1 /\ chain'[p][i] = r
  BY <1>5, <1>len DEF Positions
<1>6. TypeOK'
  <2>1. chain' \in [Requests -> Seq(Requests)] /\ pending' \in [Requests -> Seq(Requests)]
    BY <1>1, <1>3, AppendFacts DEF TypeOK
  <2>2. order' \in Seq(Requests)
    BY <1>1, AppendFacts DEF TypeOK, Accept
  <2>3. QED
    BY <1>1, <2>1, <2>2 DEF TypeOK, Accept, Phases
<1>7. MapEntriesKeyed' /\ MapEntriesLive'
  BY <1>1, <1>3, <1>5 DEF QueueInv, TypeOK, MapEntriesKeyed, MapEntriesLive
<1>8. WorkIsMapped'
  <2>1. SUFFICES ASSUME NEW p \in Requests, KeyOf[p] \notin cleared, chain'[p] # <<>>
                 PROVE  queues'[KeyOf[p]] = p
    BY <1>3 DEF WorkIsMapped
  <2>2. CASE p = o
    BY <1>1, <1>3, <2>2 DEF TypeOK
  <2>3. CASE p # o
    <3>1. queues[KeyOf[p]] = p
      BY <1>5, <2>1, <2>3 DEF QueueInv, WorkIsMapped
    <3>2. KeyOf[p] # KeyOf[r]
      BY <3>1, <2>3, <1>0, <1>1 DEF StateFor
    <3>3. QED
      BY <1>1, <1>3, <3>1, <3>2 DEF TypeOK
  <2>4. QED
    BY <2>2, <2>3
<1>9. ChainsAreKeyed'
  BY <1>1, <1>old, <1>new DEF QueueInv, ChainsAreKeyed, Positions
<1>10. LockPerObject'
  <2>1. \A p \in Requests : \A i \in Positions(p) : phase'[chain'[p][i]] = phase[chain[p][i]]
    <3>1. \A q \in Requests \ {r} : phase'[q] = phase[q]
      BY <1>1, <1>3 DEF TypeOK
    <3>2. QED
      BY <1>4, <1>old, <3>1
  <2>2. \A p \in Requests : chain[p] # <<>> =>
          /\ chain'[p] # <<>> /\ 1 \in Positions(p) /\ Head(chain[p]) = chain[p][1]
          /\ Head(chain'[p]) = chain'[p][1]
    BY <1>len, <1>5, TailFacts DEF Positions
  <2>3. phase'[r] = "chained"
    BY <1>1, <1>3 DEF TypeOK
  <2>4. ASSUME NEW p \in Requests
        PROVE  locked'[p] <=> chain'[p] # <<>> /\ phase'[Head(chain'[p])] = "running"
    <3>1. CASE chain[p] # <<>>
      BY <1>3, <2>1, <2>2, <3>1 DEF QueueInv, LockPerObject
    <3>2. CASE chain[p] = <<>> /\ p # o
      BY <1>3, <1>5, <3>2 DEF QueueInv, LockPerObject
    <3>3. CASE chain[p] = <<>> /\ p = o
      <4>1. Head(chain'[o]) = r
        BY <1>2, <1>5, <3>3, AppendFacts
      <4>2. QED
        BY <1>3, <2>3, <3>3, <4>1 DEF QueueInv, LockPerObject
    <3>4. QED
      BY <3>1, <3>2, <3>3
  <2>5. ASSUME NEW p \in Requests, NEW i \in 2..Len(chain'[p])
        PROVE  phase'[chain'[p][i]] = "chained"
    <3>1. i \in 1..Len(chain'[p])
      BY <1>len, <1>5
    <3>2. CASE i \in Positions(p)
      <4>1. i \in 2..Len(chain[p])
        BY <3>2, <1>len DEF Positions
      <4>2. QED
        BY <2>1, <3>2, <4>1 DEF QueueInv, LockPerObject
    <3>3. CASE chain'[p][i] = r
      BY <2>3, <3>3
    <3>4. QED
      BY <1>new, <3>1, <3>2, <3>3
  <2>6. QED
    BY <2>4, <2>5 DEF LockPerObject
<1>11. PendingIsRest'
  <2>1. SUFFICES ASSUME NEW p \in Requests, KeyOf[p] \notin cleared
                 PROVE  pending'[p] = IF locked'[p] THEN Tail(chain'[p]) ELSE chain'[p]
    BY <1>3 DEF PendingIsRest
  <2>2. CASE p # o
    BY <1>1, <1>3, <1>5, <2>1, <2>2 DEF QueueInv, PendingIsRest, TypeOK
  <2>3. CASE p = o /\ ~locked[o]
    BY <1>1, <1>3, <1>5, <2>1, <2>3 DEF QueueInv, PendingIsRest, TypeOK
  <2>4. CASE p = o /\ locked[o]
    <3>1. chain[o] # <<>>
      BY <1>1, <2>4 DEF QueueInv, LockPerObject
    <3>2. Tail(Append(chain[o], r)) = Append(Tail(chain[o]), r)
      BY <1>2, <3>1, AppendFacts
    <3>3. QED
      BY <1>1, <1>3, <1>5, <2>1, <2>4, <3>2 DEF QueueInv, PendingIsRest, TypeOK
  <2>5. QED
    BY <2>2, <2>3, <2>4
<1>12. ChainedOnce'
  <2>1. SUFFICES ASSUME NEW p \in Requests, NEW q \in Requests,
                        NEW i \in 1..Len(chain'[p]), NEW j \in 1..Len(chain'[q]),
                        chain'[p][i] = chain'[q][j]
                 PROVE  p = q /\ i = j
    BY DEF ChainedOnce, Positions
  <2>2. CASE i \in Positions(p) /\ j \in Positions(q)
    BY <1>old, <2>1, <2>2 DEF QueueInv, ChainedOnce
  <2>3. QED
    BY <1>4, <1>old, <1>new, <2>1, <2>2
<1>13. ChainedIsLive'
  <2>1. SUFFICES ASSUME NEW q \in Requests
                 PROVE  phase'[q] \in {"chained", "running"} <=>
                          \E p \in Requests : \E i \in 1..Len(chain'[p]) : chain'[p][i] = q
    BY DEF ChainedIsLive, Positions
  <2>2. CASE q = r
    <3>1. phase'[q] = "chained"
      BY <1>1, <1>3, <2>2 DEF TypeOK
    <3>2. Len(chain[o]) + 1 \in 1..Len(chain'[o])
      BY <1>2, <1>5
    <3>3. QED
      BY <1>5, <2>2, <3>1, <3>2
  <2>3. CASE q # r
    <3>1. phase'[q] = phase[q]
      BY <1>1, <1>3, <2>3 DEF TypeOK
    <3>2. (\E p \in Requests : \E i \in Positions(p) : chain[p][i] = q) <=>
            \E p \in Requests : \E i \in 1..Len(chain'[p]) : chain'[p][i] = q
      BY <1>old, <1>new, <2>3
    <3>3. QED
      BY <3>1, <3>2 DEF QueueInv, ChainedIsLive
  <2>4. QED
    BY <2>2, <2>3
<1>14. QED
  BY <1>6, <1>7, <1>8, <1>9, <1>10, <1>11, <1>12, <1>13 DEF QueueInv

\* What Expire and Finish have in common: the entry at the head of a chain
\* leaves it, the lock is free, and the key is unmapped if nothing waits.  On
\* a cleared key the map and what waits may say anything.
LEMMA PopStep ==
  ASSUME QueueInv, TypeOK',
         NEW o \in Requests, NEW r \in Requests,
         chain[o] # <<>>, r = Head(chain[o]),
         chain' = [chain EXCEPT ![o] = Tail(@)],
         phase' = [phase EXCEPT ![r] = "done"],
         locked' = [locked EXCEPT ![o] = FALSE],
         \A p \in Requests \ {o} : pending'[p] = pending[p],
         queues' = queues \/ queues' = [queues EXCEPT ![KeyOf[r]] = None],
         KeyOf[o] \notin cleared =>
           /\ pending'[o] = Tail(chain[o])
           /\ queues' = IF Tail(chain[o]) = <<>>
                        THEN [queues EXCEPT ![KeyOf[r]] = None] ELSE queues,
         UNCHANGED cleared
  PROVE  QueueInv'
<1> USE QueueAssumption
<1>1. TypeOK /\ KeyOf[o] \in Keys
  BY DEF QueueInv
<1>len. \A p \in Requests : chain[p] \in Seq(Requests) /\ Len(chain[p]) \in Nat
  BY <1>1 DEF TypeOK
<1>2. /\ chain'[o] = Tail(chain[o])
      /\ Len(chain'[o]) = Len(chain[o]) - 1
      /\ \A i \in 1..Len(chain[o]) - 1 : chain'[o][i] = chain[o][i + 1]
      /\ chain[o][1] = r
      /\ 1 \in Positions(o)
      /\ \A p \in Requests \ {o} : chain'[p] = chain[p]
  <2>1. chain'[o] = Tail(chain[o]) /\ \A p \in Requests \ {o} : chain'[p] = chain[p]
    BY <1>1 DEF TypeOK
  <2>2. chain[o] \in Seq(Requests)
    BY <1>len
  <2>3. /\ Head(chain[o]) = chain[o][1]
        /\ Len(chain[o]) \in Nat \ {0}
        /\ Len(Tail(chain[o])) = Len(chain[o]) - 1
        /\ \A i \in 1..Len(chain[o]) - 1 : Tail(chain[o])[i] = chain[o][i + 1]
    BY <2>2, TailFacts
  <2>4. chain[o][1] = r /\ 1 \in Positions(o)
    BY <2>3 DEF Positions
  <2>5. /\ Len(chain'[o]) = Len(chain[o]) - 1
        /\ \A i \in 1..Len(chain[o]) - 1 : chain'[o][i] = chain[o][i + 1]
    BY <2>1, <2>3, Zenon
  <2>6. QED
    BY <2>1, <2>4, <2>5, Zenon
<1>3. KeyOf[r] = KeyOf[o]
  BY <1>2 DEF QueueInv, ChainsAreKeyed
<1>new. \A p \in Requests : \A i \in 1..Len(chain'[p]) :
          \/ p # o /\ i \in Positions(p) /\ chain'[p][i] = chain[p][i]
          \/ p = o /\ i + 1 \in Positions(o) /\ i >= 1 /\ chain'[p][i] = chain[o][i + 1]
  BY <1>2, <1>len DEF Positions
<1>old. \A p \in Requests : \A i \in Positions(p) :
          \/ p # o /\ i \in 1..Len(chain'[p]) /\ chain'[p][i] = chain[p][i]
          \/ p = o /\ i = 1 /\ chain[p][i] = r
          \/ p = o /\ i - 1 \in 1..Len(chain'[o]) /\ chain'[o][i - 1] = chain[p][i]
  <2>1. SUFFICES ASSUME NEW i \in Positions(o), i # 1
                 PROVE  i - 1 \in 1..Len(chain'[o]) /\ chain'[o][i - 1] = chain[o][i]
    BY <1>2, <1>len DEF Positions
  <2>2. i - 1 \in 1..Len(chain[o]) - 1 /\ (i - 1) + 1 = i
    BY <1>len, <2>1 DEF Positions
  <2>3. chain'[o][i - 1] = chain[o][(i - 1) + 1]
    BY <1>2, <2>2
  <2>4. QED
    BY <1>2, <2>2, <2>3
<1>4. \A p \in Requests : \A i \in 1..Len(chain'[p]) :
        chain'[p][i] \in Requests /\ chain'[p][i] # r
  <2>1. SUFFICES ASSUME NEW p \in Requests, NEW i \in 1..Len(chain'[p])
                 PROVE  chain'[p][i] \in Requests /\ chain'[p][i] # r
    OBVIOUS
  <2>2. CASE p # o /\ i \in Positions(p) /\ chain'[p][i] = chain[p][i]
    <3>1. chain[p][i] # chain[o][1]
      BY <1>2, <2>2 DEF QueueInv, ChainedOnce
    <3>2. QED
      BY <1>2, <1>len, <2>2, <3>1, ElementOfSeq DEF Positions
  <2>3. CASE p = o /\ i + 1 \in Positions(o) /\ i >= 1 /\ chain'[p][i] = chain[o][i + 1]
    <3>1. i \in Nat /\ i + 1 # 1
      BY <1>len, <2>3 DEF Positions
    <3>2. chain[o][i + 1] # chain[o][1]
      BY <1>2, <2>3, <3>1 DEF QueueInv, ChainedOnce
    <3>3. QED
      BY <1>2, <1>len, <2>3, <3>2, ElementOfSeq DEF Positions
  <2>4. QED
    BY <1>new, <2>2, <2>3
<1>5. \A q \in Requests \ {r} : phase'[q] = phase[q]
  BY <1>1 DEF TypeOK
<1>key. MapEntriesKeyed'
  BY <1>1 DEF QueueInv, MapEntriesKeyed, TypeOK
<1>6. MapEntriesLive'
  <2>1. SUFFICES ASSUME NEW k \in Keys, k \notin cleared, queues'[k] # None
                 PROVE  chain'[queues'[k]] # <<>>
    BY DEF MapEntriesLive
  <2>2. queues'[k] = queues[k] /\ (k = KeyOf[o] => Tail(chain[o]) # <<>>)
    <3>1. queues \in [Keys -> Requests \cup {None}]
      BY <1>1 DEF TypeOK
    <3>2. queues'[k] = queues[k]
      BY <2>1, <3>1
    <3>3. k = KeyOf[o] => Tail(chain[o]) # <<>>
      BY <1>3, <2>1, <3>1
    <3>4. QED
      BY <3>2, <3>3
  <2>3. queues[k] \in Requests /\ KeyOf[queues[k]] = k /\ chain[queues[k]] # <<>>
    BY <1>1, <2>1, <2>2 DEF QueueInv, MapEntriesKeyed, MapEntriesLive, TypeOK
  <2>4. QED
    BY <1>2, <2>2, <2>3
<1>7. WorkIsMapped'
  <2>1. SUFFICES ASSUME NEW p \in Requests, KeyOf[p] \notin cleared, chain'[p] # <<>>
                 PROVE  queues'[KeyOf[p]] = p
    BY DEF WorkIsMapped
  <2>2. chain[p] # <<>>
    BY <1>2, <2>1
  <2>3. queues[KeyOf[p]] = p
    BY <2>1, <2>2 DEF QueueInv, WorkIsMapped
  <2>4. CASE p = o
    BY <1>2, <2>1, <2>3, <2>4
  <2>5. CASE p # o
    <3>1. KeyOf[p] # KeyOf[o]
      BY <2>1, <2>3, <2>5 DEF QueueInv, WorkIsMapped
    <3>2. QED
      BY <1>1, <1>3, <2>3, <3>1 DEF TypeOK
  <2>6. QED
    BY <2>4, <2>5
<1>8. ChainsAreKeyed'
  BY <1>new DEF QueueInv, ChainsAreKeyed, Positions
<1>9. LockPerObject'
  <2>1. ASSUME NEW p \in Requests
        PROVE  locked'[p] <=> chain'[p] # <<>> /\ phase'[Head(chain'[p])] = "running"
    <3>1. chain'[p] \in Seq(Requests)
      BY DEF TypeOK
    <3>2. chain'[p] # <<>> => Head(chain'[p]) = chain'[p][1] /\ 1 \in 1..Len(chain'[p])
      BY <3>1, TailFacts
    <3>3. CASE p = o
      <4>1. ~locked'[o]
        BY <1>1 DEF TypeOK
      <4>2. SUFFICES ASSUME chain'[o] # <<>> PROVE phase'[Head(chain'[o])] = "chained"
        BY <3>3, <4>1
      <4>3. 2 \in 2..Len(chain[o]) /\ chain'[o][1] = chain[o][1 + 1]
        BY <1>2, <1>len, <3>2, <3>3, <4>2
      <4>4. phase[chain[o][2]] = "chained"
        BY <4>3 DEF QueueInv, LockPerObject
      <4>5. QED
        BY <1>4, <1>5, <3>2, <3>3, <4>2, <4>3, <4>4
    <3>4. CASE p # o
      <4>1. locked'[p] = locked[p] /\ chain'[p] = chain[p]
        BY <1>1, <1>2, <3>4 DEF TypeOK
      <4>2. chain[p] # <<>> => phase'[Head(chain'[p])] = phase[Head(chain[p])]
        <5>1. SUFFICES ASSUME chain'[p] # <<>> PROVE phase'[Head(chain'[p])] = phase[Head(chain'[p])]
          BY <4>1, Zenon
        <5>2. Head(chain'[p]) \in Requests \ {r}
          BY <1>4, <3>2, <5>1
        <5>3. QED
          BY <1>5, <5>2
      <4>3. QED
        BY <4>1, <4>2 DEF QueueInv, LockPerObject
    <3>5. QED
      BY <3>3, <3>4
  <2>2. ASSUME NEW p \in Requests, NEW i \in 2..Len(chain'[p])
        PROVE  phase'[chain'[p][i]] = "chained"
    <3>1. i \in 1..Len(chain'[p]) /\ i >= 2
      BY <1>2, <1>len
    <3>2. PICK j \in 2..Len(chain[p]) : chain'[p][i] = chain[p][j]
      BY <1>new, <1>len, <3>1 DEF Positions
    <3>3. phase[chain[p][j]] = "chained"
      BY <3>2 DEF QueueInv, LockPerObject
    <3>4. QED
      BY <1>4, <1>5, <3>1, <3>2, <3>3
  <2>3. QED
    BY <2>1, <2>2 DEF LockPerObject
<1>10. PendingIsRest'
  BY <1>1, <1>2 DEF QueueInv, PendingIsRest, TypeOK
<1>11. ChainedOnce'
  <2>1. SUFFICES ASSUME NEW p \in Requests, NEW q \in Requests,
                        NEW i \in 1..Len(chain'[p]), NEW j \in 1..Len(chain'[q]),
                        chain'[p][i] = chain'[q][j]
                 PROVE  p = q /\ i = j
    BY DEF ChainedOnce, Positions
  <2>2. PICK a \in Positions(p) : chain'[p][i] = chain[p][a] /\ a = IF p = o THEN i + 1 ELSE i
    BY <1>new
  <2>3. PICK b \in Positions(q) : chain'[q][j] = chain[q][b] /\ b = IF q = o THEN j + 1 ELSE j
    BY <1>new
  <2>4. p = q /\ a = b
    BY <2>1, <2>2, <2>3 DEF QueueInv, ChainedOnce
  <2>5. QED
    BY <1>2, <1>len, <2>2, <2>3, <2>4
<1>12. ChainedIsLive'
  <2>1. SUFFICES ASSUME NEW q \in Requests
                 PROVE  phase'[q] \in {"chained", "running"} <=>
                          \E p \in Requests : \E i \in 1..Len(chain'[p]) : chain'[p][i] = q
    BY DEF ChainedIsLive, Positions
  <2>2. CASE q = r
    BY <1>1, <1>4, <2>2 DEF TypeOK
  <2>3. CASE q # r
    <3>1. (\E p \in Requests : \E i \in Positions(p) : chain[p][i] = q) <=>
            \E p \in Requests : \E i \in 1..Len(chain'[p]) : chain'[p][i] = q
      <4>1. ASSUME NEW p \in Requests, NEW i \in Positions(p), chain[p][i] = q
            PROVE  \E m \in Requests : \E k \in 1..Len(chain'[m]) : chain'[m][k] = q
        BY <1>old, <2>3, <4>1
      <4>2. ASSUME NEW p \in Requests, NEW i \in 1..Len(chain'[p]), chain'[p][i] = q
            PROVE  \E m \in Requests : \E k \in Positions(m) : chain[m][k] = q
        BY <1>new, <4>2
      <4>3. QED
        BY <4>1, <4>2
    <3>2. QED
      BY <1>5, <2>3, <3>1 DEF QueueInv, ChainedIsLive
  <2>4. QED
    BY <2>2, <2>3
<1>13. QED
  BY <1>key, <1>6, <1>7, <1>8, <1>9, <1>10, <1>11, <1>12 DEF QueueInv

\* An entry at the head of its chain that has not started holds no lock, and
\* what waits behind the head is what remains pending, unless it was cleared.
LEMMA HeadFacts ==
  ASSUME QueueInv, NEW o \in Requests, chain[o] # <<>>
  PROVE  /\ Head(chain[o]) \in Requests
         /\ Tail(chain[o]) \in Seq(Requests)
         /\ Unqueue(pending[o], Head(chain[o])) \in Seq(Requests)
         /\ phase[Head(chain[o])] = "chained" =>
              /\ ~locked[o]
              /\ KeyOf[o] \notin cleared =>
                   Unqueue(pending[o], Head(chain[o])) = Tail(chain[o])
         /\ phase[Head(chain[o])] = "running" =>
              /\ locked[o]
              /\ KeyOf[o] \notin cleared => pending[o] = Tail(chain[o])
<1>1. chain[o] \in Seq(Requests)
  BY DEF QueueInv, TypeOK
<1>2. Head(chain[o]) \in Requests /\ Tail(chain[o]) \in Seq(Requests)
  BY <1>1, TailFacts
<1>3. Unqueue(pending[o], Head(chain[o])) \in Seq(Requests)
  <2>1. pending[o] \in Seq(Requests)
    BY DEF QueueInv, TypeOK
  <2>2. QED
    BY <2>1, TailFacts DEF Unqueue
<1>4. QED
  BY <1>2, <1>3 DEF QueueInv, LockPerObject, PendingIsRest, Unqueue

\* runEntry() of an expired entry preserves the invariant.
LEMMA ExpireStep ==
  ASSUME QueueInv, NEW o \in Requests, Expire(o)
  PROVE  QueueInv'
<1>1. PICK r \in Requests : r = Head(chain[o])
  BY HeadFacts DEF Expire
<1>2. /\ chain[o] # <<>> /\ phase[r] = "chained"
      /\ pending' = [pending EXCEPT ![o] = Unqueue(@, r)]
      /\ chain' = [chain EXCEPT ![o] = Tail(@)]
      /\ phase' = [phase EXCEPT ![r] = "done"]
      /\ outcome' = Settle(outcome, r, "timeout")
      /\ queues' = Release(KeyOf[r], locked[o], pending'[o])
      /\ UNCHANGED <<now, locked, expires, order, cleared>>
  BY <1>1 DEF Expire
<1>3. /\ ~locked[o] /\ Unqueue(pending[o], r) \in Seq(Requests)
      /\ Tail(chain[o]) \in Seq(Requests)
      /\ KeyOf[o] \notin cleared => Unqueue(pending[o], r) = Tail(chain[o])
  BY <1>1, <1>2, HeadFacts
<1>4. TypeOK
  BY DEF QueueInv
<1>5. /\ pending'[o] = Unqueue(pending[o], r)
      /\ \A p \in Requests \ {o} : pending'[p] = pending[p]
      /\ locked' = [locked EXCEPT ![o] = FALSE]
  BY <1>2, <1>3, <1>4 DEF TypeOK
<1>6. queues' = IF pending'[o] = <<>> THEN [queues EXCEPT ![KeyOf[r]] = None] ELSE queues
  BY <1>2, <1>3, <1>5 DEF Release
<1>7. TypeOK'
  BY <1>2, <1>3, <1>4, <1>5, <1>6, QueueAssumption DEF TypeOK, Settle, Phases, Outcomes
<1>8. QED
  BY <1>1, <1>2, <1>3, <1>5, <1>6, <1>7, PopStep

\* The end of runEntry() preserves the invariant.
LEMMA FinishStep ==
  ASSUME QueueInv, NEW o \in Requests, Finish(o)
  PROVE  QueueInv'
<1>1. PICK r \in Requests : r = Head(chain[o])
  BY HeadFacts DEF Finish
<1>2. /\ chain[o] # <<>> /\ phase[r] = "running"
      /\ chain' = [chain EXCEPT ![o] = Tail(@)]
      /\ locked' = [locked EXCEPT ![o] = FALSE]
      /\ phase' = [phase EXCEPT ![r] = "done"]
      /\ \E how \in {"value", "error"} : outcome' = Settle(outcome, r, how)
      /\ queues' = Release(KeyOf[r], FALSE, pending[o])
      /\ UNCHANGED <<now, pending, expires, order, cleared>>
  BY <1>1 DEF Finish
<1>3. /\ locked[o] /\ Tail(chain[o]) \in Seq(Requests)
      /\ KeyOf[o] \notin cleared => pending[o] = Tail(chain[o])
  BY <1>1, <1>2, HeadFacts
<1>4. TypeOK
  BY DEF QueueInv
<1>5. queues' = IF pending[o] = <<>> THEN [queues EXCEPT ![KeyOf[r]] = None] ELSE queues
  BY <1>2 DEF Release
<1>6. TypeOK'
  BY <1>2, <1>3, <1>4, <1>5, QueueAssumption DEF TypeOK, Settle, Phases, Outcomes
<1>7. QED
  BY <1>1, <1>2, <1>3, <1>5, <1>6, PopStep

\* Taking the lock preserves the invariant.
LEMMA StartStep ==
  ASSUME QueueInv, NEW o \in Requests, Start(o)
  PROVE  QueueInv'
<1>1. PICK r \in Requests : r = Head(chain[o])
  BY HeadFacts DEF Start
<1>2. /\ chain[o] # <<>> /\ phase[r] = "chained"
      /\ pending' = [pending EXCEPT ![o] = Unqueue(@, r)]
      /\ locked' = [locked EXCEPT ![o] = TRUE]
      /\ phase' = [phase EXCEPT ![r] = "running"]
      /\ UNCHANGED <<now, queues, chain, expires, outcome, order, cleared>>
  BY <1>1 DEF Start
<1>3. /\ ~locked[o] /\ Unqueue(pending[o], r) \in Seq(Requests)
      /\ KeyOf[o] \notin cleared => Unqueue(pending[o], r) = Tail(chain[o])
  BY <1>1, <1>2, HeadFacts
<1>4. TypeOK
  BY DEF QueueInv
<1>5. /\ pending'[o] = Unqueue(pending[o], r)
      /\ \A p \in Requests \ {o} : pending'[p] = pending[p]
  BY <1>2, <1>4 DEF TypeOK
<1>6. TypeOK'
  BY <1>2, <1>3, <1>4, <1>5 DEF TypeOK, Phases
<1>7. PendingIsRest'
  BY <1>2, <1>3, <1>4, <1>5 DEF QueueInv, PendingIsRest, TypeOK
<1>8. LockPerObject'
  <2>1. \A p \in Requests : chain[p] # <<>> =>
          Head(chain[p]) = chain[p][1] /\ 1 \in Positions(p) /\ Head(chain[p]) \in Requests
    BY <1>4, TailFacts DEF TypeOK, Positions
  <2>2. ASSUME NEW p \in Requests, chain[p] # <<>>, p # o PROVE Head(chain[p]) # r
    BY <1>1, <1>2, <2>1, <2>2 DEF QueueInv, ChainedOnce
  <2>3. ASSUME NEW p \in Requests, NEW i \in 2..Len(chain[p])
        PROVE  chain[p][i] # r /\ chain[p][i] \in Requests
    <3>1. Len(chain[p]) \in Nat /\ chain[p] \in Seq(Requests)
      BY <1>4 DEF TypeOK
    <3>2. i \in Positions(p) /\ i # 1
      BY <3>1 DEF Positions
    <3>3. QED
      BY <1>1, <1>2, <2>1, <3>1, <3>2, ElementOfSeq DEF QueueInv, ChainedOnce, Positions
  <2>4. \A q \in Requests \ {r} : phase'[q] = phase[q]
    BY <1>2, <1>4 DEF TypeOK
  <2>5. ASSUME NEW p \in Requests
        PROVE  locked'[p] <=> chain'[p] # <<>> /\ phase'[Head(chain'[p])] = "running"
    <3>1. CASE p = o
      BY <1>1, <1>2, <1>4, <3>1 DEF TypeOK
    <3>2. CASE p # o
      BY <1>2, <1>4, <2>1, <2>2, <2>4, <3>2 DEF TypeOK, QueueInv, LockPerObject
    <3>3. QED
      BY <3>1, <3>2
  <2>6. ASSUME NEW p \in Requests, NEW i \in 2..Len(chain[p])
        PROVE  phase'[chain[p][i]] = "chained"
    BY <2>3, <2>4 DEF QueueInv, LockPerObject
  <2>7. QED
    BY <1>2, <2>5, <2>6 DEF LockPerObject
<1>9. ChainedIsLive'
  <2>1. \A q \in Requests : phase'[q] \in {"chained", "running"} <=>
                             phase[q] \in {"chained", "running"}
    BY <1>2, <1>4 DEF TypeOK
  <2>2. QED
    BY <1>2, <2>1 DEF QueueInv, ChainedIsLive, Positions
<1>10. MapEntriesKeyed' /\ MapEntriesLive' /\ WorkIsMapped' /\ ChainsAreKeyed' /\ ChainedOnce'
  BY <1>2 DEF QueueInv, MapEntriesKeyed, MapEntriesLive, WorkIsMapped, ChainsAreKeyed,
              ChainedOnce, Positions
<1>11. QED
  BY <1>6, <1>7, <1>8, <1>9, <1>10 DEF QueueInv

\* enqueue() on a full queue changes only the promise of the rejected request:
\* the depth is positive, so the object it consults is already mapped.
LEMMA OverflowStep ==
  ASSUME QueueInv, NEW r \in Requests, Overflow(r)
  PROVE  QueueInv'
<1> USE QueueAssumption
<1>1. TypeOK /\ phase[r] = "idle" /\ phase' = [phase EXCEPT ![r] = "done"]
  BY DEF QueueInv, Overflow
<1>2. PICK o \in Requests : o = StateFor(r)
  BY DEF QueueInv, TypeOK, StateFor
<1>3. pending[o] # <<>>
  <2>1. Len(pending[o]) >= MaxQueueDepth /\ MaxQueueDepth > 0 /\ pending[o] \in Seq(Requests)
    BY <1>1, <1>2 DEF Overflow, TypeOK
  <2>2. QED
    BY <2>1
<1>4. ASSUME KeyOf[o] \notin cleared PROVE chain[o] # <<>>
  <2>1. CASE locked[o]
    BY <2>1 DEF QueueInv, LockPerObject
  <2>2. CASE ~locked[o]
    BY <1>3, <1>4, <2>2 DEF QueueInv, PendingIsRest
  <2>3. QED
    BY <2>1, <2>2
<1>5. KeyOf[o] = KeyOf[r] /\ (KeyOf[o] \notin cleared => queues[KeyOf[o]] = o)
  BY <1>2, <1>4 DEF QueueInv, WorkIsMapped, MapEntriesKeyed, StateFor, TypeOK
<1>6. /\ UNCHANGED <<pending, chain, locked, cleared>>
      /\ queues' = [queues EXCEPT ![KeyOf[o]] = o]
      /\ KeyOf[o] \in Keys
      /\ KeyOf[o] \notin cleared => queues' = queues
  BY <1>1, <1>2, <1>5 DEF Overflow, TypeOK
<1>7. TypeOK'
  <2>1. queues' \in [Keys -> Requests \cup {None}]
    BY <1>1, <1>6 DEF TypeOK
  <2>2. outcome' \in [Requests -> Outcomes \cup {None}]
    BY <1>1 DEF Overflow, TypeOK, Settle, Outcomes
  <2>3. phase' \in [Requests -> Phases]
    BY <1>1 DEF TypeOK, Phases
  <2>4. UNCHANGED <<now, expires, order>>
    BY DEF Overflow
  <2>5. QED
    BY <1>1, <1>6, <2>1, <2>2, <2>3, <2>4 DEF TypeOK
<1>8. \A q \in Requests : q # r => phase'[q] = phase[q]
  BY <1>1 DEF TypeOK
<1>9. \A p \in Requests : \A i \in Positions(p) : chain[p][i] # r /\ chain[p][i] \in Requests
  BY <1>1, ElementOfSeq DEF QueueInv, ChainedIsLive, Positions, TypeOK
<1>10. LockPerObject'
  <2>1. \A p \in Requests : chain[p] # <<>> => Head(chain[p]) = chain[p][1] /\ 1 \in Positions(p)
    BY <1>1, TailFacts DEF TypeOK, Positions
  <2>2. \A p \in Requests : \A i \in 2..Len(chain[p]) : i \in Positions(p)
    BY <1>1 DEF TypeOK, Positions
  <2>3. QED
    BY <1>6, <1>8, <1>9, <2>1, <2>2 DEF QueueInv, LockPerObject
<1>11. ChainedIsLive'
  <2>1. \A q \in Requests : phase'[q] \in {"chained", "running"} <=>
                             phase[q] \in {"chained", "running"}
    BY <1>1, <1>8 DEF TypeOK
  <2>2. QED
    BY <1>6, <2>1 DEF QueueInv, ChainedIsLive, Positions
<1>12. ChainsAreKeyed' /\ ChainedOnce' /\ PendingIsRest'
  BY <1>6 DEF QueueInv, ChainsAreKeyed, ChainedOnce, PendingIsRest, Positions
<1>13. MapEntriesKeyed' /\ MapEntriesLive' /\ WorkIsMapped'
  BY <1>1, <1>6 DEF QueueInv, TypeOK, MapEntriesKeyed, MapEntriesLive, WorkIsMapped
<1>14. QED
  BY <1>7, <1>10, <1>11, <1>12, <1>13 DEF QueueInv

\* clear() empties what waits on the object its key maps to and may unmap it:
\* every other key, and every chain and lock, stays as it was.
LEMMA ClearStep ==
  ASSUME QueueInv, NEW k \in Keys, Clear(k)
  PROVE  QueueInv'
<1> USE QueueAssumption
<1>1. TypeOK /\ queues[k] \in Requests /\ KeyOf[queues[k]] = k
  BY DEF QueueInv, TypeOK, MapEntriesKeyed, Clear
<1>2. /\ pending' = [pending EXCEPT ![queues[k]] = <<>>]
      /\ queues' = queues \/ queues' = [queues EXCEPT ![k] = None]
      /\ cleared' = cleared \cup {k}
      /\ UNCHANGED <<now, chain, locked, phase, expires, order>>
  BY DEF Clear
<1>3. TypeOK'
  <2>1. outcome' \in [Requests -> Outcomes \cup {None}]
    <3>1. ASSUME NEW r \in Requests
          PROVE  (IF (\E i \in 1..Len(pending[queues[k]]) : pending[queues[k]][i] = r)
                       /\ outcome[r] = None
                  THEN "timeout" ELSE outcome[r]) \in Outcomes \cup {None}
      BY <1>1 DEF TypeOK, Outcomes
    <3>2. QED
      BY <3>1 DEF Clear
  <2>2. queues' \in [Keys -> Requests \cup {None}]
    BY <1>1, <1>2 DEF TypeOK
  <2>3. pending' \in [Requests -> Seq(Requests)]
    BY <1>1, <1>2 DEF TypeOK
  <2>4. QED
    BY <1>1, <1>2, <2>1, <2>2, <2>3 DEF TypeOK
<1>q. \A j \in Keys : queues'[j] = queues[j] \/ (j = k /\ queues'[j] = None)
  BY <1>1, <1>2 DEF TypeOK
<1>4. MapEntriesKeyed' /\ MapEntriesLive' /\ WorkIsMapped'
  <2>1. MapEntriesKeyed'
    BY <1>q DEF QueueInv, MapEntriesKeyed
  <2>2. MapEntriesLive'
    BY <1>2, <1>q DEF QueueInv, MapEntriesLive
  <2>3. WorkIsMapped'
    BY <1>2, <1>q DEF QueueInv, WorkIsMapped
  <2>4. QED
    BY <2>1, <2>2, <2>3
<1>5. PendingIsRest'
  BY <1>1, <1>2 DEF QueueInv, TypeOK, PendingIsRest
<1>6. ChainsAreKeyed' /\ ChainedOnce' /\ ChainedIsLive' /\ LockPerObject'
  BY <1>2 DEF QueueInv, ChainsAreKeyed, ChainedOnce, ChainedIsLive, LockPerObject, Positions
<1>7. QED
  BY <1>3, <1>4, <1>5, <1>6 DEF QueueInv

\* Every step of the queue preserves the invariant.
LEMMA QueueInvStep ==
  ASSUME QueueInv, [Next]_vars
  PROVE  QueueInv'
<1>1. ASSUME NEW r \in Requests, NEW e \in Expiries, Accept(r, e) PROVE QueueInv'
  BY <1>1, AcceptStep, QueueAssumption
<1>2. ASSUME NEW r \in Requests, Overflow(r) PROVE QueueInv'
  BY <1>2, OverflowStep
<1>3. ASSUME NEW o \in Requests, Expire(o) PROVE QueueInv'
  BY <1>3, ExpireStep
<1>4. ASSUME NEW o \in Requests, Start(o) PROVE QueueInv'
  BY <1>4, StartStep
<1>5. ASSUME NEW o \in Requests, Finish(o) PROVE QueueInv'
  BY <1>5, FinishStep
<1>clear. ASSUME NEW k \in Keys, Clear(k) PROVE QueueInv'
  BY <1>clear, ClearStep
<1>6. CASE Tick \/ UNCHANGED vars
  <2>1. UNCHANGED <<queues, pending, chain, locked, phase, cleared>>
    BY <1>6 DEF Tick, vars
  <2>2. TypeOK'
    BY <1>6 DEF Tick, vars, QueueInv, TypeOK
  <2>3. QED
    BY <2>1, <2>2 DEF QueueInv, MapEntriesKeyed, MapEntriesLive, WorkIsMapped, ChainsAreKeyed,
                      PendingIsRest, ChainedOnce, ChainedIsLive, LockPerObject, Positions
<1>7. QED
  BY <1>1, <1>2, <1>3, <1>4, <1>5, <1>clear, <1>6 DEF Next

\* The invariant implies that a session runs one request at a time.
LEMMA RunningAlone ==
  ASSUME QueueInv, NEW r \in Requests, NEW s \in Requests,
         phase[r] = "running", phase[s] = "running", KeyOf[r] = KeyOf[s],
         KeyOf[r] \notin cleared
  PROVE  r = s
<1>a. PICK o \in Requests : \E i \in Positions(o) : chain[o][i] = r
  BY DEF QueueInv, ChainedIsLive
<1>2. PICK i \in Positions(o) : chain[o][i] = r
  BY <1>a
<1>b. PICK p \in Requests : \E j \in Positions(p) : chain[p][j] = s
  BY DEF QueueInv, ChainedIsLive
<1>3. PICK j \in Positions(p) : chain[p][j] = s
  BY <1>b
<1>4. chain[o] \in Seq(Requests) /\ chain[p] \in Seq(Requests)
  BY DEF QueueInv, TypeOK
<1>5. i = 1 /\ j = 1
  BY <1>2, <1>3, <1>4 DEF QueueInv, LockPerObject, Positions
<1>6. chain[o] # <<>> /\ chain[p] # <<>>
  BY <1>2, <1>3, <1>4 DEF Positions
<1>7. o = p
  BY <1>2, <1>3, <1>6 DEF QueueInv, WorkIsMapped, ChainsAreKeyed
<1>8. QED
  BY <1>2, <1>3, <1>5, <1>7

LEMMA QueueInvSerialises == QueueInv => OneAtATime
  BY RunningAlone DEF OneAtATime

\* The invariant implies that the map is exact.
LEMMA QueueInvTracks == QueueInv => MapTracksWork
<1>1. SUFFICES ASSUME QueueInv, NEW k \in Keys, k \notin cleared
               PROVE  /\ (queues[k] # None) <=>
                           \E r \in Requests : KeyOf[r] = k /\ phase[r] \in {"chained", "running"}
                      /\ (queues[k] # None /\ locked[queues[k]]) <=>
                           \E r \in Requests : KeyOf[r] = k /\ phase[r] = "running"
  BY DEF MapTracksWork
<1> USE QueueAssumption
<1>2. ASSUME queues[k] # None
      PROVE  /\ queues[k] \in Requests
             /\ KeyOf[queues[k]] = k
             /\ chain[queues[k]] # <<>>
             /\ 1 \in Positions(queues[k])
             /\ Head(chain[queues[k]]) = chain[queues[k]][1]
             /\ Head(chain[queues[k]]) \in Requests
             /\ KeyOf[Head(chain[queues[k]])] = k
  <2>1. queues[k] \in Requests /\ KeyOf[queues[k]] = k /\ chain[queues[k]] # <<>>
    BY <1>1, <1>2 DEF QueueInv, MapEntriesKeyed, MapEntriesLive, TypeOK
  <2>2. chain[queues[k]] \in Seq(Requests)
    BY <1>1, <2>1 DEF QueueInv, TypeOK
  <2>3. /\ 1 \in Positions(queues[k])
        /\ Head(chain[queues[k]]) = chain[queues[k]][1]
        /\ Head(chain[queues[k]]) \in Requests
    BY <2>1, <2>2, TailFacts DEF Positions
  <2>4. QED
    BY <1>1, <2>1, <2>3 DEF QueueInv, ChainsAreKeyed
<1>3. ASSUME NEW r \in Requests, KeyOf[r] = k, phase[r] \in {"chained", "running"}
      PROVE  queues[k] # None /\ (phase[r] = "running" => locked[queues[k]])
  <2>a. PICK o \in Requests : \E i \in Positions(o) : chain[o][i] = r
    BY <1>1, <1>3 DEF QueueInv, ChainedIsLive
  <2>1. PICK i \in Positions(o) : chain[o][i] = r
    BY <2>a
  <2>2. chain[o] \in Seq(Requests)
    BY <1>1 DEF QueueInv, TypeOK
  <2>3. chain[o] # <<>> /\ KeyOf[o] = k
    BY <1>1, <1>3, <2>1, <2>2 DEF QueueInv, ChainsAreKeyed, Positions
  <2>4. queues[k] = o
    BY <1>1, <2>3 DEF QueueInv, WorkIsMapped
  <2>5. phase[r] = "running" => i = 1
    BY <1>1, <2>1, <2>2 DEF QueueInv, LockPerObject, Positions
  <2>6. Head(chain[o]) = chain[o][1]
    BY <2>2, <2>3, TailFacts
  <2>7. phase[r] = "running" => locked[o]
    BY <1>1, <2>1, <2>3, <2>5, <2>6 DEF QueueInv, LockPerObject
  <2>8. QED
    BY <2>4, <2>7
<1>4. queues[k] # None =>
        /\ phase[Head(chain[queues[k]])] \in {"chained", "running"}
        /\ locked[queues[k]] => phase[Head(chain[queues[k]])] = "running"
  BY <1>1, <1>2 DEF QueueInv, ChainedIsLive, LockPerObject
<1>5. QED
  BY <1>2, <1>3, <1>4

-----------------------------------------------------------------------------
\* Each accepted request is once in the order of arrival, ...
ArrivedOnce == \A i, j \in 1..Len(order) : order[i] = order[j] => i = j

\* ... and no request is before it is accepted.
ArrivedBusy == \A i \in 1..Len(order) : phase[order[i]] # "idle"

\* Every chain follows the order of arrival.
ChainsFollowOrder ==
  \A o \in Requests : \A a, b \in Positions(o) : \A i, j \in 1..Len(order) :
    a < b /\ order[i] = chain[o][a] /\ order[j] = chain[o][b] => i < j

\* Within a key the order of arrival is the order of service.
ServedInOrder ==
  \A i, j \in 1..Len(order) :
    i < j /\ KeyOf[order[i]] = KeyOf[order[j]]
          /\ KeyOf[order[i]] \notin cleared
          /\ phase[order[j]] \in {"running", "done"}
      => phase[order[i]] = "done"

Ordered == ArrivedOnce /\ ArrivedBusy /\ ChainsFollowOrder /\ ServedInOrder

\* Whatever arrived before the head of a chain, for the same key, is done:
\* it could only be on the same chain, behind the head.
LEMMA HeadIsOldest ==
  ASSUME QueueInv, Ordered, NEW o \in Requests, chain[o] # <<>>,
         NEW i \in 1..Len(order), NEW j \in 1..Len(order), i < j,
         order[j] = Head(chain[o]), KeyOf[order[i]] = KeyOf[order[j]],
         KeyOf[order[i]] \notin cleared
  PROVE  phase[order[i]] = "done"
<1>1. SUFFICES ASSUME phase[order[i]] # "done" PROVE FALSE
  OBVIOUS
<1> DEFINE s == order[i]
<1>2. s \in Requests /\ phase[s] \in {"chained", "running"}
  <2>1. order \in Seq(Requests) /\ phase \in [Requests -> Phases] /\ phase[s] # "idle"
    BY DEF QueueInv, TypeOK, Ordered, ArrivedBusy
  <2>2. s \in Requests
    BY <2>1
  <2>3. QED
    BY <1>1, <2>1, <2>2 DEF Phases
<1>a. PICK p \in Requests : \E b \in Positions(p) : chain[p][b] = s
  BY <1>2 DEF QueueInv, ChainedIsLive
<1>3. PICK b \in Positions(p) : chain[p][b] = s
  BY <1>a
<1>4. /\ chain[o] \in Seq(Requests) /\ chain[p] \in Seq(Requests)
      /\ 1 \in Positions(o) /\ Head(chain[o]) = chain[o][1] /\ chain[p] # <<>>
  BY <1>3, TailFacts DEF QueueInv, TypeOK, Positions
<1>5. KeyOf[p] = KeyOf[o] /\ KeyOf[o] \notin cleared
  BY <1>3, <1>4 DEF QueueInv, ChainsAreKeyed
<1>6. p = o
  BY <1>4, <1>5 DEF QueueInv, WorkIsMapped
<1>7. b # 1
  BY <1>3, <1>4, <1>6 DEF Ordered, ArrivedOnce
<1>8. 1 < b /\ b \in Positions(o) /\ order[i] = chain[o][b] /\ order[j] = chain[o][1]
  BY <1>3, <1>4, <1>6, <1>7 DEF Positions
<1>9. j < i
  BY <1>4, <1>8 DEF Ordered, ChainsFollowOrder
<1>10. QED
  BY <1>9 DEF QueueInv, TypeOK

\* The head of a chain starts or leaves: the order of service is kept.
LEMMA HeadMoves ==
  ASSUME QueueInv, Ordered, NEW o \in Requests, chain[o] # <<>>,
         NEW to \in {"running", "done"},
         phase' = [phase EXCEPT ![Head(chain[o])] = to],
         order' = order, cleared' = cleared,
         chain' = chain \/ chain' = [chain EXCEPT ![o] = Tail(@)]
  PROVE  Ordered'
<1>1. /\ chain \in [Requests -> Seq(Requests)] /\ phase \in [Requests -> Phases]
      /\ order \in Seq(Requests)
  BY DEF QueueInv, TypeOK
<1>2. Head(chain[o]) \in Requests
  BY <1>1, TailFacts
<1>3. \A i \in 1..Len(order) : phase'[order[i]] # "idle"
  BY <1>1, <1>2 DEF Ordered, ArrivedBusy
<1>4. ASSUME NEW p \in Requests, NEW a \in Positions(p)', NEW b \in Positions(p)',
             NEW i \in 1..Len(order), NEW j \in 1..Len(order),
             a < b, order[i] = chain'[p][a], order[j] = chain'[p][b]
      PROVE  i < j
  <2>1. CASE chain'[p] = chain[p]
    BY <1>4, <2>1 DEF Ordered, ChainsFollowOrder, Positions
  <2>2. CASE p = o /\ chain'[o] = Tail(chain[o])
    <3>1. /\ a + 1 \in Positions(o) /\ b + 1 \in Positions(o) /\ a + 1 < b + 1
          /\ chain'[o][a] = chain[o][a + 1] /\ chain'[o][b] = chain[o][b + 1]
      BY <1>1, <1>4, <2>2, TailFacts DEF Positions
    <3>2. QED
      <4>1. order[i] = chain[o][a + 1] /\ order[j] = chain[o][b + 1]
        BY <1>4, <2>2, <3>1
      <4>2. QED
        BY <3>1, <4>1 DEF Ordered, ChainsFollowOrder
  <2>3. QED
    BY <1>1, <2>1, <2>2
<1>5. ASSUME NEW i \in 1..Len(order), NEW j \in 1..Len(order), i < j,
             KeyOf[order[i]] = KeyOf[order[j]], KeyOf[order[i]] \notin cleared,
             phase'[order[j]] \in {"running", "done"}
      PROVE  phase'[order[i]] = "done"
  <2>0. order[i] \in Requests /\ order[j] \in Requests
    BY <1>1
  <2>1. phase[order[i]] = "done"
    <3>1. CASE order[j] = Head(chain[o])
      BY <1>5, <3>1, HeadIsOldest
    <3>2. CASE order[j] # Head(chain[o])
      <4>1. phase[order[j]] \in {"running", "done"}
        BY <1>1, <1>2, <1>5, <2>0, <3>2
      <4>2. QED
        BY <1>5, <4>1 DEF Ordered, ServedInOrder
    <3>3. QED
      BY <3>1, <3>2
  <2>2. Head(chain[o]) # order[i]
    <3>1. 1 \in Positions(o) /\ chain[o][1] = Head(chain[o])
      BY <1>1, TailFacts DEF Positions
    <3>2. phase[Head(chain[o])] \in {"chained", "running"}
      BY <1>2, <3>1 DEF QueueInv, ChainedIsLive
    <3>3. QED
      BY <2>1, <3>2
  <2>3. QED
    BY <1>1, <2>0, <2>1, <2>2
<1>6. QED
  <2>1. ArrivedOnce' /\ ArrivedBusy'
    BY <1>3 DEF Ordered, ArrivedOnce, ArrivedBusy
  <2>2. ChainsFollowOrder'
    BY <1>4 DEF ChainsFollowOrder
  <2>3. ServedInOrder'
    BY <1>5 DEF ServedInOrder
  <2>4. QED
    BY <2>1, <2>2, <2>3 DEF Ordered

\* A request is accepted at the end of its chain and of the order.
LEMMA AcceptOrdered ==
  ASSUME QueueInv, Ordered, NEW r \in Requests, NEW e \in Expiries, Accept(r, e)
  PROVE  Ordered'
<1> DEFINE n == Len(order) + 1
<1> DEFINE o == StateFor(r)
<1>1. /\ chain \in [Requests -> Seq(Requests)] /\ phase \in [Requests -> Phases]
      /\ order \in Seq(Requests) /\ o \in Requests
  BY QueueAssumption DEF QueueInv, TypeOK, StateFor
<1>2. /\ phase[r] = "idle" /\ phase' = [phase EXCEPT ![r] = "chained"]
      /\ order' = Append(order, r) /\ chain' = [chain EXCEPT ![o] = Append(@, r)]
      /\ UNCHANGED cleared
  BY DEF Accept
<1>3. /\ Len(order) \in Nat /\ Len(order') = n /\ order'[n] = r
      /\ \A i \in 1..Len(order) : order'[i] = order[i] /\ order[i] \in Requests
  BY <1>1, <1>2, AppendFacts
<1>4. \A i \in 1..Len(order) : order[i] # r
  BY <1>2 DEF Ordered, ArrivedBusy
<1>5. \A p \in Requests : \A a \in Positions(p) : chain[p][a] # r
  BY <1>2 DEF QueueInv, ChainedIsLive
<1>6. \A i, j \in 1..n : order'[i] = order'[j] => i = j
  BY <1>3, <1>4 DEF Ordered, ArrivedOnce
<1>7. \A i \in 1..n : phase'[order'[i]] # "idle"
  <2>1. TAKE i \in 1..n
  <2>2. CASE i = n
    BY <1>1, <1>2, <1>3, <2>2
  <2>3. CASE i # n
    <3>1. i \in 1..Len(order) /\ order'[i] = order[i] /\ order[i] # r
      BY <1>3, <1>4, <2>3
    <3>2. QED
      BY <1>1, <1>2, <1>3, <3>1 DEF Ordered, ArrivedBusy
  <2>4. QED
    BY <2>2, <2>3
<1>8. ASSUME NEW p \in Requests, NEW a \in Positions(p)', NEW b \in Positions(p)',
             NEW i \in 1..n, NEW j \in 1..n,
             a < b, order'[i] = chain'[p][a], order'[j] = chain'[p][b]
      PROVE  i < j
  <2>1. CASE p # o
    <3>1. chain'[p] = chain[p]
      BY <1>1, <1>2, <2>1
    <3>2. i # n /\ j # n
      BY <1>3, <1>5, <1>8, <3>1 DEF Positions
    <3>3. QED
      <4>1. /\ i \in 1..Len(order) /\ j \in 1..Len(order)
            /\ a \in Positions(p) /\ b \in Positions(p)
            /\ order[i] = chain[p][a] /\ order[j] = chain[p][b]
        BY <1>3, <1>8, <3>1, <3>2 DEF Positions
      <4>2. QED
        BY <1>8, <4>1 DEF Ordered, ChainsFollowOrder
  <2>2. CASE p = o
    <3> DEFINE m == Len(chain[o]) + 1
    <3>1. /\ m - 1 \in Nat /\ Len(chain'[o]) = m /\ chain'[o][m] = r
          /\ \A x \in 1..(m - 1) : chain'[o][x] = chain[o][x]
      BY <1>1, <1>2, AppendFacts
    <3>2. a \in 1..(m - 1) /\ b \in 1..m
      BY <1>8, <2>2, <3>1 DEF Positions
    <3>3. chain'[o][a] = chain[o][a] /\ chain[o][a] # r
      BY <1>1, <1>5, <3>1, <3>2 DEF Positions
    <3>4. i # n /\ i \in 1..Len(order)
      BY <1>3, <1>8, <2>2, <3>3
    <3>5. CASE b = m
      <4>1. order'[j] = r
        BY <1>8, <2>2, <3>1, <3>5
      <4>2. j = n
        BY <1>3, <1>4, <4>1
      <4>3. QED
        BY <1>3, <3>4, <4>2
    <3>6. CASE b # m
      <4>1. b \in Positions(o) /\ chain'[o][b] = chain[o][b] /\ chain[o][b] # r
        <5>1. b \in 1..(m - 1)
          BY <3>1, <3>2, <3>6
        <5>2. QED
          BY <1>1, <1>5, <3>1, <5>1 DEF Positions
      <4>2. j # n /\ j \in 1..Len(order)
        BY <1>3, <1>8, <2>2, <4>1
      <4>3. a \in Positions(o)
        BY <3>2 DEF Positions
      <4>4. order[i] = chain[o][a] /\ order[j] = chain[o][b]
        BY <1>3, <1>8, <2>2, <3>3, <3>4, <4>1, <4>2
      <4>5. QED
        BY <1>1, <1>8, <3>4, <4>1, <4>2, <4>3, <4>4 DEF Ordered, ChainsFollowOrder
    <3>7. QED
      BY <3>5, <3>6
  <2>3. QED
    BY <2>1, <2>2
<1>9. ASSUME NEW i \in 1..n, NEW j \in 1..n, i < j,
             KeyOf[order'[i]] = KeyOf[order'[j]], KeyOf[order'[i]] \notin cleared,
             phase'[order'[j]] \in {"running", "done"}
      PROVE  phase'[order'[i]] = "done"
  <2>1. j # n
    BY <1>1, <1>2, <1>3, <1>9
  <2>2. i \in 1..Len(order) /\ j \in 1..Len(order)
    BY <1>3, <1>9, <2>1
  <2>3. phase'[order'[i]] = phase[order[i]] /\ phase'[order'[j]] = phase[order[j]]
    BY <1>1, <1>2, <1>3, <1>4, <2>2
  <2>4. QED
    BY <1>3, <1>9, <2>2, <2>3 DEF Ordered, ServedInOrder
<1>10. QED
  <2>1. ArrivedOnce' /\ ArrivedBusy'
    BY <1>3, <1>6, <1>7 DEF ArrivedOnce, ArrivedBusy
  <2>2. ChainsFollowOrder'
    BY <1>3, <1>8 DEF ChainsFollowOrder
  <2>3. ServedInOrder'
    BY <1>2, <1>3, <1>9 DEF ServedInOrder
  <2>4. QED
    BY <2>1, <2>2, <2>3 DEF Ordered

\* Every step keeps the order of service.
LEMMA OrderedStep ==
  ASSUME QueueInv, Ordered, [Next]_vars
  PROVE  Ordered'
<1>1. ASSUME NEW r \in Requests, NEW e \in Expiries, Accept(r, e) PROVE Ordered'
  BY <1>1, AcceptOrdered
<1>2. ASSUME NEW r \in Requests, Overflow(r) PROVE Ordered'
  <2>1. /\ phase \in [Requests -> Phases] /\ order \in Seq(Requests) /\ phase[r] = "idle"
        /\ phase' = [phase EXCEPT ![r] = "done"] /\ UNCHANGED <<order, chain, cleared>>
    BY <1>2 DEF Overflow, QueueInv, TypeOK
  <2>2. \A i \in 1..Len(order) : order[i] # r /\ order[i] \in Requests
    BY <2>1 DEF Ordered, ArrivedBusy
  <2>3. \A i \in 1..Len(order) : phase'[order[i]] = phase[order[i]]
    BY <2>1, <2>2
  <2>4. QED
    BY <2>1, <2>3 DEF Ordered, ArrivedOnce, ArrivedBusy, ChainsFollowOrder, ServedInOrder,
                        Positions
<1>3. ASSUME NEW o \in Requests, Expire(o) \/ Finish(o) PROVE Ordered'
  BY <1>3, HeadMoves DEF Expire, Finish
<1>4. ASSUME NEW o \in Requests, Start(o) PROVE Ordered'
  BY <1>4, HeadMoves DEF Start
<1>5. CASE Tick \/ UNCHANGED vars
  <2>1. UNCHANGED <<order, chain, phase, cleared>>
    BY <1>5 DEF Tick, vars
  <2>2. QED
    BY <2>1 DEF Ordered, ArrivedOnce, ArrivedBusy, ChainsFollowOrder, ServedInOrder,
                  Positions
<1>6. ASSUME NEW k \in Keys, Clear(k) PROVE Ordered'
  <2>1. cleared' = cleared \cup {k} /\ UNCHANGED <<order, chain, phase>>
    BY <1>6 DEF Clear
  <2>2. QED
    BY <2>1 DEF Ordered, ArrivedOnce, ArrivedBusy, ChainsFollowOrder, ServedInOrder, Positions
<1>7. QED
  BY <1>1, <1>2, <1>3, <1>4, <1>5, <1>6 DEF Next

\* The queue keeps its invariant for ever, whoever calls clear() and when.
THEOREM QueueInvariant == Spec => []QueueInv
<1>1. Init => QueueInv
  BY QueueInvInit
<1>2. QueueInv /\ [Next]_vars => QueueInv'
  BY QueueInvStep
<1>3. QED
  BY <1>1, <1>2, PTL DEF Spec

\* "only one session request runs at a time" (sessionRequestQueue.ts:11), for
\* any number of requests and sessions, in every session that clear() was not
\* called for: clearing one session never disturbs another.
THEOREM SessionSerialised == Spec => []OneAtATime
  BY QueueInvariant, QueueInvSerialises, PTL

\* size() and isLocked() are exact (sessionRequestQueue.ts:159-167) and the
\* map of queues neither leaks an idle session nor forgets a busy one, in
\* every session that clear() was not called for.
THEOREM SessionMapExact == Spec => []MapTracksWork
  BY QueueInvariant, QueueInvTracks, PTL

\* The queue's data keeps its shape, whatever clear() removes.
THEOREM SessionTypes == Spec => []TypeOK
<1>1. QueueInv => TypeOK
  BY DEF QueueInv
<1>2. QED
  BY <1>1, QueueInvariant, PTL

\* A queue-state object is locked exactly while the head of its chain runs
\* (sessionRequestQueue.ts:207-250), also when clear() has dropped it.
THEOREM SessionLocks == Spec => []LockPerObject
<1>1. QueueInv => LockPerObject
  BY DEF QueueInv
<1>2. QED
  BY <1>1, QueueInvariant, PTL

\* "request queueing per session (FIFO)": the requests of a session start in
\* the order of their enqueue, across every re-creation of its queue, until
\* clear() is called for it.
THEOREM SessionFifo == Spec => []FirstComeFirstServed
<1>1. Init => Ordered
  BY DEF Init, Ordered, ArrivedOnce, ArrivedBusy, ChainsFollowOrder, ServedInOrder,
         Positions
<1>2. QueueInv /\ Ordered /\ [Next]_vars => Ordered'
  BY OrderedStep
<1>3. Ordered => FirstComeFirstServed
  BY DEF Ordered, ServedInOrder, FirstComeFirstServed
<1>4. QED
  BY <1>1, <1>2, <1>3, QueueInvariant, PTL DEF Spec

-----------------------------------------------------------------------------
\* The line of a key that was not cleared is the chain of the one object the
\* map names, and there is no other object with work.
LEMMA LineFacts ==
  ASSUME QueueInv, NEW o \in Requests, chain[o] # <<>>, KeyOf[o] \notin cleared
  PROVE  /\ KeyOf[o] \in Keys /\ queues[KeyOf[o]] = o /\ Line[KeyOf[o]] = chain[o]
         /\ Head(chain[o]) \in Requests /\ KeyOf[Head(chain[o])] = KeyOf[o]
<1>1. KeyOf[o] \in Keys /\ queues[KeyOf[o]] = o /\ o # None
  BY QueueAssumption DEF QueueInv, WorkIsMapped
<1>2. Line[KeyOf[o]] = chain[o]
  BY <1>1 DEF Line
<1>3. chain[o] \in Seq(Requests)
  BY DEF QueueInv, TypeOK
<1>4. 1 \in Positions(o) /\ Head(chain[o]) = chain[o][1] /\ Head(chain[o]) \in Requests
  BY <1>3, TailFacts DEF Positions
<1>5. QED
  BY <1>1, <1>2, <1>4 DEF QueueInv, ChainsAreKeyed

\* A step on one key leaves the lines of the others alone.
LEMMA OtherLines ==
  ASSUME QueueInv, NEW o \in Requests, UNCHANGED cleared,
         \A p \in Requests : p # o => chain'[p] = chain[p],
         \A j \in Keys : j # KeyOf[o] => queues'[j] = queues[j]
  PROVE  \A j \in Keys : j # KeyOf[o] \/ j \in cleared => Line'[j] = Line[j]
<1>1. SUFFICES ASSUME NEW j \in Keys, j # KeyOf[o] \/ j \in cleared
               PROVE  Line'[j] = Line[j]
  OBVIOUS
<1>2. CASE j \in cleared
  BY <1>2 DEF Line
<1>3. CASE j \notin cleared
  <2>1. j # KeyOf[o] /\ queues'[j] = queues[j]
    BY <1>1, <1>3
  <2>2. CASE queues[j] = None
    BY <2>1, <2>2 DEF Line
  <2>3. CASE queues[j] # None
    <3>1. queues[j] \in Requests /\ queues[j] # o
      BY <2>1, <2>3 DEF QueueInv, TypeOK, MapEntriesKeyed
    <3>2. QED
      BY <2>1, <3>1 DEF Line
  <2>4. QED
    BY <2>2, <2>3
<1>4. QED
  BY <1>2, <1>3

\* Line is a function on the keys, so it is known when its values are.
LEMMA LineSame ==
  ASSUME \A j \in Keys : Line'[j] = Line[j]
  PROVE  Line' = Line
  BY DEF Line

LEMMA LineExcept ==
  ASSUME NEW k \in Keys, NEW s, Line'[k] = s, \A j \in Keys : j # k => Line'[j] = Line[j]
  PROVE  Line' = [Line EXCEPT ![k] = s]
  BY DEF Line

\* enqueue() joins the line of its key; a cleared key has no line to join.
LEMMA AcceptLine ==
  ASSUME QueueInv, NEW r \in Requests, NEW e \in Expiries, Accept(r, e)
  PROVE  LineView!Join(r) \/ UNCHANGED LineView!lineVars
<1> USE QueueAssumption
<1>1. PICK o \in Requests : o = StateFor(r)
  BY DEF QueueInv, TypeOK, StateFor
<1>2. TypeOK /\ KeyOf[o] = KeyOf[r] /\ o # None /\ KeyOf[r] \in Keys
  BY <1>1 DEF QueueInv, TypeOK, MapEntriesKeyed, StateFor
<1>3. /\ chain' = [chain EXCEPT ![o] = Append(@, r)]
      /\ queues' = [queues EXCEPT ![KeyOf[r]] = o]
      /\ phase' = [phase EXCEPT ![r] = "chained"]
      /\ phase[r] = "idle"
      /\ UNCHANGED cleared
  BY <1>1 DEF Accept
<1>4. Served' = Served
  <2>1. \A q \in Requests : phase'[q] = "running" <=> phase[q] = "running"
    BY <1>2, <1>3 DEF TypeOK
  <2>2. QED
    BY <1>3, <2>1 DEF Served
<1>5. \A j \in Keys : j # KeyOf[r] \/ j \in cleared => Line'[j] = Line[j]
  <2>1. \A p \in Requests : p # o => chain'[p] = chain[p]
    BY <1>2, <1>3 DEF TypeOK
  <2>2. \A j \in Keys : j # KeyOf[o] => queues'[j] = queues[j]
    BY <1>2, <1>3 DEF TypeOK
  <2>3. QED
    BY <1>2, <1>3, <2>1, <2>2, OtherLines
<1>6. CASE KeyOf[r] \in cleared
  <2>1. Line' = Line
    BY <1>5, <1>6, LineSame
  <2>2. QED
    BY <1>3, <1>4, <2>1 DEF LineView!lineVars
<1>7. CASE KeyOf[r] \notin cleared
  <2>1. Line[KeyOf[r]] = chain[o]
    <3>1. CASE queues[KeyOf[r]] = None
      <4>1. chain[o] = <<>>
        BY <1>2, <1>7, <3>1 DEF QueueInv, WorkIsMapped
      <4>2. QED
        BY <1>2, <1>7, <3>1, <4>1 DEF Line
    <3>2. CASE queues[KeyOf[r]] # None
      BY <1>1, <1>2, <1>7, <3>2 DEF Line, StateFor
    <3>3. QED
      BY <3>1, <3>2
  <2>2. Line'[KeyOf[r]] = Append(Line[KeyOf[r]], r)
    <3>1. queues'[KeyOf[r]] = o /\ chain'[o] = Append(chain[o], r)
      BY <1>2, <1>3 DEF TypeOK
    <3>2. Line'[KeyOf[r]] = chain'[o]
      BY <1>2, <1>3, <1>7, <3>1 DEF Line
    <3>3. QED
      BY <2>1, <3>1, <3>2
  <2>3. Line' = [Line EXCEPT ![KeyOf[r]] = Append(Line[KeyOf[r]], r)]
    BY <1>2, <1>5, <2>2, LineExcept
  <2>4. \A i \in DOMAIN chain[o] : chain[o][i] # r
    <3>1. DOMAIN chain[o] = Positions(o)
      BY <1>2 DEF TypeOK, Positions
    <3>2. \A i \in Positions(o) : chain[o][i] # r
      BY <1>3 DEF QueueInv, ChainedIsLive
    <3>3. QED
      BY <3>1, <3>2
  <2>5. QED
    BY <1>3, <1>4, <1>7, <2>1, <2>3, <2>4 DEF LineView!Join
<1>8. QED
  BY <1>6, <1>7

\* enqueue() on a full queue changes no line.
LEMMA OverflowLine ==
  ASSUME QueueInv, NEW r \in Requests, Overflow(r)
  PROVE  UNCHANGED LineView!lineVars
<1> USE QueueAssumption
<1>1. TypeOK /\ KeyOf[r] \in Keys /\ phase[r] = "idle"
  BY DEF QueueInv, Overflow
<1>2. /\ phase' = [phase EXCEPT ![r] = "done"] /\ UNCHANGED <<pending, chain, cleared>>
      /\ queues' = [queues EXCEPT ![KeyOf[r]] = StateFor(r)]
  BY DEF Overflow
<1>3. Served' = Served
  <2>1. \A q \in Requests : phase'[q] = "running" <=> phase[q] = "running"
    BY <1>1, <1>2 DEF TypeOK
  <2>2. QED
    BY <1>2, <2>1 DEF Served
<1>4. KeyOf[r] \notin cleared => queues[KeyOf[r]] # None
  <2>1. SUFFICES ASSUME KeyOf[r] \notin cleared, queues[KeyOf[r]] = None PROVE FALSE
    OBVIOUS
  <2>2. Len(pending[r]) >= MaxQueueDepth
    BY <2>1 DEF Overflow, StateFor
  <2>3. chain[r] = <<>>
    BY <2>1 DEF QueueInv, WorkIsMapped
  <2>4. pending[r] = <<>>
    BY <2>1, <2>3 DEF QueueInv, PendingIsRest, LockPerObject
  <2>5. QED
    BY <2>2, <2>4
<1>5. ASSUME NEW j \in Keys PROVE Line'[j] = Line[j]
  <2>1. CASE j \in cleared
    BY <1>2, <2>1 DEF Line
  <2>2. CASE j \notin cleared
    <3>1. queues'[j] = queues[j]
      BY <1>1, <1>2, <1>4, <2>2 DEF TypeOK, StateFor
    <3>2. QED
      BY <1>2, <3>1 DEF Line
  <2>3. QED
    BY <2>1, <2>2
<1>6. QED
  BY <1>2, <1>3, <1>5, LineSame DEF LineView!lineVars

\* runEntry() that takes the lock serves the first of its line.
LEMMA StartLine ==
  ASSUME QueueInv, NEW o \in Requests, Start(o)
  PROVE  (\E k \in Keys : LineView!Serve(k)) \/ UNCHANGED LineView!lineVars
<1>1. PICK r \in Requests : r = Head(chain[o])
  BY HeadFacts DEF Start
<1>2. /\ chain[o] # <<>> /\ phase[r] = "chained" /\ phase' = [phase EXCEPT ![r] = "running"]
      /\ UNCHANGED <<queues, chain, cleared>>
  BY <1>1 DEF Start
<1>3. TypeOK
  BY DEF QueueInv
<1>4. Line' = Line
  BY <1>2 DEF Line
<1>5. KeyOf[r] = KeyOf[o]
  <2>1. chain[o] \in Seq(Requests)
    BY <1>3 DEF TypeOK
  <2>2. 1 \in Positions(o) /\ chain[o][1] = r
    BY <1>1, <1>2, <2>1, TailFacts DEF Positions
  <2>3. QED
    BY <2>2 DEF QueueInv, ChainsAreKeyed
<1>6. \A q \in Requests : phase'[q] = IF q = r THEN "running" ELSE phase[q]
  BY <1>2, <1>3 DEF TypeOK
<1>7. CASE KeyOf[o] \in cleared
  <2>1. Served' = Served
    BY <1>2, <1>5, <1>6, <1>7 DEF Served
  <2>2. QED
    BY <1>2, <1>4, <2>1 DEF LineView!lineVars
<1>8. CASE KeyOf[o] \notin cleared
  <2>1. KeyOf[o] \in Keys /\ Line[KeyOf[o]] = chain[o]
    BY <1>2, <1>8, LineFacts
  <2>2. Served' = Served \cup {r} /\ r \notin Served
    BY <1>2, <1>5, <1>6, <1>8 DEF Served
  <2>3. LineView!Serve(KeyOf[o])
    BY <1>1, <1>2, <1>4, <2>1, <2>2 DEF LineView!Serve
  <2>4. QED
    BY <2>1, <2>3
<1>9. QED
  BY <1>7, <1>8

\* The entry at the head of a chain that leaves it leaves the line.
LEMMA PopLine ==
  ASSUME QueueInv, NEW o \in Requests, chain[o] # <<>>,
         chain' = [chain EXCEPT ![o] = Tail(@)],
         phase' = [phase EXCEPT ![Head(chain[o])] = "done"],
         queues' = queues \/ queues' = [queues EXCEPT ![KeyOf[Head(chain[o])]] = None],
         KeyOf[o] \notin cleared =>
           queues' = IF Tail(chain[o]) = <<>>
                     THEN [queues EXCEPT ![KeyOf[Head(chain[o])]] = None] ELSE queues,
         UNCHANGED cleared
  PROVE  (\E k \in Keys : LineView!Leave(k)) \/ UNCHANGED LineView!lineVars
<1> USE QueueAssumption
<1>1. PICK r \in Requests : r = Head(chain[o])
  BY HeadFacts
<1>2. TypeOK /\ KeyOf[o] \in Keys
  BY DEF QueueInv
<1>3. KeyOf[r] = KeyOf[o]
  <2>1. chain[o] \in Seq(Requests)
    BY <1>2 DEF TypeOK
  <2>2. 1 \in Positions(o) /\ chain[o][1] = r
    BY <1>1, <2>1, TailFacts DEF Positions
  <2>3. QED
    BY <2>2 DEF QueueInv, ChainsAreKeyed
<1>4. \A q \in Requests : phase'[q] = IF q = r THEN "done" ELSE phase[q]
  BY <1>1, <1>2 DEF TypeOK
<1>5. Served' = Served \ {r}
  BY <1>4 DEF Served
<1>6. \A j \in Keys : j # KeyOf[o] \/ j \in cleared => Line'[j] = Line[j]
  <2>1. \A p \in Requests : p # o => chain'[p] = chain[p]
    BY <1>2 DEF TypeOK
  <2>2. \A j \in Keys : j # KeyOf[o] => queues'[j] = queues[j]
    BY <1>1, <1>2, <1>3 DEF TypeOK
  <2>3. QED
    BY <2>1, <2>2, OtherLines
<1>7. CASE KeyOf[o] \in cleared
  <2>1. Line' = Line
    BY <1>6, <1>7, LineSame
  <2>2. r \notin Served
    BY <1>3, <1>7 DEF Served
  <2>3. Served' = Served
    BY <1>5, <2>2
  <2>4. QED
    BY <2>1, <2>3 DEF LineView!lineVars
<1>8. CASE KeyOf[o] \notin cleared
  <2>1. queues[KeyOf[o]] = o /\ Line[KeyOf[o]] = chain[o] /\ o # None
    BY <1>8, LineFacts
  <2>2. chain'[o] = Tail(chain[o])
    BY <1>2 DEF TypeOK
  <2>3. Line'[KeyOf[o]] = Tail(chain[o])
    <3>1. CASE Tail(chain[o]) = <<>>
      <4>1. queues'[KeyOf[o]] = None
        BY <1>1, <1>2, <1>3, <1>8, <3>1 DEF TypeOK
      <4>2. QED
        BY <1>2, <3>1, <4>1 DEF Line
    <3>2. CASE Tail(chain[o]) # <<>>
      <4>1. queues'[KeyOf[o]] = o
        BY <1>8, <2>1, <3>2
      <4>2. QED
        BY <1>2, <1>8, <2>1, <2>2, <4>1 DEF Line
    <3>3. QED
      BY <3>1, <3>2
  <2>4. Line' = [Line EXCEPT ![KeyOf[o]] = Tail(Line[KeyOf[o]])]
    BY <1>2, <1>6, <2>1, <2>3, LineExcept
  <2>5. LineView!Leave(KeyOf[o])
    BY <1>1, <1>5, <2>1, <2>4 DEF LineView!Leave
  <2>6. QED
    BY <1>2, <2>5
<1>9. QED
  BY <1>7, <1>8

\* clear() closes the line of its key; a second clear() of it does nothing.
LEMMA ClearLine ==
  ASSUME QueueInv, NEW k \in Keys, Clear(k)
  PROVE  LineView!Close(k) \/ UNCHANGED LineView!lineVars
<1>1. /\ queues' = queues \/ queues' = [queues EXCEPT ![k] = None]
      /\ cleared' = cleared \cup {k} /\ UNCHANGED <<chain, phase>>
  BY DEF Clear
<1>2. \A j \in Keys : j # k => queues'[j] = queues[j]
  BY <1>1 DEF QueueInv, TypeOK
<1>3. \A j \in Keys : j # k => Line'[j] = Line[j]
  BY <1>1, <1>2 DEF Line
<1>4. Line'[k] = <<>>
  BY <1>1 DEF Line
<1>5. CASE k \in cleared
  <2>1. cleared' = cleared /\ Served' = Served
    BY <1>1, <1>5 DEF Served
  <2>2. Line[k] = <<>>
    BY <1>5 DEF Line
  <2>3. Line' = Line
    BY <1>3, <1>4, <2>2, LineSame
  <2>4. QED
    BY <2>1, <2>3 DEF LineView!lineVars
<1>6. CASE k \notin cleared
  <2>1. Line' = [Line EXCEPT ![k] = <<>>]
    BY <1>3, <1>4, LineExcept
  <2>2. Served' = {r \in Served : KeyOf[r] # k}
    BY <1>1 DEF Served
  <2>3. QED
    BY <1>1, <1>6, <2>1, <2>2 DEF LineView!Close
<1>7. QED
  BY <1>5, <1>6

\* The queue implements one line per session (sessionRequestQueue.ts:87-257):
\* enqueue() joins it, runEntry() serves its first request and only that one,
\* which leaves it when it settles or has expired, and clear() closes the line
\* of one session without touching another.
THEOREM SessionImplementsLine == Spec => IsLine
<1>1. Init => LineView!Init
  BY DEF Init, LineView!Init, Line, Served
<1>2. QueueInv /\ [Next]_vars => [LineView!Next]_LineView!lineVars
  <2> SUFFICES ASSUME QueueInv, [Next]_vars PROVE [LineView!Next]_LineView!lineVars
    OBVIOUS
  <2>1. ASSUME NEW r \in Requests, NEW e \in Expiries, Accept(r, e)
        PROVE  LineView!Next \/ UNCHANGED LineView!lineVars
    BY <2>1, AcceptLine DEF LineView!Next
  <2>2. ASSUME NEW r \in Requests, Overflow(r) PROVE UNCHANGED LineView!lineVars
    BY <2>2, OverflowLine
  <2>3. ASSUME NEW o \in Requests, Start(o)
        PROVE  LineView!Next \/ UNCHANGED LineView!lineVars
    BY <2>3, StartLine DEF LineView!Next
  <2>4. ASSUME NEW o \in Requests, Expire(o)
        PROVE  LineView!Next \/ UNCHANGED LineView!lineVars
    <3>1. /\ chain[o] # <<>> /\ phase[Head(chain[o])] = "chained"
          /\ pending' = [pending EXCEPT ![o] = Unqueue(@, Head(chain[o]))]
          /\ chain' = [chain EXCEPT ![o] = Tail(@)]
          /\ phase' = [phase EXCEPT ![Head(chain[o])] = "done"]
          /\ queues' = Release(KeyOf[Head(chain[o])], locked[o], pending'[o])
          /\ UNCHANGED cleared
      BY <2>4 DEF Expire
    <3>2. ~locked[o] /\ pending'[o] = Unqueue(pending[o], Head(chain[o]))
      BY <3>1, HeadFacts DEF QueueInv, TypeOK
    <3>3. KeyOf[o] \notin cleared => pending'[o] = Tail(chain[o])
      BY <3>1, <3>2, HeadFacts
    <3>4. queues' = IF pending'[o] = <<>>
                    THEN [queues EXCEPT ![KeyOf[Head(chain[o])]] = None] ELSE queues
      BY <3>1, <3>2 DEF Release
    <3>5. (\E k \in Keys : LineView!Leave(k)) \/ UNCHANGED LineView!lineVars
      BY <3>1, <3>3, <3>4, PopLine
    <3>6. QED
      BY <3>5 DEF LineView!Next
  <2>5. ASSUME NEW o \in Requests, Finish(o)
        PROVE  LineView!Next \/ UNCHANGED LineView!lineVars
    <3>1. /\ chain[o] # <<>> /\ phase[Head(chain[o])] = "running"
          /\ chain' = [chain EXCEPT ![o] = Tail(@)]
          /\ phase' = [phase EXCEPT ![Head(chain[o])] = "done"]
          /\ queues' = Release(KeyOf[Head(chain[o])], FALSE, pending[o])
          /\ UNCHANGED cleared
      BY <2>5 DEF Finish
    <3>2. KeyOf[o] \notin cleared => pending[o] = Tail(chain[o])
      BY <3>1, HeadFacts
    <3>3. queues' = IF pending[o] = <<>>
                    THEN [queues EXCEPT ![KeyOf[Head(chain[o])]] = None] ELSE queues
      BY <3>1 DEF Release
    <3>4. (\E k \in Keys : LineView!Leave(k)) \/ UNCHANGED LineView!lineVars
      BY <3>1, <3>2, <3>3, PopLine
    <3>5. QED
      BY <3>4 DEF LineView!Next
  <2>6. ASSUME NEW k \in Keys, Clear(k)
        PROVE  LineView!Next \/ UNCHANGED LineView!lineVars
    BY <2>6, ClearLine DEF LineView!Next
  <2>7. CASE Tick \/ UNCHANGED vars
    <3>1. UNCHANGED <<queues, chain, phase, cleared>>
      BY <2>7 DEF Tick, vars
    <3>2. QED
      BY <3>1 DEF LineView!lineVars, Line, Served
  <2>8. QED
    BY <2>1, <2>2, <2>3, <2>4, <2>5, <2>6, <2>7 DEF Next
<1>3. QED
  BY QueueInvariant, <1>1, <1>2, PTL DEF Spec, IsLine, LineView!Spec
=============================================================================
