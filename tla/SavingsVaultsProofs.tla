------------------------ MODULE SavingsVaultsProofs -------------------------
(***************************************************************************)
(* Proofs about SavingsVaults, for any requests, vaults and amounts: the   *)
(* row lock alone keeps the balances right, whatever happens to the Redis  *)
(* lock.                                                                   *)
(***************************************************************************)
EXTENDS SavingsVaults, TLAPS

\* A request past its arrival names a vault, and a transfer a direction.
CallsTyped ==
  \A r \in Requests :
    /\ pc[r] # "idle" => arg[r] \in Vaults
    /\ pc[r] \in {"lock", "begin", "write"} => kind[r] \in {"deposit", "withdraw"}

\* What a transfer read is still so when it writes: it holds the row.
WriterCurrent ==
  \A r \in Requests : pc[r] = "write" =>
    /\ rowLock[arg[r]] = r
    /\ Live(arg[r])
    /\ active[arg[r]]
    /\ read[r] = balance[arg[r]]
    /\ kind[r] = "withdraw" => read[r] >= amount[r]

\* A row lock is held by a transfer of that row that is about to write.
LockHeld ==
  \A v \in Vaults : rowLock[v] # None =>
    pc[rowLock[v]] = "write" /\ arg[rowLock[v]] = v

\* An id without a row has no money and no history.
AbsentEmpty ==
  \A v \in Vaults : row[v] = "absent" =>
    balance[v] = 0 /\ history[v] = 0 /\ mirror[v] = 0

VaultInv ==
  /\ TypeOK
  /\ CallsTyped
  /\ WriterCurrent
  /\ LockHeld
  /\ AbsentEmpty
  /\ VaultMatchesHistory
  /\ MirrorsHistory

\* The invariant holds before the first request.
LEMMA VaultInit == Init => VaultInv
  BY VaultAssumption
  DEF Init, VaultInv, TypeOK, CallsTyped, WriterCurrent, LockHeld, AbsentEmpty,
      VaultMatchesHistory, MirrorsHistory, Live

\* A stuttering step keeps the invariant.
LEMMA StutterKeeps == VaultInv /\ UNCHANGED vars => VaultInv'
  BY DEF VaultInv, TypeOK, CallsTyped, WriterCurrent, LockHeld, AbsentEmpty,
         VaultMatchesHistory, MirrorsHistory, Live, vars

\* A new row starts empty, and no transfer is about to write it.
LEMMA CreateVaultKeeps ==
  ASSUME NEW v \in Vaults, VaultInv, CreateVault(v)
  PROVE  VaultInv'
<1> USE VaultAssumption DEF VaultInv, tables, call, Live
<1>1. TypeOK'
  BY DEF CreateVault, TypeOK
<1>2. CallsTyped'
  BY DEF CreateVault, TypeOK, CallsTyped
<1>3. WriterCurrent'
  BY DEF CreateVault, TypeOK, CallsTyped, WriterCurrent, LockHeld
<1>4. LockHeld'
  BY DEF CreateVault, TypeOK, CallsTyped, WriterCurrent, LockHeld
<1>5. AbsentEmpty'
  BY DEF CreateVault, TypeOK, CallsTyped, WriterCurrent, AbsentEmpty
<1>6. VaultMatchesHistory'
  BY DEF CreateVault, TypeOK, CallsTyped, WriterCurrent, AbsentEmpty,
      VaultMatchesHistory
<1>7. MirrorsHistory'
  BY DEF CreateVault, TypeOK, CallsTyped, WriterCurrent, AbsentEmpty, MirrorsHistory
<1> QED
  BY <1>1, <1>2, <1>3, <1>4, <1>5, <1>6, <1>7

\* is_active only changes while no transfer holds the row.
LEMMA UpdateVaultKeeps ==
  ASSUME NEW v \in Vaults, VaultInv, UpdateVault(v)
  PROVE  VaultInv'
<1> USE VaultAssumption DEF VaultInv, tables, call, Live
<1>1. TypeOK'
  BY DEF UpdateVault, TypeOK
<1>2. CallsTyped'
  BY DEF UpdateVault, TypeOK, CallsTyped
<1>3. WriterCurrent'
  BY DEF UpdateVault, TypeOK, CallsTyped, WriterCurrent, LockHeld
<1>4. LockHeld'
  BY DEF UpdateVault, TypeOK, CallsTyped, WriterCurrent, LockHeld
<1>5. AbsentEmpty'
  BY DEF UpdateVault, TypeOK, CallsTyped, WriterCurrent, AbsentEmpty
<1>6. VaultMatchesHistory'
  BY DEF UpdateVault, TypeOK, CallsTyped, WriterCurrent, AbsentEmpty,
      VaultMatchesHistory
<1>7. MirrorsHistory'
  BY DEF UpdateVault, TypeOK, CallsTyped, WriterCurrent, AbsentEmpty, MirrorsHistory
<1> QED
  BY <1>1, <1>2, <1>3, <1>4, <1>5, <1>6, <1>7

\* The invariant does not depend on the Redis lock, so its expiry keeps it.
LEMMA LockExpiresKeeps ==
  ASSUME NEW v \in Vaults, VaultInv, LockExpires(v)
  PROVE  VaultInv'
<1> USE VaultAssumption DEF VaultInv, tables, call, Live
<1>1. TypeOK'
  BY DEF LockExpires, TypeOK
<1>2. CallsTyped'
  BY DEF LockExpires, TypeOK, CallsTyped
<1>3. WriterCurrent'
  BY DEF LockExpires, TypeOK, CallsTyped, WriterCurrent, LockHeld
<1>4. LockHeld'
  BY DEF LockExpires, TypeOK, CallsTyped, WriterCurrent, LockHeld
<1>5. AbsentEmpty'
  BY DEF LockExpires, TypeOK, CallsTyped, WriterCurrent, AbsentEmpty
<1>6. VaultMatchesHistory'
  BY DEF LockExpires, TypeOK, CallsTyped, WriterCurrent, AbsentEmpty,
      VaultMatchesHistory
<1>7. MirrorsHistory'
  BY DEF LockExpires, TypeOK, CallsTyped, WriterCurrent, AbsentEmpty, MirrorsHistory
<1> QED
  BY <1>1, <1>2, <1>3, <1>4, <1>5, <1>6, <1>7

\* A delete that arrives changes no table.
LEMMA DeleteVaultKeeps ==
  ASSUME NEW r \in Requests, NEW v \in Vaults, VaultInv, DeleteVault(r, v)
  PROVE  VaultInv'
<1> USE VaultAssumption DEF VaultInv, tables, call, Live
<1>1. TypeOK'
  BY DEF DeleteVault, TypeOK
<1>2. CallsTyped'
  BY DEF DeleteVault, TypeOK, CallsTyped
<1>3. WriterCurrent'
  BY DEF DeleteVault, TypeOK, CallsTyped, WriterCurrent, LockHeld
<1>4. LockHeld'
  BY DEF DeleteVault, TypeOK, CallsTyped, WriterCurrent, LockHeld
<1>5. AbsentEmpty'
  BY DEF DeleteVault, TypeOK, CallsTyped, WriterCurrent, AbsentEmpty
<1>6. VaultMatchesHistory'
  BY DEF DeleteVault, TypeOK, CallsTyped, WriterCurrent, AbsentEmpty,
      VaultMatchesHistory
<1>7. MirrorsHistory'
  BY DEF DeleteVault, TypeOK, CallsTyped, WriterCurrent, AbsentEmpty, MirrorsHistory
<1> QED
  BY <1>1, <1>2, <1>3, <1>4, <1>5, <1>6, <1>7

\* A transfer that arrives changes no table.
LEMMA TransferKeeps ==
  ASSUME NEW r \in Requests, NEW v \in Vaults, NEW type \in {"deposit", "withdraw"},
      NEW a \in Amounts, VaultInv, Transfer(r, v, type, a)
  PROVE  VaultInv'
<1> USE VaultAssumption DEF VaultInv, tables, call, Live
<1>1. TypeOK'
  BY DEF Transfer, TypeOK
<1>2. CallsTyped'
  BY DEF Transfer, TypeOK, CallsTyped
<1>3. WriterCurrent'
  BY DEF Transfer, TypeOK, CallsTyped, WriterCurrent, LockHeld
<1>4. LockHeld'
  BY DEF Transfer, TypeOK, CallsTyped, WriterCurrent, LockHeld
<1>5. AbsentEmpty'
  BY DEF Transfer, TypeOK, CallsTyped, WriterCurrent, AbsentEmpty
<1>6. VaultMatchesHistory'
  BY DEF Transfer, TypeOK, CallsTyped, WriterCurrent, AbsentEmpty, VaultMatchesHistory
<1>7. MirrorsHistory'
  BY DEF Transfer, TypeOK, CallsTyped, WriterCurrent, AbsentEmpty, MirrorsHistory
<1> QED
  BY <1>1, <1>2, <1>3, <1>4, <1>5, <1>6, <1>7

\* A row is only deleted while no transfer holds it.
LEMMA DeleteRowKeeps ==
  ASSUME NEW r \in Requests, VaultInv, DeleteRow(r)
  PROVE  VaultInv'
<1> USE VaultAssumption DEF VaultInv, tables, call, Live
<1>1. TypeOK'
  BY DEF DeleteRow, TypeOK
<1>2. CallsTyped'
  BY DEF DeleteRow, TypeOK, CallsTyped
<1>3. WriterCurrent'
  BY DEF DeleteRow, TypeOK, CallsTyped, WriterCurrent, LockHeld
<1>4. LockHeld'
  BY DEF DeleteRow, TypeOK, CallsTyped, WriterCurrent, LockHeld
<1>5. AbsentEmpty'
  BY DEF DeleteRow, TypeOK, CallsTyped, WriterCurrent, AbsentEmpty
<1>6. VaultMatchesHistory'
  BY DEF DeleteRow, TypeOK, CallsTyped, WriterCurrent, AbsentEmpty, VaultMatchesHistory
<1>7. MirrorsHistory'
  BY DEF DeleteRow, TypeOK, CallsTyped, WriterCurrent, AbsentEmpty, MirrorsHistory
<1> QED
  BY <1>1, <1>2, <1>3, <1>4, <1>5, <1>6, <1>7

\* Taking the Redis lock keeps the invariant.
LEMMA AcquireKeeps ==
  ASSUME NEW r \in Requests, VaultInv, Acquire(r)
  PROVE  VaultInv'
<1> USE VaultAssumption DEF VaultInv, tables, call, Live
<1>1. TypeOK'
  BY DEF Acquire, TypeOK
<1>2. CallsTyped'
  BY DEF Acquire, TypeOK, CallsTyped
<1>3. WriterCurrent'
  BY DEF Acquire, TypeOK, CallsTyped, WriterCurrent, LockHeld
<1>4. LockHeld'
  BY DEF Acquire, TypeOK, CallsTyped, WriterCurrent, LockHeld
<1>5. AbsentEmpty'
  BY DEF Acquire, TypeOK, CallsTyped, WriterCurrent, AbsentEmpty
<1>6. VaultMatchesHistory'
  BY DEF Acquire, TypeOK, CallsTyped, WriterCurrent, AbsentEmpty, VaultMatchesHistory
<1>7. MirrorsHistory'
  BY DEF Acquire, TypeOK, CallsTyped, WriterCurrent, AbsentEmpty, MirrorsHistory
<1> QED
  BY <1>1, <1>2, <1>3, <1>4, <1>5, <1>6, <1>7

\* Giving up on the Redis lock keeps the invariant.
LEMMA AcquireFailsKeeps ==
  ASSUME NEW r \in Requests, VaultInv, AcquireFails(r)
  PROVE  VaultInv'
<1> USE VaultAssumption DEF VaultInv, tables, call, Live
<1>1. TypeOK'
  BY DEF AcquireFails, TypeOK
<1>2. CallsTyped'
  BY DEF AcquireFails, TypeOK, CallsTyped
<1>3. WriterCurrent'
  BY DEF AcquireFails, TypeOK, CallsTyped, WriterCurrent, LockHeld
<1>4. LockHeld'
  BY DEF AcquireFails, TypeOK, CallsTyped, WriterCurrent, LockHeld
<1>5. AbsentEmpty'
  BY DEF AcquireFails, TypeOK, CallsTyped, WriterCurrent, AbsentEmpty
<1>6. VaultMatchesHistory'
  BY DEF AcquireFails, TypeOK, CallsTyped, WriterCurrent, AbsentEmpty,
      VaultMatchesHistory
<1>7. MirrorsHistory'
  BY DEF AcquireFails, TypeOK, CallsTyped, WriterCurrent, AbsentEmpty, MirrorsHistory
<1> QED
  BY <1>1, <1>2, <1>3, <1>4, <1>5, <1>6, <1>7

\* The transfer that takes the row lock has read the current row.
LEMMA SelectForUpdateKeeps ==
  ASSUME NEW r \in Requests, VaultInv, SelectForUpdate(r)
  PROVE  VaultInv'
<1> USE VaultAssumption DEF VaultInv, tables, call, Live
<1>1. TypeOK'
  <2>1. arg[r] \in Vaults
    BY DEF SelectForUpdate, CallsTyped
  <2>2. CASE UNCHANGED <<rowLock, read>> /\ pc' = [pc EXCEPT ![r] = "unlock"]
    BY <2>1, <2>2 DEF SelectForUpdate, TypeOK
  <2>3. CASE /\ rowLock' = [rowLock EXCEPT ![arg[r]] = r]
             /\ read' = [read EXCEPT ![r] = balance[arg[r]]]
             /\ pc' = [pc EXCEPT ![r] = "write"]
    <3>1. UNCHANGED <<row, balance, active, history, mirror, main, redis, kind, arg,
      amount>>
      BY DEF SelectForUpdate
    <3> QED
      BY <2>1, <2>3, <3>1 DEF TypeOK
  <2> QED
    BY <2>2, <2>3 DEF SelectForUpdate
<1>2. CallsTyped'
  BY DEF SelectForUpdate, TypeOK, CallsTyped, Sufficient
<1>3. WriterCurrent'
  BY DEF SelectForUpdate, TypeOK, CallsTyped, WriterCurrent, LockHeld, Sufficient
<1>4. LockHeld'
  BY DEF SelectForUpdate, TypeOK, CallsTyped, WriterCurrent, LockHeld, Sufficient
<1>5. AbsentEmpty'
  BY DEF SelectForUpdate, TypeOK, CallsTyped, WriterCurrent, AbsentEmpty, Sufficient
<1>6. VaultMatchesHistory'
  BY DEF SelectForUpdate, TypeOK, CallsTyped, WriterCurrent, AbsentEmpty,
      VaultMatchesHistory, Sufficient
<1>7. MirrorsHistory'
  BY DEF SelectForUpdate, TypeOK, CallsTyped, WriterCurrent, AbsentEmpty,
      MirrorsHistory, Sufficient
<1> QED
  BY <1>1, <1>2, <1>3, <1>4, <1>5, <1>6, <1>7

\* The balance read is still the row's, so balance and history move together.
LEMMA CommitKeeps ==
  ASSUME NEW r \in Requests, VaultInv, Commit(r)
  PROVE  VaultInv'
<1> USE VaultAssumption DEF VaultInv, tables, call, Live
<1>1. TypeOK'
  <2>1. arg[r] \in Vaults /\ Delta(r) \in Int /\ NewBalance(r) \in Nat
    BY DEF Commit, TypeOK, CallsTyped, WriterCurrent, NewBalance, Delta
  <2> QED
    BY <2>1 DEF Commit, TypeOK, MirrorDelta
<1>2. CallsTyped'
  BY DEF Commit, TypeOK, CallsTyped, NewBalance, Delta, MirrorDelta
<1>3. WriterCurrent'
  BY DEF Commit, TypeOK, CallsTyped, WriterCurrent, LockHeld, NewBalance, Delta,
      MirrorDelta
<1>4. LockHeld'
  BY DEF Commit, TypeOK, CallsTyped, WriterCurrent, LockHeld, NewBalance, Delta,
      MirrorDelta
<1>5. AbsentEmpty'
  BY DEF Commit, TypeOK, CallsTyped, WriterCurrent, AbsentEmpty, NewBalance, Delta,
      MirrorDelta
<1>6. VaultMatchesHistory'
  BY DEF Commit, TypeOK, CallsTyped, WriterCurrent, AbsentEmpty, VaultMatchesHistory,
      NewBalance, Delta, MirrorDelta
<1>7. MirrorsHistory'
  BY DEF Commit, TypeOK, CallsTyped, WriterCurrent, AbsentEmpty, MirrorsHistory,
      NewBalance, Delta, MirrorDelta
<1> QED
  BY <1>1, <1>2, <1>3, <1>4, <1>5, <1>6, <1>7

\* ROLLBACK gives the row lock back and changes nothing else.
LEMMA RollbackKeeps ==
  ASSUME NEW r \in Requests, VaultInv, Rollback(r)
  PROVE  VaultInv'
<1> USE VaultAssumption DEF VaultInv, tables, call, Live
<1>1. TypeOK'
  BY DEF Rollback, TypeOK
<1>2. CallsTyped'
  BY DEF Rollback, TypeOK, CallsTyped
<1>3. WriterCurrent'
  BY DEF Rollback, TypeOK, CallsTyped, WriterCurrent, LockHeld
<1>4. LockHeld'
  BY DEF Rollback, TypeOK, CallsTyped, WriterCurrent, LockHeld
<1>5. AbsentEmpty'
  BY DEF Rollback, TypeOK, CallsTyped, WriterCurrent, AbsentEmpty
<1>6. VaultMatchesHistory'
  BY DEF Rollback, TypeOK, CallsTyped, WriterCurrent, AbsentEmpty, VaultMatchesHistory
<1>7. MirrorsHistory'
  BY DEF Rollback, TypeOK, CallsTyped, WriterCurrent, AbsentEmpty, MirrorsHistory
<1> QED
  BY <1>1, <1>2, <1>3, <1>4, <1>5, <1>6, <1>7

\* Releasing the Redis lock keeps the invariant.
LEMMA ReleaseKeeps ==
  ASSUME NEW r \in Requests, VaultInv, Release(r)
  PROVE  VaultInv'
<1> USE VaultAssumption DEF VaultInv, tables, call, Live
<1>1. TypeOK'
  BY DEF Release, TypeOK
<1>2. CallsTyped'
  BY DEF Release, TypeOK, CallsTyped
<1>3. WriterCurrent'
  BY DEF Release, TypeOK, CallsTyped, WriterCurrent, LockHeld
<1>4. LockHeld'
  BY DEF Release, TypeOK, CallsTyped, WriterCurrent, LockHeld
<1>5. AbsentEmpty'
  BY DEF Release, TypeOK, CallsTyped, WriterCurrent, AbsentEmpty
<1>6. VaultMatchesHistory'
  BY DEF Release, TypeOK, CallsTyped, WriterCurrent, AbsentEmpty, VaultMatchesHistory
<1>7. MirrorsHistory'
  BY DEF Release, TypeOK, CallsTyped, WriterCurrent, AbsentEmpty, MirrorsHistory
<1> QED
  BY <1>1, <1>2, <1>3, <1>4, <1>5, <1>6, <1>7

\* A crash drops the row locks of the request that dies.
LEMMA CrashKeeps ==
  ASSUME NEW r \in Requests, VaultInv, Crash(r)
  PROVE  VaultInv'
<1> USE VaultAssumption DEF VaultInv, tables, call, Live
<1>1. TypeOK'
  BY DEF Crash, TypeOK
<1>2. CallsTyped'
  BY DEF Crash, TypeOK, CallsTyped
<1>3. WriterCurrent'
  BY DEF Crash, TypeOK, CallsTyped, WriterCurrent, LockHeld
<1>4. LockHeld'
  BY DEF Crash, TypeOK, CallsTyped, WriterCurrent, LockHeld
<1>5. AbsentEmpty'
  BY DEF Crash, TypeOK, CallsTyped, WriterCurrent, AbsentEmpty
<1>6. VaultMatchesHistory'
  BY DEF Crash, TypeOK, CallsTyped, WriterCurrent, AbsentEmpty, VaultMatchesHistory
<1>7. MirrorsHistory'
  BY DEF Crash, TypeOK, CallsTyped, WriterCurrent, AbsentEmpty, MirrorsHistory
<1> QED
  BY <1>1, <1>2, <1>3, <1>4, <1>5, <1>6, <1>7

\* A payment only moves the main balance.
LEMMA PaymentKeeps ==
  ASSUME VaultInv, Payment
  PROVE  VaultInv'
<1> USE VaultAssumption DEF VaultInv, tables, call, Live
<1>1. TypeOK'
  BY DEF Payment, TypeOK
<1>2. CallsTyped'
  BY DEF Payment, TypeOK, CallsTyped
<1>3. WriterCurrent'
  BY DEF Payment, TypeOK, CallsTyped, WriterCurrent, LockHeld
<1>4. LockHeld'
  BY DEF Payment, TypeOK, CallsTyped, WriterCurrent, LockHeld
<1>5. AbsentEmpty'
  BY DEF Payment, TypeOK, CallsTyped, WriterCurrent, AbsentEmpty
<1>6. VaultMatchesHistory'
  BY DEF Payment, TypeOK, CallsTyped, WriterCurrent, AbsentEmpty, VaultMatchesHistory
<1>7. MirrorsHistory'
  BY DEF Payment, TypeOK, CallsTyped, WriterCurrent, AbsentEmpty, MirrorsHistory
<1> QED
  BY <1>1, <1>2, <1>3, <1>4, <1>5, <1>6, <1>7

\* Every step of the system keeps the invariant.
LEMMA VaultStep == VaultInv /\ [Next]_vars => VaultInv'
<1> SUFFICES ASSUME VaultInv, [Next]_vars
             PROVE  VaultInv'
  OBVIOUS
<1>1. CASE UNCHANGED vars
  BY <1>1, StutterKeeps
<1>2. ASSUME NEW v \in Vaults, CreateVault(v) \/ UpdateVault(v) \/ LockExpires(v)
      PROVE  VaultInv'
  BY <1>2, CreateVaultKeeps, UpdateVaultKeeps, LockExpiresKeeps
<1>3. ASSUME NEW r \in Requests, Arrive(r)
      PROVE  VaultInv'
  BY <1>3, DeleteVaultKeeps, TransferKeeps DEF Arrive
<1>4. ASSUME NEW r \in Requests, Step(r) \/ Rollback(r) \/ Crash(r)
      PROVE  VaultInv'
  BY <1>4, DeleteRowKeeps, AcquireKeeps, AcquireFailsKeeps, SelectForUpdateKeeps,
     CommitKeeps, ReleaseKeeps, RollbackKeeps, CrashKeeps DEF Step
<1>5. CASE Payment
  BY <1>5, PaymentKeeps
<1> QED
  BY <1>1, <1>2, <1>3, <1>4, <1>5 DEF Next

\* The inductive invariant of the vaults holds in every reachable state.
THEOREM VaultInvariant == Spec => []VaultInv
<1>1. Init => VaultInv
  BY VaultInit
<1>2. VaultInv /\ [Next]_vars => VaultInv'
  BY VaultStep
<1> QED
  BY <1>1, <1>2, PTL DEF Spec

\* No balance, history or lock ever leaves its type; in particular no balance
\* falls below zero: CHECK (balance >= 0) never fires.
THEOREM VaultTypes == Spec => []TypeOK
<1>1. VaultInv => TypeOK
  BY DEF VaultInv
<1> QED
  BY <1>1, VaultInvariant, PTL

\* No transfer's update of a balance is lost, even after the Redis lock has
\* expired under a transfer that is still running.
THEOREM NoLostTransfer == Spec => []VaultMatchesHistory
<1>1. VaultInv => VaultMatchesHistory
  BY DEF VaultInv
<1> QED
  BY <1>1, VaultInvariant, PTL

\* The rows in transactions stay the counterpart of vault_transactions.
THEOREM MirrorExact == Spec => []MirrorsHistory
<1>1. VaultInv => MirrorsHistory
  BY DEF VaultInv
<1> QED
  BY <1>1, VaultInvariant, PTL

\* No step moves money in or out of a vault that is inactive.
LEMMA FrozenStep ==
  ASSUME VaultInv, [Next]_vars, NEW v \in Vaults, Live(v), ~active[v]
  PROVE  balance'[v] = balance[v]
<1>1. CASE UNCHANGED balance
  BY <1>1
<1>2. ASSUME NEW r \in Requests, Commit(r)
      PROVE  balance'[v] = balance[v]
  <2>1. arg[r] # v
    BY <1>2 DEF VaultInv, WriterCurrent, Commit
  <2> QED
    BY <1>2, <2>1 DEF VaultInv, TypeOK, Commit
<1> QED
  BY <1>1, <1>2 DEF Next, Arrive, Step, CreateVault, UpdateVault, LockExpires,
     DeleteVault, Transfer, DeleteRow, Acquire, AcquireFails, SelectForUpdate,
     Release, Rollback, Crash, Payment, vars, tables

\* A vault that was deactivated keeps its balance until it is active again.
THEOREM DeactivationHolds == Spec => InactiveFrozen
<1>1. VaultInv /\ [Next]_vars =>
        [\A v \in Vaults : Live(v) /\ ~active[v] => balance'[v] = balance[v]]_vars
  BY FrozenStep
<1> QED
  BY <1>1, VaultInvariant, PTL DEF Spec, InactiveFrozen
=============================================================================
