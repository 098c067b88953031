--------------------------- MODULE SavingsVaults ----------------------------
(***************************************************************************)
(* The savings vaults of one user (src/src/models/vault.ts and             *)
(* src/src/controllers/vaultController.ts): create, update, delete and     *)
(* transfer, run by concurrent requests.  A transfer holds a Redis lock    *)
(* with a time to live (src/src/utils/lock.ts) and, inside its database    *)
(* transaction, the row lock of SELECT ... FOR UPDATE; an UPDATE or DELETE *)
(* of the row waits for that row lock and nothing else.                    *)
(*                                                                         *)
(* Amounts are whole units: the code adds the DECIMAL strings as doubles,  *)
(* whose rounding is left out.  A vault id is never used twice.  The       *)
(* names, descriptions and targets of vaults are left out.                 *)
(***************************************************************************)
EXTENDS Integers, FiniteSets

CONSTANTS
  Requests,  \* the HTTP requests that transfer or delete
  Vaults,    \* the ids new vaults get
  Amounts,   \* the amounts a transfer may be for
  MaxMain,   \* bound: payments stop when the main balance reaches it
  ReferenceWidth, \* the VARCHAR width of transactions.reference_number
  None

ASSUME VaultAssumption ==
  /\ Amounts \subseteq Nat \ {0}
  /\ MaxMain \in Nat
  /\ ReferenceWidth \in Nat
  /\ None \notin Requests \cup Vaults

VARIABLES
  row,      \* vault -> whether vaults has its row: "absent", "live", "deleted"
  balance,  \* vault -> vaults.balance
  active,   \* vault -> vaults.is_active
  history,  \* vault -> deposits less withdrawals in vault_transactions
  mirror,   \* vault -> deposits less withdrawals among transactions with its vault_id
  main,     \* deposits less withdrawals among transactions without a vault_id
  redis,    \* vault -> the request that holds locks:vault-transfer:<user>:<vault>
  rowLock,  \* vault -> the request whose database transaction holds its row
  pc,       \* request -> what it does next
  kind,     \* request -> "deposit", "withdraw" or "delete"
  arg,      \* request -> the vault it is about
  amount,   \* request -> the amount to transfer
  read      \* request -> the balance its SELECT returned

tables == <<row, balance, active, history, mirror, main>>
call == <<kind, arg, amount>>
vars == <<row, balance, active, history, mirror, main, redis, rowLock, pc,
          kind, arg, amount, read>>

Live(v) == row[v] = "live"

Init ==
  /\ row = [v \in Vaults |-> "absent"]
  /\ balance = [v \in Vaults |-> 0]
  /\ active = [v \in Vaults |-> TRUE]
  /\ history = [v \in Vaults |-> 0]
  /\ mirror = [v \in Vaults |-> 0]
  /\ main \in 0..MaxMain
  /\ redis = [v \in Vaults |-> None]
  /\ rowLock = [v \in Vaults |-> None]
  /\ pc = [r \in Requests |-> "idle"]
  /\ kind = [r \in Requests |-> None]
  /\ arg = [r \in Requests |-> None]
  /\ amount = [r \in Requests |-> 0]
  /\ read = [r \in Requests |-> 0]

-----------------------------------------------------------------------------
\* createVault() and create()
CreateVault(v) ==
  /\ row[v] = "absent"
  /\ row' = [row EXCEPT ![v] = "live"]
  /\ UNCHANGED <<balance, active, history, mirror, main, redis, rowLock, pc, call, read>>

\* updateVault() of is_active.
UpdateVault(v) ==
  /\ Live(v)
  /\ rowLock[v] = None
  /\ \E b \in BOOLEAN : active' = [active EXCEPT ![v] = b]
  /\ UNCHANGED <<row, balance, history, mirror, main, redis, rowLock, pc, call, read>>

\* deleteVault() and delete() up to the DELETE: the balance must be zero.
DeleteVault(r, v) ==
  /\ pc[r] = "idle"
  /\ Live(v)
  /\ balance[v] = 0
  /\ pc' = [pc EXCEPT ![r] = "delete"]
  /\ kind' = [kind EXCEPT ![r] = "delete"]
  /\ arg' = [arg EXCEPT ![r] = v]
  /\ UNCHANGED <<tables, redis, rowLock, amount, read>>

\* DELETE FROM vaults, by id: vault_transactions rows go with it (ON DELETE
\* CASCADE), transactions rows stay: migration 009 adds their vault_id without
\* a foreign key, before 20260327_add_vaults_support could add one.
DeleteRow(r) ==
  LET v == arg[r] IN
  /\ pc[r] = "delete"
  /\ rowLock[v] = None
  /\ IF Live(v)
     THEN /\ row' = [row EXCEPT ![v] = "deleted"]
          /\ history' = [history EXCEPT ![v] = 0]
     ELSE UNCHANGED <<row, history>>
  /\ pc' = [pc EXCEPT ![r] = "done"]
  /\ UNCHANGED <<balance, active, mirror, main, redis, rowLock, call, read>>

-----------------------------------------------------------------------------
\* The transferFunds() handler up to withLock().
Transfer(r, v, type, a) ==
  /\ pc[r] = "idle"
  /\ Live(v)
  /\ pc' = [pc EXCEPT ![r] = "lock"]
  /\ kind' = [kind EXCEPT ![r] = type]
  /\ arg' = [arg EXCEPT ![r] = v]
  /\ amount' = [amount EXCEPT ![r] = a]
  /\ UNCHANGED <<tables, redis, rowLock, read>>

\* acquire()
Acquire(r) ==
  /\ pc[r] = "lock"
  /\ redis[arg[r]] = None
  /\ redis' = [redis EXCEPT ![arg[r]] = r]
  /\ pc' = [pc EXCEPT ![r] = "begin"]
  /\ UNCHANGED <<tables, rowLock, call, read>>

\* acquire() gives up after its retries.
AcquireFails(r) ==
  /\ pc[r] = "lock"
  /\ redis[arg[r]] # None
  /\ pc' = [pc EXCEPT ![r] = "done"]
  /\ UNCHANGED <<tables, redis, rowLock, call, read>>

\* The lock's time to live elapses; its holder does not notice.
LockExpires(v) ==
  /\ redis[v] # None
  /\ redis' = [redis EXCEPT ![v] = None]
  /\ UNCHANGED <<tables, rowLock, pc, call, read>>

\* The checks of transferFunds() that throw "Insufficient ...".
Sufficient(r) ==
  IF kind[r] = "withdraw" THEN balance[arg[r]] >= amount[r] ELSE main >= amount[r]

\* Faulty variant: the SELECT does not wait for another transfer's row lock.
SelectUnlocked(r) ==
  LET v == arg[r] IN
  /\ pc[r] = "begin"
  /\ IF Live(v) /\ active[v] /\ Sufficient(r)
     THEN /\ rowLock' = [rowLock EXCEPT ![v] = r]
          /\ read' = [read EXCEPT ![r] = balance[v]]
          /\ pc' = [pc EXCEPT ![r] = "write"]
     ELSE pc' = [pc EXCEPT ![r] = "unlock"] /\ UNCHANGED <<rowLock, read>>
  /\ UNCHANGED <<tables, redis, call>>

\* Faulty variant: a vault that was deactivated still takes transfers.
SelectInactive(r) ==
  LET v == arg[r] IN
  /\ pc[r] = "begin"
  /\ rowLock[v] = None
  /\ IF Live(v) /\ Sufficient(r)
     THEN /\ rowLock' = [rowLock EXCEPT ![v] = r]
          /\ read' = [read EXCEPT ![r] = balance[v]]
          /\ pc' = [pc EXCEPT ![r] = "write"]
     ELSE pc' = [pc EXCEPT ![r] = "unlock"] /\ UNCHANGED <<rowLock, read>>
  /\ UNCHANGED <<tables, redis, call>>

\* BEGIN, SELECT ... FOR UPDATE and the checks; one that fails rolls back.
SelectForUpdate(r) ==
  LET v == arg[r] IN
  /\ pc[r] = "begin"
  /\ rowLock[v] = None
  /\ IF Live(v) /\ active[v] /\ Sufficient(r)
     THEN /\ rowLock' = [rowLock EXCEPT ![v] = r]
          /\ read' = [read EXCEPT ![r] = balance[v]]
          /\ pc' = [pc EXCEPT ![r] = "write"]
     ELSE pc' = [pc EXCEPT ![r] = "unlock"] /\ UNCHANGED <<rowLock, read>>
  /\ UNCHANGED <<tables, redis, call>>

\* What a transfer adds to its vault.
Delta(r) == IF kind[r] = "deposit" THEN amount[r] ELSE -amount[r]

\* Faulty variant: the row in transactions has the vault's own direction.
MirrorDeltaSame(r) == Delta(r)

\* The row in transactions has the opposite type.
MirrorDelta(r) == -Delta(r)

\* The new balance, from the one that was read.
NewBalance(r) == read[r] + Delta(r)

\* The length of VAULT-<13 digits>-<suffix>.  The suffix is what substr(2, 9)
\* leaves of a random fraction in base 36: nine characters but for the rare
\* fraction with a shorter expansion.
ReferenceLength(suffix) == 20 + suffix

\* The row in transactions has room for the reference some draw gives.
ReferenceFits == \E suffix \in 0..9 : ReferenceLength(suffix) <= ReferenceWidth

\* updateBalance(), the two inserts and COMMIT, when the reference fits.
Commit(r) ==
  LET v == arg[r] IN
  /\ pc[r] = "write"
  /\ ReferenceFits
  /\ balance' = [balance EXCEPT ![v] = NewBalance(r)]
  /\ history' = [history EXCEPT ![v] = @ + Delta(r)]
  /\ mirror' = [mirror EXCEPT ![v] = @ + MirrorDelta(r)]
  /\ rowLock' = [rowLock EXCEPT ![v] = None]
  /\ pc' = [pc EXCEPT ![r] = "unlock"]
  /\ UNCHANGED <<row, active, main, redis, call, read>>

\* Faulty variant: a failed statement is not followed by ROLLBACK.
RollbackForgotten(r) ==
  /\ pc[r] = "write"
  /\ pc' = [pc EXCEPT ![r] = "unlock"]
  /\ UNCHANGED <<tables, redis, rowLock, call, read>>

\* A statement of the database transaction fails: ROLLBACK.  With the width the
\* schema declares, 25, the insert into transactions fails on nearly every
\* draw of the reference.
Rollback(r) ==
  /\ pc[r] = "write"
  /\ rowLock' = [rowLock EXCEPT ![arg[r]] = None]
  /\ pc' = [pc EXCEPT ![r] = "unlock"]
  /\ UNCHANGED <<tables, redis, call, read>>

\* release() in the finally block of withLock(): only the holder's own lock.
Release(r) ==
  /\ pc[r] = "unlock"
  /\ redis' = [redis EXCEPT ![arg[r]] = IF @ = r THEN None ELSE @]
  /\ pc' = [pc EXCEPT ![r] = "done"]
  /\ UNCHANGED <<tables, rowLock, call, read>>

\* The process dies: PostgreSQL rolls back and drops the row lock, the Redis
\* lock stays until it expires.
Crash(r) ==
  /\ pc[r] \notin {"idle", "done"}
  /\ rowLock' = [v \in Vaults |-> IF rowLock[v] = r THEN None ELSE rowLock[v]]
  /\ pc' = [pc EXCEPT ![r] = "done"]
  /\ UNCHANGED <<tables, redis, call, read>>

\* A payment of the pipeline completes and changes the main balance.
Payment ==
  /\ \E b \in 0..MaxMain : main' = b
  /\ UNCHANGED <<row, balance, active, history, mirror, redis, rowLock, pc, call, read>>

-----------------------------------------------------------------------------
Arrive(r) ==
  \E v \in Vaults :
    \/ DeleteVault(r, v)
    \/ \E type \in {"deposit", "withdraw"}, a \in Amounts : Transfer(r, v, type, a)

Step(r) ==
  \/ DeleteRow(r) \/ Acquire(r) \/ AcquireFails(r) \/ SelectForUpdate(r)
  \/ Commit(r) \/ Release(r)

Next ==
  \/ \E v \in Vaults : CreateVault(v) \/ UpdateVault(v) \/ LockExpires(v)
  \/ \E r \in Requests : Arrive(r) \/ Step(r) \/ Rollback(r) \/ Crash(r)
  \/ Payment

\* A request under way is resumed when its statement returns or fails, and
\* PostgreSQL grants a freed row lock to a waiter.
Fairness == \A r \in Requests : WF_vars(Step(r) \/ Rollback(r))

Spec == Init /\ [][Next]_vars /\ Fairness

-----------------------------------------------------------------------------
\* Every column keeps its type; the balance obeys CHECK (balance >= 0).
TypeOK ==
  /\ row \in [Vaults -> {"absent", "live", "deleted"}]
  /\ balance \in [Vaults -> Nat]
  /\ active \in [Vaults -> BOOLEAN]
  /\ history \in [Vaults -> Int]
  /\ mirror \in [Vaults -> Int]
  /\ main \in 0..MaxMain
  /\ redis \in [Vaults -> Requests \cup {None}]
  /\ rowLock \in [Vaults -> Requests \cup {None}]
  /\ pc \in [Requests -> {"idle", "delete", "lock", "begin", "write", "unlock", "done"}]
  /\ kind \in [Requests -> {"deposit", "withdraw", "delete", None}]
  /\ arg \in [Requests -> Vaults \cup {None}]
  /\ amount \in [Requests -> Nat]
  /\ read \in [Requests -> Nat]

\* No update of a balance is lost: a vault's balance is what its recorded
\* transfers add up to, also when the Redis lock of a slow transfer expired
\* and another transfer started.
VaultMatchesHistory == \A v \in Vaults : Live(v) => balance[v] = history[v]

\* "Corresponding entries in main transactions table" (docs/VAULTS_API.md:351):
\* the rows kept in transactions are the exact counterpart of a vault's own.
MirrorsHistory == \A v \in Vaults : Live(v) => mirror[v] = -history[v]

\* "Cannot transfer to inactive vault" (vault.ts:334): no money moves in or out
\* of a vault while it is inactive, however late its deactivation came.
InactiveFrozen ==
  [][\A v \in Vaults : Live(v) /\ ~active[v] => balance'[v] = balance[v]]_vars

\* Every transfer and every delete ends.
EveryRequestEnds == \A r \in Requests : pc[r] # "idle" ~> pc[r] = "done"
=============================================================================
