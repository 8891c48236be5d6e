------------------------------ MODULE AccountSync ------------------------------
(***************************************************************************)
(* sync_account and update_account (src/account/operations/syncing/mod.rs) *)
(* for one account, with the tasks that share the account with them.       *)
(*                                                                         *)
(*  - Sync tasks: each calls sync_account once.  A step of a task is the   *)
(*    code between two awaits: the clock read, the last_synced mutex and   *)
(*    its interval check, sync_transactions, the output id query, the      *)
(*    output fetch, consolidate_outputs, and update_account with the       *)
(*    final last_synced update.                                            *)
(*  - A sender: the wallet's send operation, which locks outputs and adds  *)
(*    a pending transaction under the account lock but not under the       *)
(*    last_synced mutex.                                                   *)
(*  - The ledger: it confirms or conflicts transactions, and another       *)
(*    wallet holding the same seed may spend an output.                    *)
(*  - The clock (SystemTime in milliseconds).                              *)
(*                                                                         *)
(* sync_transactions, get_address_output_ids, get_outputs,                 *)
(* consolidate_outputs and the send operation are not in the sources;      *)
(* they are modelled from the spec (TransactionSyncResult, section 4.5).   *)
(* Addresses are left out: every output belongs to the account, and the    *)
(* used flags and addresses_with_balance change nothing the properties     *)
(* below read.                                                             *)
(***************************************************************************)
EXTENDS Naturals, FiniteSets

CONSTANTS
  Tasks,            \* tasks calling sync_account
  Outputs,          \* output ids
  Txs,              \* transaction ids
  Genesis,          \* outputs unspent in the ledger and known at the start
  Produced,         \* Produced[x]: the output transaction x creates
  MinSyncInterval,  \* MIN_SYNC_INTERVAL
  MaxTime,          \* bound of the clock
  TimeModulus,      \* 2^128: u128 arithmetic of the millisecond times
  ConsolidationThreshold, \* unlocked outputs that make consolidation send
  AutoConsolidate,  \* FALSE for the Ledger Nano signer types
  NoTask            \* model value: the mutex is free

ASSUME ConstantsAssumption ==
  /\ Genesis \subseteq Outputs
  /\ Produced \in [Txs -> Outputs \ Genesis]
  /\ MinSyncInterval \in Nat \ {0}
  /\ MaxTime \in Nat
  /\ TimeModulus \in Nat /\ TimeModulus > MaxTime + MinSyncInterval
  /\ ConsolidationThreshold \in Nat \ {0}
  /\ AutoConsolidate \in BOOLEAN
  /\ NoTask \notin Tasks

\* OutputData.is_spent of a stored output, "none" when there is none.
OutputStates == {"none", "unspent", "spent"}
\* InclusionState of a stored transaction, "none" when there is none.
TxStates == {"none", "pending", "confirmed", "conflicting"}
\* Where a sync task is.
SyncPcs == {"idle", "lock", "txsync", "outputIds", "fetch", "consolidate",
            "commit", "done"}
\* How sync_account returned: a fresh or the cached balance, an error, or a
\* panic (an overflowing subtraction in a build with overflow checks).
Results == {"none", "synced", "cached", "error", "panic"}

VARIABLES
  \* the account (AccountStore)
  outputs,              \* outputs: OutputId -> OutputData.is_spent
  unspentOutputs,       \* keys of unspent_outputs
  lockedOutputs,        \* locked_outputs
  transactions,         \* transactions: TransactionId -> inclusion state
  pendingTransactions,  \* pending_transactions
  lastSynced,           \* the value guarded by account_handle.last_synced
  mutexHolder,          \* task holding the last_synced mutex, or NoTask
  \* the sync tasks
  pc,                   \* where each task is
  force,                \* options.force_syncing
  timeNow,              \* time_now read before the mutex is awaited
  seenSynced,           \* last_synced as the interval check saw it
  updated,              \* transaction_sync_result.updated_transactions
  spentIds,             \* transaction_sync_result.spent_output_ids
  unlockIds,            \* transaction_sync_result.output_ids_to_unlock
  outputIds,            \* output ids the address query returned
  observed,             \* the fetched outputs' is_spent
  result,               \* how sync_account returned
  \* the ledger and the clock
  ledger,               \* output state in the ledger
  txLedger,             \* transaction state in the ledger
  txInputs,             \* inputs of every sent transaction
  clock

accountVars == <<outputs, unspentOutputs, lockedOutputs, transactions,
                 pendingTransactions, lastSynced, mutexHolder>>
taskVars == <<pc, force, timeNow, seenSynced, updated, spentIds, unlockIds,
              outputIds, observed, result>>
ledgerVars == <<ledger, txLedger, txInputs, clock>>
vars == <<accountVars, taskVars, ledgerVars>>

-----------------------------------------------------------------------------
(* Helpers                                                                 *)

\* a - b on u128.
WrappingSub(a, b) == (a - b) % TimeModulus

\* The transaction ids nobody has used yet.
FreshTxs == {x \in Txs : transactions[x] = "none" /\ txLedger[x] = "none"}

\* Sending transaction x spending ins: lock the inputs, store the
\* transaction as pending and post it.  (The send operation of the wallet,
\* also used by consolidate_outputs.)
SendTransaction(x, ins) ==
  /\ lockedOutputs' = lockedOutputs \cup ins
  /\ transactions' = [transactions EXCEPT ![x] = "pending"]
  /\ pendingTransactions' = pendingTransactions \cup {x}
  /\ txInputs' = [txInputs EXCEPT ![x] = ins]
  /\ txLedger' = [txLedger EXCEPT ![x] = "pending"]

\* The locals of a call go out of scope when it returns.
DropLocals(t) ==
  /\ force' = [force EXCEPT ![t] = FALSE]
  /\ timeNow' = [timeNow EXCEPT ![t] = 0]
  /\ seenSynced' = [seenSynced EXCEPT ![t] = 0]
  /\ updated' = [updated EXCEPT ![t] = [x \in Txs |-> "none"]]
  /\ spentIds' = [spentIds EXCEPT ![t] = {}]
  /\ unlockIds' = [unlockIds EXCEPT ![t] = {}]
  /\ outputIds' = [outputIds EXCEPT ![t] = {}]
  /\ observed' = [observed EXCEPT ![t] = [o \in Outputs |-> "none"]]

\* A task leaves sync_account: the MutexGuard is dropped.
Leave(t, r) ==
  /\ pc' = [pc EXCEPT ![t] = "done"]
  /\ result' = [result EXCEPT ![t] = r]
  /\ mutexHolder' = NoTask
  /\ DropLocals(t)

-----------------------------------------------------------------------------
(* The ledger and the clock                                                *)

\* A milestone confirms a pending transaction whose inputs are unspent.
ConfirmTx(x) ==
  /\ txLedger[x] = "pending"
  /\ \A i \in txInputs[x] : ledger[i] = "unspent"
  /\ txLedger' = [txLedger EXCEPT ![x] = "confirmed"]
  /\ ledger' = [o \in Outputs |->
                  IF o \in txInputs[x] THEN "spent"
                  ELSE IF o = Produced[x] THEN "unspent" ELSE ledger[o]]
  /\ UNCHANGED <<txInputs, clock, accountVars, taskVars>>

\* A pending transaction one of whose inputs is spent conflicts.
ConflictTx(x) ==
  /\ txLedger[x] = "pending"
  /\ \E i \in txInputs[x] : ledger[i] = "spent"
  /\ txLedger' = [txLedger EXCEPT ![x] = "conflicting"]
  /\ UNCHANGED <<ledger, txInputs, clock, accountVars, taskVars>>

\* Another wallet with the same seed spends an unspent output.
ExternalSpend(o) ==
  /\ ledger[o] = "unspent"
  /\ ledger' = [ledger EXCEPT ![o] = "spent"]
  /\ UNCHANGED <<txLedger, txInputs, clock, accountVars, taskVars>>

Tick ==
  /\ clock < MaxTime
  /\ clock' = clock + 1
  /\ UNCHANGED <<ledger, txLedger, txInputs, accountVars, taskVars>>

-----------------------------------------------------------------------------
(* The sender                                                              *)

\* The wallet sends transaction x with inputs taken from the unspent and
\* unlocked outputs.
Send(x, ins) ==
  /\ x \in FreshTxs
  /\ ins # {}
  /\ ins \subseteq unspentOutputs \ lockedOutputs
  /\ SendTransaction(x, ins)
  /\ UNCHANGED <<outputs, unspentOutputs, lastSynced, mutexHolder, ledger,
                 clock, taskVars>>

-----------------------------------------------------------------------------
(* sync_account                                                            *)

Init ==
  /\ outputs = [o \in Outputs |-> IF o \in Genesis THEN "unspent" ELSE "none"]
  /\ unspentOutputs = Genesis
  /\ lockedOutputs = {}
  /\ transactions = [x \in Txs |-> "none"]
  /\ pendingTransactions = {}
  /\ lastSynced = 0
  /\ mutexHolder = NoTask
  /\ pc = [t \in Tasks |-> "idle"]
  /\ force = [t \in Tasks |-> FALSE]
  /\ timeNow = [t \in Tasks |-> 0]
  /\ seenSynced = [t \in Tasks |-> 0]
  /\ updated = [t \in Tasks |-> [x \in Txs |-> "none"]]
  /\ spentIds = [t \in Tasks |-> {}]
  /\ unlockIds = [t \in Tasks |-> {}]
  /\ outputIds = [t \in Tasks |-> {}]
  /\ observed = [t \in Tasks |-> [o \in Outputs |-> "none"]]
  /\ result = [t \in Tasks |-> "none"]
  /\ ledger = [o \in Outputs |-> IF o \in Genesis THEN "unspent" ELSE "none"]
  /\ txLedger = [x \in Txs |-> "none"]
  /\ txInputs = [x \in Txs |-> {}]
  /\ clock = 0

\* sync_account is called; it reads the clock before awaiting the mutex.
Call(t, forceSyncing) ==
  /\ pc[t] = "idle"
  /\ pc' = [pc EXCEPT ![t] = "lock"]
  /\ force' = [force EXCEPT ![t] = forceSyncing]
  /\ timeNow' = [timeNow EXCEPT ![t] = clock]
  /\ UNCHANGED <<seenSynced, updated, spentIds, unlockIds, outputIds,
                 observed, result, accountVars, ledgerVars>>

\* time_now - *last_synced on u128.  When last_synced is later than
\* time_now, a build with overflow checks panics and a release build wraps.
Elapsed(t) == WrappingSub(timeNow[t], lastSynced)
Underflows(t) == timeNow[t] < lastSynced

\* The mutex is acquired and the interval checked: a recent sync makes a
\* non-forced call return the cached balance.
AcquireLock(t) ==
  /\ pc[t] = "lock"
  /\ mutexHolder = NoTask
  /\ \/ /\ Underflows(t)
        /\ Leave(t, "panic")
     \/ /\ Elapsed(t) < MinSyncInterval /\ ~force[t]
        /\ Leave(t, "cached")
     \/ /\ ~(Elapsed(t) < MinSyncInterval /\ ~force[t])
        /\ pc' = [pc EXCEPT ![t] = "txsync"]
        /\ mutexHolder' = t
        /\ seenSynced' = [seenSynced EXCEPT ![t] = lastSynced]
        /\ UNCHANGED <<result, force, timeNow, updated, spentIds, unlockIds,
                       outputIds, observed>>
  /\ UNCHANGED <<outputs, unspentOutputs, lockedOutputs, transactions,
                 pendingTransactions, lastSynced, ledgerVars>>

\* sync_transactions: the pending transactions' states in the ledger; the
\* inputs of the confirmed ones are spent, those of the conflicting ones
\* are to be unlocked.
SyncTransactions(t) ==
  /\ pc[t] = "txsync"
  /\ updated' = [updated EXCEPT ![t] =
       [x \in Txs |-> IF x \in pendingTransactions THEN txLedger[x]
                      ELSE "none"]]
  /\ spentIds' = [spentIds EXCEPT ![t] =
       UNION {txInputs[x] : x \in {y \in pendingTransactions :
                                     txLedger[y] = "confirmed"}}]
  /\ unlockIds' = [unlockIds EXCEPT ![t] =
       UNION {txInputs[x] : x \in {y \in pendingTransactions :
                                     txLedger[y] = "conflicting"}}]
  /\ pc' = [pc EXCEPT ![t] = "outputIds"]
  /\ UNCHANGED <<force, timeNow, seenSynced, outputIds, observed, result,
                 accountVars, ledgerVars>>

\* get_address_output_ids: the ids of the account's unspent outputs.
GetOutputIds(t) ==
  /\ pc[t] = "outputIds"
  /\ outputIds' = [outputIds EXCEPT ![t] = {o \in Outputs : ledger[o] = "unspent"}]
  /\ pc' = [pc EXCEPT ![t] = "fetch"]
  /\ UNCHANGED <<force, timeNow, seenSynced, updated, spentIds, unlockIds,
                 observed, result, accountVars, ledgerVars>>

\* get_outputs and output_response_to_output_data: the outputs of those
\* ids as they are now, spent or not.
GetOutputs(t) ==
  /\ pc[t] = "fetch"
  /\ observed' = [observed EXCEPT ![t] =
       [o \in Outputs |-> IF o \in outputIds[t] THEN ledger[o] ELSE "none"]]
  /\ pc' = [pc EXCEPT ![t] = "consolidate"]
  /\ UNCHANGED <<force, timeNow, seenSynced, updated, spentIds, unlockIds,
                 outputIds, result, accountVars, ledgerVars>>

\* Mutant: consolidation also spends locked outputs.
ConsolidateLocked(t) ==
  /\ pc[t] = "consolidate"
  /\ pc' = [pc EXCEPT ![t] = "commit"]
  /\ IF AutoConsolidate /\ Cardinality(unspentOutputs) >= ConsolidationThreshold
        /\ FreshTxs # {}
     THEN \E x \in FreshTxs : SendTransaction(x, unspentOutputs)
     ELSE UNCHANGED <<lockedOutputs, transactions, pendingTransactions,
                      txInputs, txLedger>>
  /\ UNCHANGED <<force, timeNow, seenSynced, updated, spentIds, unlockIds,
                 outputIds, observed, result, outputs, unspentOutputs,
                 lastSynced, mutexHolder, ledger, clock>>

\* consolidate_outputs, skipped for the Ledger Nano signers: with enough
\* unlocked unspent outputs it sends one transaction spending all of them.
Consolidate(t) ==
  LET free == unspentOutputs \ lockedOutputs IN
  /\ pc[t] = "consolidate"
  /\ pc' = [pc EXCEPT ![t] = "commit"]
  /\ IF AutoConsolidate /\ Cardinality(free) >= ConsolidationThreshold
        /\ FreshTxs # {}
     THEN \E x \in FreshTxs : SendTransaction(x, free)
     ELSE UNCHANGED <<lockedOutputs, transactions, pendingTransactions,
                      txInputs, txLedger>>
  /\ UNCHANGED <<force, timeNow, seenSynced, updated, spentIds, unlockIds,
                 outputIds, observed, result, outputs, unspentOutputs,
                 lastSynced, mutexHolder, ledger, clock>>

\* The commit of update_account with the sets it removes from
\* pending_transactions and locked_outputs as parameters, so that its
\* mutants below differ from it only there.
Commit(t, final, unlocked) ==
  LET seen == {o \in Outputs : observed[t][o] # "none"}
      withObserved == [o \in Outputs |->
                         IF o \in seen THEN observed[t][o] ELSE outputs[o]]
      released == spentIds[t] \cup unlockIds[t]
  IN
  /\ pc[t] = "commit"
  /\ outputs' = [o \in Outputs |->
                   IF o \in released /\ withObserved[o] # "none" THEN "spent"
                   ELSE withObserved[o]]
  /\ unspentOutputs' =
       (unspentOutputs \cup {o \in seen : observed[t][o] = "unspent"})
         \ spentIds[t]
  /\ lockedOutputs' = lockedOutputs \ unlocked
  /\ transactions' = [x \in Txs |->
                        IF updated[t][x] # "none" THEN updated[t][x]
                        ELSE transactions[x]]
  /\ pendingTransactions' = pendingTransactions \ final
  /\ \/ /\ lastSynced' = clock
        /\ Leave(t, "synced")
     \/ /\ UNCHANGED lastSynced
        /\ Leave(t, "error")
  /\ UNCHANGED ledgerVars

\* Mutant: only Confirmed transactions leave pending_transactions.
UpdateAccountConfirmedOnly(t) ==
  Commit(t, {x \in Txs : updated[t][x] = "confirmed"},
         spentIds[t] \cup unlockIds[t])

\* Mutant: the loop over spent_output_ids does not unlock.
UpdateAccountKeepsSpentLocked(t) ==
  Commit(t, {x \in Txs : updated[t][x] \in {"confirmed", "conflicting"}},
         unlockIds[t])

\* Mutant: every transaction sync_transactions reported, Pending ones
\* included, leaves pending_transactions.
UpdateAccountAllReported(t) ==
  Commit(t, {x \in Txs : updated[t][x] # "none"}, spentIds[t] \cup unlockIds[t])

\* update_account, then the new last_synced.  The account is written in
\* the order of the code: observed outputs, transactions, spent outputs,
\* outputs to unlock.  save_account may fail after the account was
\* changed: the error is returned and last_synced stays.
UpdateAccount(t) ==
  Commit(t, {x \in Txs : updated[t][x] \in {"confirmed", "conflicting"}},
         spentIds[t] \cup unlockIds[t])

\* A node call (or consolidation) fails: `?` returns the error.
SyncError(t) ==
  /\ pc[t] \in {"txsync", "outputIds", "fetch", "consolidate"}
  /\ Leave(t, "error")
  /\ UNCHANGED <<outputs, unspentOutputs, lockedOutputs,
                 transactions, pendingTransactions, lastSynced, ledgerVars>>

SyncStep(t) ==
  \/ \E f \in BOOLEAN : Call(t, f)
  \/ AcquireLock(t)
  \/ SyncTransactions(t)
  \/ GetOutputIds(t)
  \/ GetOutputs(t)
  \/ Consolidate(t)
  \/ UpdateAccount(t)
  \/ SyncError(t)

Next ==
  \/ \E t \in Tasks : SyncStep(t)
  \/ \E x \in Txs, ins \in SUBSET Outputs : Send(x, ins)
  \/ \E x \in Txs : ConfirmTx(x) \/ ConflictTx(x)
  \/ \E o \in Outputs : ExternalSpend(o)
  \/ Tick

Spec == Init /\ [][Next]_vars

-----------------------------------------------------------------------------
(* Properties                                                              *)

TypeOK ==
  /\ outputs \in [Outputs -> OutputStates]
  /\ unspentOutputs \subseteq Outputs
  /\ lockedOutputs \subseteq Outputs
  /\ transactions \in [Txs -> TxStates]
  /\ pendingTransactions \subseteq Txs
  /\ lastSynced \in 0 .. MaxTime
  /\ mutexHolder \in Tasks \cup {NoTask}
  /\ pc \in [Tasks -> SyncPcs]
  /\ force \in [Tasks -> BOOLEAN]
  /\ timeNow \in [Tasks -> 0 .. MaxTime]
  /\ seenSynced \in [Tasks -> 0 .. MaxTime]
  /\ updated \in [Tasks -> [Txs -> TxStates]]
  /\ spentIds \in [Tasks -> SUBSET Outputs]
  /\ unlockIds \in [Tasks -> SUBSET Outputs]
  /\ outputIds \in [Tasks -> SUBSET Outputs]
  /\ observed \in [Tasks -> [Outputs -> OutputStates]]
  /\ result \in [Tasks -> Results]
  /\ ledger \in [Outputs -> OutputStates]
  /\ txLedger \in [Txs -> TxStates]
  /\ txInputs \in [Txs -> SUBSET Outputs]
  /\ clock \in 0 .. MaxTime

\* A transaction leaves pending_transactions only in a commit of
\* update_account that stores it with the final state the ledger gave it:
\* the state sync_transactions read before get_outputs and consolidation
\* is still the ledger's when the commit uses it, whatever the ledger,
\* the sender and the other sync tasks did in between.
LeavesPendingWhenFinal ==
  [][\A x \in pendingTransactions \ pendingTransactions' :
        /\ txLedger[x] \in {"confirmed", "conflicting"}
        /\ transactions'[x] = txLedger[x]]_vars

\* Syncs commit the transaction states they read earlier while the sender
\* keeps adding transactions: still no transaction in pending_transactions
\* is stored as Confirmed or Conflicting (or not stored at all).
PendingNotFinal ==
  \A x \in pendingTransactions : transactions[x] = "pending"

\* Every locked output is in unspent_outputs: sends lock only unspent
\* outputs, and update_account takes an output out of unspent_outputs only
\* together with its lock.
LockedAreUnspent == lockedOutputs \subseteq unspentOutputs

\* The inputs of a transaction stay locked while it is pending, whatever
\* the interleaving of sends, consolidation and the commits of syncs that
\* read the transaction states earlier: no output is offered to a second
\* transaction while the first may still spend it.
PendingInputsLocked ==
  \A x \in pendingTransactions : txInputs[x] \subseteq lockedOutputs

\* The spec (sections 3 and 8): after every sync commit unspent_outputs is
\* exactly the outputs whose OutputData is not spent.
UnspentMatchesOutputs ==
  unspentOutputs = {o \in Outputs : outputs[o] = "unspent"}

\* The spec (section 8): a sync called within MIN_SYNC_INTERVAL of the last
\* one returns the cached balance unless forced.  So a non-forced sync that
\* goes on to the network started MIN_SYNC_INTERVAL after the last_synced
\* it saw.
SyncRespectsInterval ==
  \A t \in Tasks :
    pc[t] \in {"txsync", "outputIds", "fetch", "consolidate", "commit"}
      /\ ~force[t]
      => timeNow[t] >= seenSynced[t] + MinSyncInterval

\* The transaction lifecycle of AccountSyncSpec, with the same variables.
Sync == INSTANCE AccountSyncSpec

\* The spec (section 3): transactions enter pending_transactions on local
\* submission and leave it on reaching Confirmed or Conflicting.  Sync
\* tasks that read the ledger, fetch outputs and consolidate across
\* several awaits, interleaved with sends and with each other, change the
\* transactions and locked_outputs only as one atomic sync would: each
\* commit of update_account is a Record step, each send or consolidation a
\* Submit, each milestone verdict a Finalise.
ImplementsSyncSpec == Sync!Spec

=============================================================================
