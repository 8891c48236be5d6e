------------------------- MODULE AccountSyncProofs --------------------------
(***************************************************************************)
(* Proofs about AccountSync for every value of the constants.             *)
(***************************************************************************)
EXTENDS AccountSync, TLAPS

\* Where a task holds the mutex: from the interval check to the commit.
Pipeline == {"txsync", "outputIds", "fetch", "consolidate", "commit"}
\* Where a task has the result of sync_transactions.
AfterTxSync == {"outputIds", "fetch", "consolidate", "commit"}

(***************************************************************************)
(* The inductive invariant.  PendingInputsLocked is not inductive: the     *)
(* commit unlocks the inputs of the transactions that sync_transactions    *)
(* found final, and it must not unlock an input of a transaction that is   *)
(* still pending.  So the invariant records that                          *)
(*  - only the task holding the mutex is in the pipeline, so no other     *)
(*    commit runs between a task's sync_transactions and its commit,      *)
(*  - every transaction sync_transactions reported is still pending,      *)
(*  - spent_output_ids and output_ids_to_unlock are exactly the inputs of  *)
(*    the reported Confirmed and Conflicting transactions,                 *)
(*  - two pending transactions have disjoint inputs (a send takes only     *)
(*    unlocked outputs).                                                   *)
(***************************************************************************)
\* The inputs of the transactions whose state in r is st.
InputsOf(r, st) == UNION {txInputs[x] : x \in {y \in Txs : r[y] = st}}

MutexHeld == \A t \in Tasks : pc[t] \in Pipeline => mutexHolder = t

ReadsCurrent ==
  \A t \in Tasks : pc[t] \in AfterTxSync =>
    /\ \A x \in Txs : updated[t][x] # "none" => x \in pendingTransactions
    /\ spentIds[t] = InputsOf(updated[t], "confirmed")
    /\ unlockIds[t] = InputsOf(updated[t], "conflicting")

InputsDisjoint ==
  \A x, y \in pendingTransactions : x # y => txInputs[x] \cap txInputs[y] = {}

\* What sync_transactions reported Confirmed or Conflicting is still so in
\* the ledger: the ledger never takes a final state back.
ReadsLedger ==
  \A t \in Tasks : pc[t] \in AfterTxSync =>
    \A x \in Txs : updated[t][x] \in {"confirmed", "conflicting"} =>
      txLedger[x] = updated[t][x]

IInv ==
  /\ TypeOK
  /\ PendingNotFinal
  /\ LockedAreUnspent
  /\ PendingInputsLocked
  /\ MutexHeld
  /\ ReadsCurrent
  /\ InputsDisjoint

USE ConstantsAssumption

LEMMA InitIInv == Init => IInv
<1> SUFFICES ASSUME Init PROVE IInv
  OBVIOUS
<1>1. TypeOK
  <2>1. force \in [Tasks -> BOOLEAN]
    BY Zenon DEF Init
  <2> QED
    BY <2>1 DEF Init, TypeOK, OutputStates, TxStates, SyncPcs, Results
<1> QED
  BY <1>1 DEF Init, IInv, PendingNotFinal, LockedAreUnspent,
     PendingInputsLocked, MutexHeld, ReadsCurrent, InputsDisjoint, Pipeline,
     AfterTxSync

(* The ledger and the clock change nothing the invariant reads but their *)
(* own types.                                                              *)
LEMMA LedgerIInv ==
  ASSUME IInv,
         \/ \E x \in Txs : ConfirmTx(x) \/ ConflictTx(x)
         \/ \E o \in Outputs : ExternalSpend(o)
         \/ Tick
  PROVE  IInv'
<1>1. UNCHANGED <<txInputs, accountVars, taskVars>>
  BY DEF ConfirmTx, ConflictTx, ExternalSpend, Tick
<1>2. /\ ledger' \in [Outputs -> OutputStates]
      /\ txLedger' \in [Txs -> TxStates]
      /\ clock' \in 0 .. MaxTime
  <2>1. CASE \E x \in Txs : ConfirmTx(x)
    BY <2>1 DEF ConfirmTx, IInv, TypeOK, OutputStates, TxStates
  <2>2. CASE \E x \in Txs : ConflictTx(x)
    BY <2>2 DEF ConflictTx, IInv, TypeOK, TxStates
  <2>3. CASE \E o \in Outputs : ExternalSpend(o)
    BY <2>3 DEF ExternalSpend, IInv, TypeOK, OutputStates
  <2>4. CASE Tick
    BY <2>4 DEF Tick, IInv, TypeOK
  <2> QED
    BY <2>1, <2>2, <2>3, <2>4
<1>3. TypeOK'
  BY <1>1, <1>2, Zenon DEF IInv, TypeOK, accountVars, taskVars
<1> QED
  BY <1>1, <1>3 DEF IInv, PendingNotFinal, LockedAreUnspent,
     PendingInputsLocked, MutexHeld, ReadsCurrent, InputsDisjoint, InputsOf,
     accountVars, taskVars

(* Sending a fresh transaction with unlocked unspent inputs, as Send and *)
(* Consolidate do, while no task enters the pipeline or its part after    *)
(* sync_transactions.                                                      *)
LEMMA SendTxIInv ==
  ASSUME IInv,
         NEW x \in FreshTxs,
         NEW ins \in SUBSET Outputs,
         ins \subseteq unspentOutputs \ lockedOutputs,
         SendTransaction(x, ins),
         UNCHANGED <<outputs, unspentOutputs, lastSynced, mutexHolder, ledger,
                    clock, force, timeNow, seenSynced, updated, spentIds,
                    unlockIds, outputIds, observed, result>>,
         pc' \in [Tasks -> SyncPcs],
         \A t \in Tasks : pc'[t] \in Pipeline => pc[t] \in Pipeline,
         \A t \in Tasks : pc'[t] \in AfterTxSync => pc[t] \in AfterTxSync
  PROVE  IInv'
<1>0. x \notin pendingTransactions /\ x \in Txs
  BY DEF FreshTxs, IInv, PendingNotFinal
<1>1. TypeOK'
  <2>1. force' \in [Tasks -> BOOLEAN]
    BY Zenon DEF IInv, TypeOK
  <2>2. /\ lockedOutputs' \subseteq Outputs
        /\ transactions' \in [Txs -> TxStates]
        /\ pendingTransactions' \subseteq Txs
        /\ txInputs' \in [Txs -> SUBSET Outputs]
        /\ txLedger' \in [Txs -> TxStates]
    BY <1>0 DEF SendTransaction, IInv, TypeOK, TxStates
  <2> QED
    BY <2>1, <2>2 DEF IInv, TypeOK
<1>2. PendingNotFinal'
  BY <1>0 DEF SendTransaction, IInv, PendingNotFinal, TypeOK
<1>3. LockedAreUnspent'
  BY DEF SendTransaction, IInv, LockedAreUnspent
<1>4. PendingInputsLocked'
  BY <1>0 DEF SendTransaction, IInv, PendingInputsLocked, TypeOK
<1>5. MutexHeld'
  BY DEF IInv, MutexHeld
<1>6. ReadsCurrent'
  <2> SUFFICES ASSUME NEW t \in Tasks, pc'[t] \in AfterTxSync
               PROVE  ReadsCurrent!(t)'
    BY DEF ReadsCurrent
  <2>1. ReadsCurrent!(t)
    BY DEF IInv, ReadsCurrent
  <2>2. \A y \in Txs : updated[t][y] # "none" => txInputs'[y] = txInputs[y]
    BY <1>0, <2>1 DEF SendTransaction, IInv, TypeOK
  <2>3. ASSUME NEW st \in {"confirmed", "conflicting"}
        PROVE  InputsOf(updated[t], st)' = InputsOf(updated[t], st)
    BY <2>2 DEF InputsOf
  <2> QED
    BY <2>1, <2>3 DEF SendTransaction
<1>7. InputsDisjoint'
  BY <1>0 DEF SendTransaction, IInv, InputsDisjoint, PendingInputsLocked,
     TypeOK
<1> QED
  BY <1>1, <1>2, <1>3, <1>4, <1>5, <1>6, <1>7 DEF IInv

LEMMA SendIInv ==
  ASSUME IInv, NEW x \in Txs, NEW ins \in SUBSET Outputs, Send(x, ins)
  PROVE  IInv'
<1>1. /\ x \in FreshTxs
      /\ ins \subseteq unspentOutputs \ lockedOutputs
      /\ SendTransaction(x, ins)
      /\ UNCHANGED <<outputs, unspentOutputs, lastSynced, mutexHolder, ledger,
                     clock, force, timeNow, seenSynced, updated, spentIds,
                     unlockIds, outputIds, observed, result, pc>>
  BY DEF Send, taskVars
<1>2. /\ pc' \in [Tasks -> SyncPcs]
      /\ \A u \in Tasks : pc'[u] \in Pipeline => pc[u] \in Pipeline
      /\ \A u \in Tasks : pc'[u] \in AfterTxSync => pc[u] \in AfterTxSync
  BY <1>1 DEF IInv, TypeOK
<1> QED
  BY <1>1, <1>2, SendTxIInv

LEMMA ConsolidateIInv ==
  ASSUME IInv, NEW t \in Tasks, Consolidate(t)
  PROVE  IInv'
<1> DEFINE free == unspentOutputs \ lockedOutputs
<1>1. /\ pc[t] = "consolidate"
      /\ pc' = [pc EXCEPT ![t] = "commit"]
  BY DEF Consolidate
<1>2. /\ pc' \in [Tasks -> SyncPcs]
      /\ \A u \in Tasks : pc'[u] \in Pipeline => pc[u] \in Pipeline
      /\ \A u \in Tasks : pc'[u] \in AfterTxSync => pc[u] \in AfterTxSync
  BY <1>1 DEF IInv, TypeOK, SyncPcs, Pipeline, AfterTxSync
<1>3. CASE AutoConsolidate /\ Cardinality(free) >= ConsolidationThreshold
             /\ FreshTxs # {}
  <2>1. PICK x \in FreshTxs : SendTransaction(x, free)
    BY <1>3 DEF Consolidate
  <2>2. free \in SUBSET Outputs
    BY DEF IInv, TypeOK
  <2> QED
    BY <1>2, <2>1, <2>2, SendTxIInv DEF Consolidate
<1>4. CASE ~(AutoConsolidate /\ Cardinality(free) >= ConsolidationThreshold
             /\ FreshTxs # {})
  <2>1. UNCHANGED <<lockedOutputs, transactions, pendingTransactions,
                    txInputs, txLedger, force, timeNow, seenSynced, updated,
                    spentIds, unlockIds, outputIds, observed, result, outputs,
                    unspentOutputs, lastSynced, mutexHolder, ledger, clock>>
    BY <1>4 DEF Consolidate
  <2>2. TypeOK'
    BY <1>2, <2>1, Zenon DEF IInv, TypeOK
  <2> QED
    BY <1>2, <2>1, <2>2 DEF IInv, PendingNotFinal, LockedAreUnspent,
       PendingInputsLocked, MutexHeld, ReadsCurrent, InputsDisjoint, InputsOf
<1> QED
  BY <1>3, <1>4

LEMMA CallIInv ==
  ASSUME IInv, NEW t \in Tasks, NEW f \in BOOLEAN, Call(t, f)
  PROVE  IInv'
<1>1. /\ pc[t] = "idle"
      /\ pc' = [pc EXCEPT ![t] = "lock"]
      /\ UNCHANGED <<seenSynced, updated, spentIds, unlockIds, outputIds,
                     observed, result, accountVars, ledgerVars>>
  BY DEF Call
<1>2. TypeOK'
  <2>1. force' \in [Tasks -> BOOLEAN]
    BY Zenon DEF Call, IInv, TypeOK
  <2> QED
    BY <1>1, <2>1 DEF Call, IInv, TypeOK, SyncPcs, accountVars, ledgerVars
<1> QED
  BY <1>1, <1>2 DEF IInv, PendingNotFinal, LockedAreUnspent,
     PendingInputsLocked, MutexHeld, ReadsCurrent, InputsDisjoint, InputsOf,
     Pipeline, AfterTxSync, accountVars, ledgerVars

(* The two reads of the node between sync_transactions and the commit.    *)
LEMMA FetchIInv ==
  ASSUME IInv, NEW t \in Tasks, GetOutputIds(t) \/ GetOutputs(t)
  PROVE  IInv'
<1>1. /\ pc[t] \in {"outputIds", "fetch"}
      /\ pc' = [pc EXCEPT ![t] = IF pc[t] = "outputIds" THEN "fetch"
                                                      ELSE "consolidate"]
      /\ outputIds' \in [Tasks -> SUBSET Outputs]
      /\ observed' \in [Tasks -> [Outputs -> OutputStates]]
      /\ UNCHANGED <<force, timeNow, seenSynced, updated, spentIds, unlockIds,
                     result, accountVars, ledgerVars>>
  <2>1. CASE GetOutputIds(t)
    BY <2>1 DEF GetOutputIds, IInv, TypeOK, OutputStates
  <2>2. CASE GetOutputs(t)
    BY <2>2 DEF GetOutputs, IInv, TypeOK, OutputStates
  <2> QED
    BY <2>1, <2>2
<1>2. TypeOK'
  BY <1>1, Zenon DEF IInv, TypeOK, SyncPcs, accountVars, ledgerVars
<1> QED
  BY <1>1, <1>2 DEF IInv, PendingNotFinal, LockedAreUnspent,
     PendingInputsLocked, MutexHeld, ReadsCurrent, InputsDisjoint, InputsOf,
     Pipeline, AfterTxSync, accountVars, ledgerVars

(* While the mutex is free or held by t, no other task is in the pipeline. *)
LEMMA OnlyHolderInPipeline ==
  ASSUME IInv, NEW t \in Tasks, mutexHolder \in {t, NoTask}
  PROVE  \A u \in Tasks \ {t} : pc[u] \notin Pipeline
BY DEF IInv, MutexHeld

(* A task that returns is done and its locals are reset.                   *)
LEMMA LeaveEffect ==
  ASSUME IInv, NEW t \in Tasks, NEW r \in Results, Leave(t, r)
  PROVE  /\ pc' = [pc EXCEPT ![t] = "done"]
         /\ mutexHolder' = NoTask
         /\ pc' \in [Tasks -> SyncPcs]
         /\ result' \in [Tasks -> Results]
         /\ force' \in [Tasks -> BOOLEAN]
         /\ timeNow' \in [Tasks -> 0 .. MaxTime]
         /\ seenSynced' \in [Tasks -> 0 .. MaxTime]
         /\ updated' \in [Tasks -> [Txs -> TxStates]]
         /\ spentIds' \in [Tasks -> SUBSET Outputs]
         /\ unlockIds' \in [Tasks -> SUBSET Outputs]
         /\ outputIds' \in [Tasks -> SUBSET Outputs]
         /\ observed' \in [Tasks -> [Outputs -> OutputStates]]
<1>1. force' \in [Tasks -> BOOLEAN]
  BY Zenon DEF Leave, DropLocals, IInv, TypeOK
<1> QED
  BY <1>1 DEF Leave, DropLocals, IInv, TypeOK, SyncPcs, TxStates,
     OutputStates

(* After a step in which t returns and no other task moves, no task is in  *)
(* the pipeline.                                                           *)
LEMMA NoneInPipeline ==
  ASSUME IInv, NEW t \in Tasks, mutexHolder \in {t, NoTask},
         pc' = [pc EXCEPT ![t] = "done"]
  PROVE  \A u \in Tasks : pc'[u] \notin Pipeline
BY OnlyHolderInPipeline DEF IInv, TypeOK, Pipeline

LEMMA AcquireLockIInv ==
  ASSUME IInv, NEW t \in Tasks, AcquireLock(t)
  PROVE  IInv'
<1>1. /\ pc[t] = "lock"
      /\ mutexHolder = NoTask
      /\ UNCHANGED <<outputs, unspentOutputs, lockedOutputs, transactions,
                     pendingTransactions, lastSynced, ledgerVars>>
  BY DEF AcquireLock
<1>2. \A u \in Tasks \ {t} : pc[u] \notin Pipeline
  BY <1>1, OnlyHolderInPipeline
<1>3. CASE \E r \in {"panic", "cached"} : Leave(t, r)
  <2>1. PICK r \in {"panic", "cached"} : Leave(t, r)
    BY <1>3
  <2>2. r \in Results
    BY DEF Results
  <2>3. pc' = [pc EXCEPT ![t] = "done"]
    BY <2>1, <2>2, LeaveEffect
  <2>4. \A u \in Tasks : pc'[u] \notin Pipeline
    BY <1>1, <2>3, NoneInPipeline
  <2>5. TypeOK'
    BY <1>1, <2>1, <2>2, LeaveEffect DEF IInv, TypeOK, ledgerVars
  <2> QED
    BY <1>1, <2>4, <2>5 DEF IInv, PendingNotFinal, LockedAreUnspent,
       PendingInputsLocked, MutexHeld, ReadsCurrent, InputsDisjoint,
       Pipeline, AfterTxSync, ledgerVars
<1>4. CASE /\ pc' = [pc EXCEPT ![t] = "txsync"]
           /\ mutexHolder' = t
           /\ seenSynced' = [seenSynced EXCEPT ![t] = lastSynced]
           /\ UNCHANGED <<result, force, timeNow, updated, spentIds,
                          unlockIds, outputIds, observed>>
  <2>1. TypeOK'
    <3>1. force' \in [Tasks -> BOOLEAN]
      BY <1>4, Zenon DEF IInv, TypeOK
    <3> QED
      BY <1>1, <1>4, <3>1 DEF IInv, TypeOK, SyncPcs, ledgerVars
  <2>2. MutexHeld'
    BY <1>2, <1>4 DEF IInv, TypeOK, MutexHeld
  <2>3. ReadsCurrent'
    BY <1>2, <1>4 DEF IInv, TypeOK, ReadsCurrent, Pipeline, AfterTxSync
  <2> QED
    BY <1>1, <2>1, <2>2, <2>3 DEF IInv, PendingNotFinal, LockedAreUnspent,
       PendingInputsLocked, InputsDisjoint, ledgerVars
<1> QED
  BY <1>3, <1>4 DEF AcquireLock

LEMMA SyncTransactionsIInv ==
  ASSUME IInv, NEW t \in Tasks, SyncTransactions(t)
  PROVE  IInv'
<1>1. /\ pc[t] = "txsync"
      /\ pc' = [pc EXCEPT ![t] = "outputIds"]
      /\ UNCHANGED <<force, timeNow, seenSynced, outputIds, observed, result,
                     accountVars, ledgerVars>>
  BY DEF SyncTransactions
<1> DEFINE upd == [x \in Txs |-> IF x \in pendingTransactions THEN txLedger[x]
                                                           ELSE "none"]
<1>2. /\ updated' = [updated EXCEPT ![t] = upd]
      /\ spentIds' = [spentIds EXCEPT ![t] =
           UNION {txInputs[x] : x \in {y \in pendingTransactions :
                                         txLedger[y] = "confirmed"}}]
      /\ unlockIds' = [unlockIds EXCEPT ![t] =
           UNION {txInputs[x] : x \in {y \in pendingTransactions :
                                         txLedger[y] = "conflicting"}}]
  BY DEF SyncTransactions
<1>3. TypeOK'
  <2>1. force' \in [Tasks -> BOOLEAN]
    BY <1>1, Zenon DEF IInv, TypeOK
  <2>2. upd \in [Txs -> TxStates]
    BY DEF IInv, TypeOK, TxStates
  <2> QED
    BY <1>1, <1>2, <2>1, <2>2 DEF IInv, TypeOK, SyncPcs, accountVars,
       ledgerVars
<1>4. \A u \in Tasks \ {t} : pc[u] \notin Pipeline
  BY <1>1 DEF IInv, MutexHeld, Pipeline
<1>5. MutexHeld'
  BY <1>1, <1>4 DEF IInv, TypeOK, MutexHeld, Pipeline, accountVars
<1>6. ReadsCurrent!(t)'
  <2>1. \A x \in Txs : upd[x] # "none" => x \in pendingTransactions
    OBVIOUS
  <2>2. ASSUME NEW st \in {"confirmed", "conflicting"}
        PROVE  {y \in Txs : upd[y] = st}
                 = {y \in pendingTransactions : txLedger[y] = st}
    BY DEF IInv, TypeOK
  <2>3. /\ updated'[t] = upd
        /\ spentIds'[t] =
             UNION {txInputs[x] : x \in {y \in pendingTransactions :
                                           txLedger[y] = "confirmed"}}
        /\ unlockIds'[t] =
             UNION {txInputs[x] : x \in {y \in pendingTransactions :
                                           txLedger[y] = "conflicting"}}
    BY <1>2 DEF IInv, TypeOK
  <2>4. ASSUME NEW st \in {"confirmed", "conflicting"}
        PROVE  InputsOf(updated[t], st)' =
                 UNION {txInputs[x] : x \in {y \in pendingTransactions :
                                               txLedger[y] = st}}
    <3>1. {y \in Txs : updated'[t][y] = st}
            = {y \in pendingTransactions : txLedger[y] = st}
      BY <2>2, <2>3
    <3>2. txInputs' = txInputs
      BY <1>1 DEF ledgerVars
    <3> QED
      BY <3>1, <3>2 DEF InputsOf
  <2> QED
    BY <1>1, <2>1, <2>3, <2>4 DEF accountVars
<1>7. ReadsCurrent'
  BY <1>1, <1>4, <1>6 DEF IInv, TypeOK, ReadsCurrent, Pipeline, AfterTxSync
<1> QED
  BY <1>1, <1>3, <1>5, <1>7 DEF IInv, PendingNotFinal, LockedAreUnspent,
     PendingInputsLocked, InputsDisjoint, accountVars, ledgerVars

LEMMA SyncErrorIInv ==
  ASSUME IInv, NEW t \in Tasks, SyncError(t)
  PROVE  IInv'
<1>1. /\ pc[t] \in Pipeline
      /\ Leave(t, "error")
      /\ UNCHANGED <<outputs, unspentOutputs, lockedOutputs, transactions,
                     pendingTransactions, lastSynced, ledgerVars>>
  BY DEF SyncError, Pipeline
<1>2. mutexHolder = t
  BY <1>1 DEF IInv, MutexHeld
<1>3. "error" \in Results
  BY DEF Results
<1>4. pc' = [pc EXCEPT ![t] = "done"]
  BY <1>1, <1>3, LeaveEffect
<1>5. \A u \in Tasks : pc'[u] \notin Pipeline
  BY <1>2, <1>4, NoneInPipeline
<1>6. TypeOK'
  BY <1>1, <1>3, LeaveEffect DEF IInv, TypeOK, ledgerVars
<1> QED
  BY <1>1, <1>5, <1>6 DEF IInv, PendingNotFinal, LockedAreUnspent,
     PendingInputsLocked, MutexHeld, ReadsCurrent, InputsDisjoint,
     Pipeline, AfterTxSync, ledgerVars

(* The commit.  It unlocks only inputs of transactions that               *)
(* sync_transactions found final; those transactions are still pending     *)
(* (no other commit ran since, MutexHeld) and their inputs are disjoint    *)
(* from those of every other pending transaction, so no transaction that   *)
(* stays pending loses a lock.                                             *)
LEMMA UpdateAccountIInv ==
  ASSUME IInv, NEW t \in Tasks, UpdateAccount(t)
  PROVE  IInv'
<1> DEFINE final == {x \in Txs : updated[t][x] \in {"confirmed", "conflicting"}}
           released == spentIds[t] \cup unlockIds[t]
           seen == {o \in Outputs : observed[t][o] # "none"}
           withObserved == [o \in Outputs |->
                              IF o \in seen THEN observed[t][o] ELSE outputs[o]]
<1>1. /\ pc[t] = "commit"
      /\ outputs' = [o \in Outputs |->
                       IF o \in released /\ withObserved[o] # "none"
                       THEN "spent" ELSE withObserved[o]]
      /\ unspentOutputs' =
           (unspentOutputs \cup {o \in seen : observed[t][o] = "unspent"})
             \ spentIds[t]
      /\ lockedOutputs' = lockedOutputs \ released
      /\ transactions' = [x \in Txs |->
                            IF updated[t][x] # "none" THEN updated[t][x]
                            ELSE transactions[x]]
      /\ pendingTransactions' = pendingTransactions \ final
      /\ lastSynced' \in {clock, lastSynced}
      /\ \E r \in {"synced", "error"} : Leave(t, r)
      /\ UNCHANGED ledgerVars
  BY DEF UpdateAccount, Commit
<1>2. PICK r \in {"synced", "error"} : Leave(t, r)
  BY <1>1
<1>3. r \in Results
  BY DEF Results
<1>4. /\ mutexHolder = t
      /\ \A x \in Txs : updated[t][x] # "none" => x \in pendingTransactions
      /\ spentIds[t] = InputsOf(updated[t], "confirmed")
      /\ unlockIds[t] = InputsOf(updated[t], "conflicting")
  BY <1>1 DEF IInv, MutexHeld, ReadsCurrent, Pipeline, AfterTxSync
<1>5. \A u \in Tasks : pc'[u] \notin Pipeline
  <2>1. pc' = [pc EXCEPT ![t] = "done"]
    BY <1>2, <1>3, LeaveEffect
  <2> QED
    BY <1>4, <2>1, NoneInPipeline
<1>6. TypeOK'
  <2>1. withObserved \in [Outputs -> OutputStates]
    BY DEF IInv, TypeOK
  <2>2. /\ outputs' \in [Outputs -> OutputStates]
        /\ unspentOutputs' \subseteq Outputs
        /\ lockedOutputs' \subseteq Outputs
        /\ transactions' \in [Txs -> TxStates]
        /\ pendingTransactions' \subseteq Txs
        /\ lastSynced' \in 0 .. MaxTime
    BY <1>1, <2>1 DEF IInv, TypeOK, OutputStates
  <2> QED
    BY <1>1, <1>2, <1>3, <2>2, LeaveEffect DEF IInv, TypeOK, ledgerVars
<1>7. PendingNotFinal'
  BY <1>1 DEF IInv, PendingNotFinal, TypeOK, TxStates
<1>8. LockedAreUnspent'
  BY <1>1 DEF IInv, LockedAreUnspent
<1>9. PendingInputsLocked'
  <2> SUFFICES ASSUME NEW x \in pendingTransactions', NEW o \in txInputs'[x]
               PROVE  o \in lockedOutputs'
    BY DEF PendingInputsLocked
  <2>1. x \in pendingTransactions /\ x \notin final /\ txInputs' = txInputs
    BY <1>1 DEF ledgerVars
  <2>2. o \in lockedOutputs
    BY <2>1 DEF IInv, PendingInputsLocked
  <2>3. o \notin released
    <3> SUFFICES ASSUME o \in released PROVE FALSE
      OBVIOUS
    <3>1. PICK y \in Txs : updated[t][y] \in {"confirmed", "conflicting"}
                          /\ o \in txInputs[y]
      BY <1>4 DEF InputsOf
    <3>2. y \in pendingTransactions /\ y # x
      BY <1>4, <2>1, <3>1
    <3> QED
      BY <2>1, <3>1, <3>2 DEF IInv, InputsDisjoint, TypeOK
  <2> QED
    BY <1>1, <2>2, <2>3
<1>10. InputsDisjoint'
  BY <1>1 DEF IInv, InputsDisjoint, ledgerVars
<1> QED
  BY <1>5, <1>6, <1>7, <1>8, <1>9, <1>10 DEF IInv, MutexHeld, ReadsCurrent,
     Pipeline, AfterTxSync

LEMMA NextIInv == IInv /\ [Next]_vars => IInv'
<1> SUFFICES ASSUME IInv, [Next]_vars PROVE IInv'
  OBVIOUS
<1>1. ASSUME NEW t \in Tasks, SyncStep(t) PROVE IInv'
  BY <1>1, CallIInv, AcquireLockIInv, SyncTransactionsIInv, FetchIInv,
     ConsolidateIInv, UpdateAccountIInv, SyncErrorIInv DEF SyncStep
<1>2. ASSUME NEW x \in Txs, NEW ins \in SUBSET Outputs, Send(x, ins)
      PROVE  IInv'
  BY <1>2, SendIInv
<1>3. CASE \/ \E x \in Txs : ConfirmTx(x) \/ ConflictTx(x)
           \/ \E o \in Outputs : ExternalSpend(o)
           \/ Tick
  BY <1>3, LedgerIInv
<1>4. CASE UNCHANGED vars
  <2>1. TypeOK'
    BY <1>4, Zenon DEF IInv, TypeOK, vars, accountVars, taskVars, ledgerVars
  <2> QED
    BY <1>4, <2>1 DEF IInv, PendingNotFinal, LockedAreUnspent,
       PendingInputsLocked, MutexHeld, ReadsCurrent, InputsDisjoint,
       InputsOf, vars, accountVars, taskVars, ledgerVars
<1> QED
  BY <1>1, <1>2, <1>3, <1>4 DEF Next

LEMMA IInvInvariant == Spec => []IInv
BY InitIInv, NextIInv, PTL DEF Spec

-----------------------------------------------------------------------------
(***************************************************************************)
(* What sync_transactions read stays true until the commit.  A step keeps  *)
(* ReadsLedger when no task enters the part after sync_transactions and   *)
(* no task's reads change there (TasksKeepReads), and the ledger does not  *)
(* change a Confirmed or Conflicting transaction (LedgerKeepsFinal).      *)
(* Only sync_transactions itself breaks the first, and there the reads    *)
(* are the ledger's.                                                       *)
(***************************************************************************)
TasksKeepReads ==
  \A t \in Tasks : pc'[t] \in AfterTxSync =>
    pc[t] \in AfterTxSync /\ updated'[t] = updated[t]

LedgerKeepsFinal ==
  \A x \in Txs : txLedger[x] \in {"confirmed", "conflicting"} =>
    txLedger'[x] = txLedger[x]

LEMMA InitReadsLedger == Init => ReadsLedger
BY DEF Init, ReadsLedger, AfterTxSync

LEMMA ReadsLedgerKept ==
  ASSUME ReadsLedger, TasksKeepReads, LedgerKeepsFinal
  PROVE  ReadsLedger'
<1> SUFFICES ASSUME NEW t \in Tasks, pc'[t] \in AfterTxSync,
                    NEW x \in Txs, updated'[t][x] \in {"confirmed", "conflicting"}
             PROVE  txLedger'[x] = updated'[t][x]
  BY DEF ReadsLedger
<1>1. pc[t] \in AfterTxSync /\ updated'[t] = updated[t]
  BY DEF TasksKeepReads
<1>2. txLedger[x] = updated[t][x]
  BY <1>1 DEF ReadsLedger
<1> QED
  BY <1>1, <1>2 DEF LedgerKeepsFinal

(* A step of task u that moves it to q, and changes no other task's reads.*)
LEMMA TaskFrame ==
  ASSUME TypeOK, NEW u \in Tasks, NEW q \in SyncPcs,
         pc' = [pc EXCEPT ![u] = q],
         q \in AfterTxSync => pc[u] \in AfterTxSync /\ updated'[u] = updated[u],
         \A t \in Tasks \ {u} : updated'[t] = updated[t]
  PROVE  TasksKeepReads
BY DEF TasksKeepReads, TypeOK

(* A step that sets the ledger state of a transaction not yet final.     *)
LEMMA LedgerFrame ==
  ASSUME TypeOK, NEW y \in Txs, NEW v, txLedger[y] \in {"none", "pending"},
         txLedger' = [txLedger EXCEPT ![y] = v]
  PROVE  LedgerKeepsFinal
BY DEF LedgerKeepsFinal, TypeOK

(* A task that returns: it is done and only its own reads are reset.      *)
LEMMA LeaveKeepsReads ==
  ASSUME TypeOK, NEW u \in Tasks, NEW r, Leave(u, r)
  PROVE  TasksKeepReads
<1>1. \A t \in Tasks \ {u} : updated'[t] = updated[t]
  BY DEF Leave, DropLocals, TypeOK
<1> QED
  BY <1>1, TaskFrame DEF Leave, SyncPcs, AfterTxSync

(* sync_transactions reads the ledger state of the pending transactions. *)
LEMMA SyncTransactionsReadsLedger ==
  ASSUME IInv, ReadsLedger, NEW u \in Tasks, SyncTransactions(u)
  PROVE  ReadsLedger'
<1> SUFFICES ASSUME NEW t \in Tasks, pc'[t] \in AfterTxSync,
                    NEW x \in Txs, updated'[t][x] \in {"confirmed", "conflicting"}
             PROVE  txLedger'[x] = updated'[t][x]
  BY DEF ReadsLedger
<1>1. /\ pc' = [pc EXCEPT ![u] = "outputIds"]
      /\ updated' = [updated EXCEPT ![u] =
           [y \in Txs |-> IF y \in pendingTransactions THEN txLedger[y]
                          ELSE "none"]]
      /\ txLedger' = txLedger
  BY DEF SyncTransactions, ledgerVars
<1>2. CASE t = u
  BY <1>1, <1>2 DEF IInv, TypeOK
<1>3. CASE t # u
  <2>1. pc[t] \in AfterTxSync /\ updated'[t] = updated[t]
    BY <1>1, <1>3 DEF IInv, TypeOK
  <2> QED
    BY <1>1, <2>1 DEF ReadsLedger
<1> QED
  BY <1>2, <1>3

(* Every step of a sync task other than sync_transactions keeps the reads *)
(* and the ledger's final states.                                          *)
LEMMA SyncStepFrames ==
  ASSUME IInv, ReadsLedger, NEW u \in Tasks, SyncStep(u), ~SyncTransactions(u)
  PROVE  TasksKeepReads /\ LedgerKeepsFinal
<1> USE DEF IInv
<1>1. CASE \E f \in BOOLEAN : Call(u, f)
  <2>1. TasksKeepReads
    BY <1>1, TaskFrame DEF Call, SyncPcs, AfterTxSync
  <2> QED
    BY <1>1, <2>1 DEF Call, ledgerVars, LedgerKeepsFinal
<1>2. CASE AcquireLock(u)
  <2>1. \/ \E r \in Results : Leave(u, r)
        \/ pc' = [pc EXCEPT ![u] = "txsync"] /\ UNCHANGED updated
    BY <1>2 DEF AcquireLock, Results
  <2>2. TasksKeepReads
    BY <2>1, LeaveKeepsReads, TaskFrame DEF SyncPcs, AfterTxSync
  <2> QED
    BY <1>2, <2>2 DEF AcquireLock, ledgerVars, LedgerKeepsFinal
<1>3. CASE GetOutputIds(u) \/ GetOutputs(u)
  <2>1. TasksKeepReads
    <3>1. CASE GetOutputIds(u)
      BY <3>1, TaskFrame DEF GetOutputIds, SyncPcs, AfterTxSync
    <3>2. CASE GetOutputs(u)
      BY <3>2, TaskFrame DEF GetOutputs, SyncPcs, AfterTxSync
    <3> QED
      BY <1>3, <3>1, <3>2
  <2> QED
    BY <1>3, <2>1 DEF GetOutputIds, GetOutputs, ledgerVars, LedgerKeepsFinal
<1>4. CASE Consolidate(u)
  <2>1. TasksKeepReads
    BY <1>4, TaskFrame DEF Consolidate, SyncPcs, AfterTxSync
  <2>2. LedgerKeepsFinal
    <3>1. CASE \E y \in FreshTxs : SendTransaction(y, unspentOutputs \ lockedOutputs)
      BY <3>1, LedgerFrame DEF SendTransaction, FreshTxs
    <3>2. CASE UNCHANGED txLedger
      BY <3>2 DEF LedgerKeepsFinal
    <3> QED
      BY <1>4, <3>1, <3>2 DEF Consolidate
  <2> QED
    BY <2>1, <2>2
<1>5. CASE UpdateAccount(u) \/ SyncError(u)
  <2>1. \E r \in Results : Leave(u, r)
    BY <1>5 DEF UpdateAccount, Commit, SyncError, Results
  <2>2. UNCHANGED txLedger
    BY <1>5 DEF UpdateAccount, Commit, SyncError, ledgerVars
  <2> QED
    BY <2>1, <2>2, LeaveKeepsReads DEF LedgerKeepsFinal
<1> QED
  BY <1>1, <1>2, <1>3, <1>4, <1>5 DEF SyncStep

LEMMA NextReadsLedger == IInv /\ ReadsLedger /\ [Next]_vars => ReadsLedger'
<1> SUFFICES ASSUME IInv, ReadsLedger, [Next]_vars PROVE ReadsLedger'
  OBVIOUS
<1>1. CASE \E u \in Tasks : SyncTransactions(u)
  BY <1>1, SyncTransactionsReadsLedger
<1>2. CASE \E u \in Tasks : SyncStep(u) /\ ~SyncTransactions(u)
  BY <1>2, SyncStepFrames, ReadsLedgerKept
<1>3. CASE \E y \in Txs, ins \in SUBSET Outputs : Send(y, ins)
  <2>1. TasksKeepReads
    BY <1>3 DEF Send, taskVars, TasksKeepReads
  <2>2. LedgerKeepsFinal
    BY <1>3, LedgerFrame DEF Send, SendTransaction, FreshTxs, IInv
  <2> QED
    BY <2>1, <2>2, ReadsLedgerKept
<1>4. CASE \/ \E y \in Txs : ConfirmTx(y) \/ ConflictTx(y)
           \/ \E o \in Outputs : ExternalSpend(o)
           \/ Tick
  <2>1. TasksKeepReads
    BY <1>4 DEF ConfirmTx, ConflictTx, ExternalSpend, Tick, taskVars,
       TasksKeepReads
  <2>2. LedgerKeepsFinal
    BY <1>4, LedgerFrame DEF ConfirmTx, ConflictTx, ExternalSpend, Tick,
       LedgerKeepsFinal, IInv
  <2> QED
    BY <2>1, <2>2, ReadsLedgerKept
<1>5. CASE UNCHANGED vars
  BY <1>5 DEF vars, taskVars, ledgerVars, ReadsLedger
<1> QED
  BY <1>1, <1>2, <1>3, <1>4, <1>5 DEF Next

LEMMA ReadsLedgerInvariant == Spec => [](IInv /\ ReadsLedger)
<1>1. Init => IInv /\ ReadsLedger
  BY InitIInv, InitReadsLedger
<1>2. IInv /\ ReadsLedger /\ [Next]_vars => IInv' /\ ReadsLedger'
  BY NextIInv, NextReadsLedger
<1> QED
  BY <1>1, <1>2, PTL DEF Spec

(* Only the commit of update_account takes a transaction out of          *)
(* pending_transactions; every other step keeps or adds to it.            *)
LEMMA LeavesPendingStep ==
  ASSUME IInv, ReadsLedger, [Next]_vars,
         NEW x \in pendingTransactions \ pendingTransactions'
  PROVE  /\ txLedger[x] \in {"confirmed", "conflicting"}
         /\ transactions'[x] = txLedger[x]
<1>1. CASE \E u \in Tasks : UpdateAccount(u)
  <2>1. PICK u \in Tasks : UpdateAccount(u)
    BY <1>1
  <2>2. /\ pc[u] = "commit"
        /\ pendingTransactions' = pendingTransactions \
             {y \in Txs : updated[u][y] \in {"confirmed", "conflicting"}}
        /\ transactions' = [y \in Txs |-> IF updated[u][y] # "none"
                                          THEN updated[u][y]
                                          ELSE transactions[y]]
    BY <2>1 DEF UpdateAccount, Commit
  <2>3. x \in Txs /\ updated[u][x] \in {"confirmed", "conflicting"}
    BY <2>2 DEF IInv, TypeOK
  <2>4. txLedger[x] = updated[u][x]
    BY <2>2, <2>3 DEF ReadsLedger, AfterTxSync
  <2> QED
    BY <2>2, <2>3, <2>4
<1>2. CASE ~\E u \in Tasks : UpdateAccount(u)
  <2>1. pendingTransactions \subseteq pendingTransactions'
    <3>1. CASE \E u \in Tasks : SyncStep(u)
      <4>1. PICK u \in Tasks : SyncStep(u) /\ ~UpdateAccount(u)
        BY <1>2, <3>1
      <4> QED
        BY <4>1 DEF SyncStep, Call, AcquireLock, SyncTransactions,
           GetOutputIds, GetOutputs, Consolidate, SendTransaction, SyncError,
           accountVars
    <3>2. CASE ~\E u \in Tasks : SyncStep(u)
      BY <3>2 DEF Next, Send, SendTransaction, ConfirmTx, ConflictTx,
         ExternalSpend, Tick, vars, accountVars
    <3> QED
      BY <3>1, <3>2
  <2> QED
    BY <2>1
<1> QED
  BY <1>1, <1>2

\* IInv: the inductive invariant of update_account is kept by every
\* interleaving of sync tasks, sends, consolidation and ledger events, for
\* every number of tasks, outputs and transactions.
THEOREM IInvHolds == Spec => []IInv
BY IInvInvariant

\* A transaction leaves pending_transactions only when update_account
\* stores for it the Confirmed or Conflicting state the ledger gave it,
\* although sync_transactions read that state several awaits earlier.
THEOREM LeavesPendingWhenFinalHolds == Spec => LeavesPendingWhenFinal
<1>1. IInv /\ ReadsLedger /\ [Next]_vars =>
        \A x \in pendingTransactions \ pendingTransactions' :
          /\ txLedger[x] \in {"confirmed", "conflicting"}
          /\ transactions'[x] = txLedger[x]
  BY LeavesPendingStep
<1>2. [](IInv /\ ReadsLedger) /\ [][Next]_vars =>
        [][\A x \in pendingTransactions \ pendingTransactions' :
             /\ txLedger[x] \in {"confirmed", "conflicting"}
             /\ transactions'[x] = txLedger[x]]_vars
  BY <1>1, PTL
<1> QED
  BY <1>2, ReadsLedgerInvariant, PTL DEF Spec, LeavesPendingWhenFinal

\* TypeOK: every variable of sync_account, update_account, the sender and
\* the ledger stays in its type for every number of tasks, outputs and
\* transactions and every clock bound.
THEOREM TypeCorrect == Spec => []TypeOK
BY IInvInvariant, PTL DEF IInv

\* No transaction update_account leaves in pending_transactions is stored
\* as Confirmed or Conflicting, for any number of concurrent syncs.
THEOREM PendingNotFinalHolds == Spec => []PendingNotFinal
BY IInvInvariant, PTL DEF IInv

\* The spent and unlock loops of update_account never leave a locked
\* output outside unspent_outputs.
THEOREM LockedAreUnspentHolds == Spec => []LockedAreUnspent
BY IInvInvariant, PTL DEF IInv

\* The inputs of every pending transaction stay locked whatever the
\* interleaving of sync_account tasks, sends and consolidation: the commit
\* unlocks only the inputs of transactions its own sync_transactions found
\* final.
THEOREM PendingInputsLockedHolds == Spec => []PendingInputsLocked
BY IInvInvariant, PTL DEF IInv

-----------------------------------------------------------------------------
(***************************************************************************)
(* The refinement of AccountSyncSpec under the identity mapping.  Every   *)
(* step maps to a step of the spec or a stutter: a send or a             *)
(* consolidation that sends is Submit, a milestone verdict is Finalise,   *)
(* and the commit of update_account is Record of the transactions its     *)
(* sync_transactions reported final.  That the commit is a Record step    *)
(* rests on IInv and ReadsLedger: the reported transactions are still      *)
(* pending (ReadsCurrent), the ledger still gives them the reported state *)
(* (ReadsLedger), the reported Pending ones are stored as pending already *)
(* (PendingNotFinal), and the outputs it unlocks are exactly their inputs.*)
(***************************************************************************)
LEMMA InitRefines == Init => Sync!Init
BY DEF Init, Sync!Init

LEMMA SendRefines ==
  ASSUME NEW x \in FreshTxs, NEW ins \in SUBSET Outputs,
         ins \subseteq unspentOutputs \ lockedOutputs,
         SendTransaction(x, ins)
  PROVE  Sync!Submit(x, ins)
BY DEF FreshTxs, SendTransaction, Sync!Submit

LEMMA CommitRefines ==
  ASSUME IInv, ReadsLedger, NEW t \in Tasks, UpdateAccount(t)
  PROVE  Sync!Next
<1> DEFINE final == {x \in Txs : updated[t][x] \in {"confirmed", "conflicting"}}
<1>1. /\ pc[t] = "commit"
      /\ lockedOutputs' = lockedOutputs \ (spentIds[t] \cup unlockIds[t])
      /\ transactions' = [x \in Txs |->
                            IF updated[t][x] # "none" THEN updated[t][x]
                            ELSE transactions[x]]
      /\ pendingTransactions' = pendingTransactions \ final
      /\ UNCHANGED <<txLedger, txInputs>>
  BY DEF UpdateAccount, Commit, ledgerVars
<1>2. /\ \A x \in Txs : updated[t][x] # "none" => x \in pendingTransactions
      /\ spentIds[t] = InputsOf(updated[t], "confirmed")
      /\ unlockIds[t] = InputsOf(updated[t], "conflicting")
      /\ \A x \in final : txLedger[x] = updated[t][x]
  BY <1>1 DEF IInv, ReadsCurrent, ReadsLedger, AfterTxSync
<1>3. final \subseteq {x \in pendingTransactions : txLedger[x] \in Sync!FinalStates}
  BY <1>2 DEF Sync!FinalStates
<1>4. transactions' = [x \in Txs |-> IF x \in final THEN txLedger[x]
                                     ELSE transactions[x]]
  <2> SUFFICES ASSUME NEW x \in Txs
               PROVE  transactions'[x] = IF x \in final THEN txLedger[x]
                                         ELSE transactions[x]
    BY <1>1
  <2>1. updated[t][x] \in TxStates
    BY DEF IInv, TypeOK
  <2>2. updated[t][x] = "pending" => transactions[x] = "pending"
    BY <1>2 DEF IInv, PendingNotFinal
  <2> QED
    BY <1>1, <1>2, <2>1, <2>2 DEF TxStates
<1>5. spentIds[t] \cup unlockIds[t] = UNION {txInputs[x] : x \in final}
  BY <1>2 DEF InputsOf
<1>6. Sync!Record(final)
  BY <1>1, <1>3, <1>4, <1>5 DEF Sync!Record
<1> QED
  BY <1>6 DEF Sync!Next

LEMMA NextRefines ==
  IInv /\ ReadsLedger /\ [Next]_vars => [Sync!Next]_Sync!vars
<1> SUFFICES ASSUME IInv, ReadsLedger, [Next]_vars
             PROVE  [Sync!Next]_Sync!vars
  OBVIOUS
<1>1. CASE \E t \in Tasks : UpdateAccount(t)
  BY <1>1, CommitRefines
<1>2. CASE \E t \in Tasks : Consolidate(t)
  <2>1. PICK t \in Tasks : Consolidate(t)
    BY <1>2
  <2>2. CASE \E y \in FreshTxs : SendTransaction(y, unspentOutputs \ lockedOutputs)
    <3>1. PICK y \in FreshTxs : SendTransaction(y, unspentOutputs \ lockedOutputs)
      BY <2>2
    <3>2. unspentOutputs \ lockedOutputs \in SUBSET Outputs
      BY DEF IInv, TypeOK
    <3>3. Sync!Submit(y, unspentOutputs \ lockedOutputs)
      BY <3>1, <3>2, SendRefines
    <3>4. y \in Txs
      BY DEF FreshTxs
    <3> QED
      BY <3>2, <3>3, <3>4 DEF Sync!Next
  <2>3. CASE UNCHANGED <<lockedOutputs, transactions, pendingTransactions,
                         txInputs, txLedger>>
    BY <2>3 DEF Sync!vars
  <2> QED
    BY <2>1, <2>2, <2>3 DEF Consolidate
<1>3. CASE \E x \in Txs, ins \in SUBSET Outputs : Send(x, ins)
  <2>1. PICK x \in Txs, ins \in SUBSET Outputs : Send(x, ins)
    BY <1>3
  <2> QED
    BY <2>1, SendRefines DEF Send, Sync!Next
<1>4. CASE \E x \in Txs : ConfirmTx(x) \/ ConflictTx(x)
  <2>1. PICK x \in Txs : ConfirmTx(x) \/ ConflictTx(x)
    BY <1>4
  <2>2. Sync!Finalise(x)
    BY <2>1 DEF ConfirmTx, ConflictTx, accountVars, Sync!Finalise,
       Sync!FinalStates
  <2> QED
    BY <2>2 DEF Sync!Next
<1>5. CASE \/ \E t \in Tasks : \/ \E f \in BOOLEAN : Call(t, f)
                               \/ AcquireLock(t)
                               \/ SyncTransactions(t)
                               \/ GetOutputIds(t)
                               \/ GetOutputs(t)
                               \/ SyncError(t)
           \/ \E o \in Outputs : ExternalSpend(o)
           \/ Tick
           \/ UNCHANGED vars
  BY <1>5 DEF Call, AcquireLock, SyncTransactions, GetOutputIds, GetOutputs,
     SyncError, ExternalSpend, Tick, accountVars, ledgerVars, vars, Sync!vars
<1> QED
  BY <1>1, <1>2, <1>3, <1>4, <1>5 DEF Next, SyncStep

\* ImplementsSyncSpec without a bound: for every set of tasks, outputs and
\* transactions, the concurrent sync_account tasks, the sender,
\* consolidation and the ledger change transactions, pending_transactions
\* and locked_outputs only by the steps of the atomic lifecycle of
\* AccountSyncSpec.
THEOREM RefinesSyncSpec == Spec => ImplementsSyncSpec
<1>1. [](IInv /\ ReadsLedger) /\ [][Next]_vars => [][Sync!Next]_Sync!vars
  BY NextRefines, PTL
<1> QED
  BY <1>1, InitRefines, ReadsLedgerInvariant, PTL
     DEF Spec, ImplementsSyncSpec, Sync!Spec

=============================================================================
