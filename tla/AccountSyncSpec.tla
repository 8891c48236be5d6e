---------------------------- MODULE AccountSyncSpec ----------------------------
(***************************************************************************)
(* What the account store promises about its transactions, without the    *)
(* tasks, awaits and node queries of sync_account: a transaction enters   *)
(* pending_transactions when the wallet submits it, with its inputs        *)
(* locked; the ledger later makes it Confirmed or Conflicting, never the  *)
(* other way back; and a sync takes some of the finalised transactions    *)
(* out of pending_transactions in one step, storing the ledger's state    *)
(* for them and unlocking their inputs.                                    *)
(***************************************************************************)
CONSTANTS
  Outputs,  \* output ids
  Txs       \* transaction ids

VARIABLES
  lockedOutputs,        \* locked_outputs
  transactions,         \* the stored state of every transaction
  pendingTransactions,  \* pending_transactions
  txLedger,             \* the ledger's state of every transaction
  txInputs              \* the inputs of every transaction

vars == <<lockedOutputs, transactions, pendingTransactions, txLedger, txInputs>>

\* The inclusion states that end a transaction's life.
FinalStates == {"confirmed", "conflicting"}

Init ==
  /\ lockedOutputs = {}
  /\ transactions = [x \in Txs |-> "none"]
  /\ pendingTransactions = {}
  /\ txLedger = [x \in Txs |-> "none"]
  /\ txInputs = [x \in Txs |-> {}]

\* The wallet submits a new transaction x spending outputs nobody locked.
Submit(x, ins) ==
  /\ transactions[x] = "none"
  /\ txLedger[x] = "none"
  /\ ins \cap lockedOutputs = {}
  /\ lockedOutputs' = lockedOutputs \cup ins
  /\ transactions' = [transactions EXCEPT ![x] = "pending"]
  /\ pendingTransactions' = pendingTransactions \cup {x}
  /\ txInputs' = [txInputs EXCEPT ![x] = ins]
  /\ txLedger' = [txLedger EXCEPT ![x] = "pending"]

\* The ledger confirms a pending transaction or finds it conflicting.
Finalise(x) ==
  /\ txLedger[x] = "pending"
  /\ \E s \in FinalStates : txLedger' = [txLedger EXCEPT ![x] = s]
  /\ UNCHANGED <<lockedOutputs, transactions, pendingTransactions, txInputs>>

\* A sync records the ledger's final state of the pending transactions F
\* and unlocks their inputs.
Record(F) ==
  /\ F \subseteq {x \in pendingTransactions : txLedger[x] \in FinalStates}
  /\ pendingTransactions' = pendingTransactions \ F
  /\ transactions' = [x \in Txs |-> IF x \in F THEN txLedger[x]
                                    ELSE transactions[x]]
  /\ lockedOutputs' = lockedOutputs \ UNION {txInputs[x] : x \in F}
  /\ UNCHANGED <<txLedger, txInputs>>

Next ==
  \/ \E x \in Txs, ins \in SUBSET Outputs : Submit(x, ins)
  \/ \E x \in Txs : Finalise(x)
  \/ \E F \in SUBSET Txs : Record(F)

Spec == Init /\ [][Next]_vars

=============================================================================
