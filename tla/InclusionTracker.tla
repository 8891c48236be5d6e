--------------------------- MODULE InclusionTracker ---------------------------
(***************************************************************************)
(* Client::retry_until_included (client/src/client/high_level.rs) driving  *)
(* one block to inclusion, together with the node it talks to.            *)
(*                                                                         *)
(* The tracker is one async task.  Each step of the tracker is one        *)
(* iteration of its loops: the node may change between two steps (a      *)
(* milestone references blocks, someone else attaches or double-spends    *)
(* the transaction), but inside one iteration the code decides on the     *)
(* metadata it read, so the calls of an iteration are one step.           *)
(*                                                                         *)
(* Block contents are abstracted to their ids: get_block(id) is a pure    *)
(* function of id, so a pair (BlockId, Block) is represented by BlockId.  *)
(***************************************************************************)
EXTENDS Naturals, Sequences

CONSTANTS
  Foreign,      \* ids of blocks other clients post with the same payload
  MaxAttempts,  \* the max_attempts argument (default 40)
  NoBlock       \* model value: "no block"

ASSUME MaxAttemptsAssumption == MaxAttempts \in Nat
ASSUME BlockIdAssumption ==
  /\ Foreign \cap Nat = {}
  /\ NoBlock \notin Nat \cup Foreign

\* Block ids are opaque hashes; the blocks this client posts are named by
\* the order in which they are posted.  Original, the block_id argument of
\* retry_until_included, is the first.  A round posts at most one block, so
\* MaxAttempts + 1 ids are enough.
Blocks == 0 .. MaxAttempts
Original == 0
AllBlocks == Blocks \cup Foreign

\* LedgerInclusionStateDto, with "pending" for metadata without the field.
InclusionStates == {"pending", "included", "noTransaction", "conflicting"}
\* Payload kinds: a transaction, tagged data, or none (a promote block).
PayloadKinds == {"transaction", "taggedData", "none"}
\* What the node knows of the transaction carried by Original.
TxStates == {"pending", "included", "doubleSpent"}
\* Outcome of retry_until_included: running, Ok(..), or one of its errors.
\* "transportError" is any failed node call, "notFoundError" the error of
\* get_included_block for a transaction the ledger has not included.
Statuses == {"running", "ok", "tangleInclusionError", "transportError",
             "notFoundError"}

VARIABLES
  \* tracker task
  pc,            \* "sleep" (top of a round), "scan" (for loop), "conflict"
                 \* (the check after the loop), "done"
  attempt,       \* rounds started by the outer for loop
  blockIds,      \* block_ids: the attachments, Original first
  blocksWithId,  \* blocks_with_id: the reattached blocks to return
  snapshot,      \* block_ids.clone() iterated by the inner loop
  index,         \* 1 + the enumerate() index of the inner loop
  conflicting,   \* the conflicting flag of the current round
  status,        \* outcome
  ret,           \* the returned Vec<(BlockId, Block)> when status = "ok"
  \* node
  nextId,        \* number of blocks this client has posted
  foreignPosted, \* blocks other clients have posted
  payload,       \* payload kind of every posted block
  parent,        \* the block a promote block was built to reference
  inclusion,     \* ledger inclusion state of every block
  txState,       \* state of the transaction in the ledger
  includedIn     \* the block whose reference included the transaction

trackerVars == <<pc, attempt, blockIds, blocksWithId, snapshot, index,
                 conflicting, status, ret>>
nodeVars == <<nextId, foreignPosted, payload, parent, inclusion, txState, includedIn>>
vars == <<trackerVars, nodeVars>>

-----------------------------------------------------------------------------
(* Helpers                                                                 *)

\* Vec::rotate_left(mid): the elements from mid on, then the first mid.
RotateLeft(s, mid) == SubSeq(s, mid + 1, Len(s)) \o SubSeq(s, 1, mid)

LastOf(s) == s[Len(s)]

posted == (0 .. nextId - 1) \cup foreignPosted

\* Variant for the mutation runs: Conflicting taken for a final state.
FinishedWithConflict(x) == x \in {"included", "noTransaction", "conflicting"}

\* The states of the `Included | NoTransaction` match arm.
Finished(x) == x \in {"included", "noTransaction"}

-----------------------------------------------------------------------------
(* The node                                                                *)

\* The state a milestone gives to block b when it references it.  A
\* transaction is included by the first referenced attachment; later ones
\* conflict.  A still pending transaction may also conflict for a reason
\* that goes away later (its inputs are not booked yet): then txState stays
\* "pending" and another attachment can still be included.
Outcomes(b) ==
  IF payload[b] # "transaction" THEN {"noTransaction"}
  ELSE IF txState = "pending" THEN {"included", "conflicting"}
  ELSE {"conflicting"}

ApplyOutcome(b, o) ==
  /\ inclusion' = [inclusion EXCEPT ![b] = o]
  /\ txState' = IF o = "included" THEN "included" ELSE txState
  /\ includedIn' = IF o = "included" THEN b ELSE includedIn

\* A milestone references the pending block b.  A promote block is only
\* referenced together with its parent (referenced first), which is how a
\* promotion helps its target; the parent is then handled by ReferenceBlock
\* of the parent itself, so b waits for it.
ReferenceBlock(b) ==
  /\ b \in posted
  /\ inclusion[b] = "pending"
  /\ parent[b] # NoBlock => inclusion[parent[b]] # "pending"
  /\ \E o \in Outcomes(b) : ApplyOutcome(b, o)
  /\ UNCHANGED <<nextId, foreignPosted, payload, parent, trackerVars>>

\* Another client attaches the same transaction in a block of its own.
ForeignAttach(f) ==
  /\ payload[Original] = "transaction"
  /\ f \notin foreignPosted
  /\ foreignPosted' = foreignPosted \cup {f}
  /\ payload' = [payload EXCEPT ![f] = "transaction"]
  /\ UNCHANGED <<nextId, parent, inclusion, txState, includedIn, trackerVars>>

\* Another transaction spends the same inputs first.
DoubleSpend ==
  /\ payload[Original] = "transaction"
  /\ txState = "pending"
  /\ txState' = "doubleSpent"
  /\ UNCHANGED <<nextId, foreignPosted, payload, parent, inclusion,
                 includedIn, trackerVars>>

NodeNext ==
  \/ \E b \in AllBlocks : ReferenceBlock(b)
  \/ \E f \in Foreign : ForeignAttach(f)
  \/ DoubleSpend

-----------------------------------------------------------------------------
(* The tracker                                                             *)

Init ==
  /\ pc = "sleep"
  /\ attempt = 0
  /\ blockIds = <<Original>>
  /\ blocksWithId = <<>>
  /\ snapshot = <<>>
  /\ index = 0
  /\ conflicting = FALSE
  /\ status = "running"
  /\ ret = <<>>
  /\ nextId = 1
  /\ foreignPosted = {}
  /\ \E k \in {"transaction", "taggedData"} :
       payload = [b \in AllBlocks |-> IF b = Original THEN k ELSE "none"]
  /\ parent = [b \in AllBlocks |-> NoBlock]
  /\ inclusion = [b \in AllBlocks |-> "pending"]
  /\ txState = "pending"
  /\ includedIn = NoBlock

\* Variant for the mutation runs: the loop bound is not checked.
StartRoundUnbounded ==
  /\ pc = "sleep"
  /\ attempt' = attempt + 1
  /\ snapshot' = blockIds
  /\ index' = 1
  /\ conflicting' = FALSE
  /\ pc' = "scan"
  /\ UNCHANGED <<blockIds, blocksWithId, status, ret, nodeVars>>

\* Top of the outer loop: sleep, then start scanning a copy of block_ids.
StartRound ==
  /\ pc = "sleep"
  /\ attempt < MaxAttempts
  /\ attempt' = attempt + 1
  /\ snapshot' = blockIds
  /\ index' = 1
  /\ conflicting' = FALSE
  /\ pc' = "scan"
  /\ UNCHANGED <<blockIds, blocksWithId, status, ret, nodeVars>>

\* The outer loop is exhausted: Err(TangleInclusionError).
GiveUp ==
  /\ pc = "sleep"
  /\ attempt = MaxAttempts
  /\ pc' = "done"
  /\ status' = "tangleInclusionError"
  /\ UNCHANGED <<attempt, blockIds, blocksWithId, snapshot, index,
                 conflicting, ret, nodeVars>>

\* promote_unchecked(target): post a payload-less block whose tips include
\* target.  The result is not kept by retry_until_included.
Promote(target) ==
  LET p == nextId IN
  /\ nextId' = nextId + 1
  /\ payload' = [payload EXCEPT ![p] = "none"]
  /\ parent' = [parent EXCEPT ![p] = target]

\* reattach_unchecked(target): post a new block with target's payload.
Reattach(target) ==
  LET r == nextId IN
  /\ nextId' = nextId + 1
  /\ payload' = [payload EXCEPT ![r] = payload[target]]
  /\ UNCHANGED parent
  /\ blockIds' = Append(blockIds, r)
  /\ blocksWithId' = Append(blocksWithId, r)

\* Where the inner loop goes after the current attachment.
NextIndex ==
  IF index < Len(snapshot)
  THEN index' = index + 1 /\ UNCHANGED pc
  ELSE pc' = "conflict" /\ UNCHANGED index

\* One iteration of the inner loop: get_block_metadata of the attachment,
\* and what the code does with it.  shouldPromote and shouldReattach are
\* advice of the node, any combination of which may come back.
ScanIncluded ==
  LET b == snapshot[index] IN
  /\ pc = "scan"
  /\ Finished(inclusion[b])
  /\ pc' = "done"
  /\ status' = "ok"
  /\ ret' = IF b = Original THEN <<Original>> \o blocksWithId
            ELSE RotateLeft(blocksWithId, index - 1)
  /\ UNCHANGED <<attempt, blockIds, blocksWithId, snapshot, index,
                 conflicting, nodeVars>>

\* Variant for the mutation runs: every attachment, not only the latest,
\* is promoted or reattached.
ScanNotIncludedEveryIndex(shouldPromote, shouldReattach) ==
  LET b == snapshot[index] IN
  /\ pc = "scan"
  /\ ~Finished(inclusion[b])
  /\ conflicting' = (conflicting \/ inclusion[b] = "conflicting")
  /\ NextIndex
  /\ IF shouldPromote
     THEN Promote(LastOf(blockIds)) /\ UNCHANGED <<blockIds, blocksWithId>>
     ELSE IF shouldReattach
     THEN Reattach(LastOf(blockIds))
     ELSE UNCHANGED <<nextId, payload, parent, blockIds, blocksWithId>>
  /\ UNCHANGED <<attempt, snapshot, status, ret, foreignPosted, inclusion,
                 txState, includedIn>>

ScanNotIncluded(shouldPromote, shouldReattach) ==
  LET b == snapshot[index] IN
  /\ pc = "scan"
  /\ ~Finished(inclusion[b])
  /\ conflicting' = (conflicting \/ inclusion[b] = "conflicting")
  /\ NextIndex
  /\ IF index = Len(snapshot) /\ shouldPromote
     THEN Promote(LastOf(blockIds)) /\ UNCHANGED <<blockIds, blocksWithId>>
     ELSE IF index = Len(snapshot) /\ shouldReattach
     THEN Reattach(LastOf(blockIds))
     ELSE UNCHANGED <<nextId, payload, parent, blockIds, blocksWithId>>
  /\ UNCHANGED <<attempt, snapshot, status, ret, foreignPosted, inclusion,
                 txState, includedIn>>

\* After the inner loop: if an attachment conflicted and Original carries a
\* transaction, ask the node for the block that included the transaction.
AfterScan ==
  /\ pc = "conflict"
  /\ IF conflicting /\ payload[Original] = "transaction"
     THEN IF txState = "included"
          THEN /\ status' = "ok"
               /\ ret' = <<includedIn>> \o blocksWithId
               /\ pc' = "done"
          ELSE /\ status' = "notFoundError"
               /\ pc' = "done"
               /\ UNCHANGED ret
     ELSE /\ pc' = "sleep"
          /\ UNCHANGED <<status, ret>>
  /\ UNCHANGED <<attempt, blockIds, blocksWithId, snapshot, index,
                 conflicting, nodeVars>>

\* A node call of the current iteration fails; `?` returns the error.  After
\* the scan the calls (get_block, get_included_block) are made only when an
\* attachment was Conflicting.
TransportError ==
  /\ \/ pc = "scan"
     \/ pc = "conflict" /\ conflicting
  /\ pc' = "done"
  /\ status' = "transportError"
  /\ UNCHANGED <<attempt, blockIds, blocksWithId, snapshot, index,
                 conflicting, ret, nodeVars>>

TrackerNext ==
  \/ StartRound
  \/ GiveUp
  \/ ScanIncluded
  \/ \E sp, sr \in BOOLEAN : ScanNotIncluded(sp, sr)
  \/ AfterScan
  \/ TransportError

Next == TrackerNext \/ NodeNext

Spec == Init /\ [][Next]_vars

-----------------------------------------------------------------------------
(* Properties                                                              *)

TypeOK ==
  /\ pc \in {"sleep", "scan", "conflict", "done"}
  /\ attempt \in 0 .. MaxAttempts
  /\ blockIds \in Seq(Blocks)
  /\ blocksWithId \in Seq(Blocks)
  /\ snapshot \in Seq(Blocks)
  /\ index \in Nat
  /\ conflicting \in BOOLEAN
  /\ status \in Statuses
  /\ ret \in Seq(AllBlocks)
  /\ nextId \in 1 .. MaxAttempts + 1
  /\ foreignPosted \subseteq Foreign
  /\ payload \in [AllBlocks -> PayloadKinds]
  /\ parent \in [AllBlocks -> Blocks \cup {NoBlock}]
  /\ inclusion \in [AllBlocks -> InclusionStates]
  /\ txState \in TxStates
  /\ includedIn \in AllBlocks \cup {NoBlock}

\* When retry_until_included returns Ok, the blocks it returns contain one
\* that a milestone has referenced as Included or NoTransaction: the caller
\* is handed the attachment that made it, whichever of the three return
\* paths (original included, reattachment included, included elsewhere)
\* was taken.
ReturnsIncludedAttachment ==
  status = "ok" =>
    \E i \in 1 .. Len(ret) : inclusion[ret[i]] \in {"included", "noTransaction"}

\* retry_until_included promotes or reattaches only the latest attachment,
\* so each round adds at most one attachment to block_ids.
OneReattachPerRound == Len(blockIds) <= attempt + 1

\* The doc comment of retry_until_included (and the spec) promise the
\* included block at the first position of the returned Vec.
FirstReturnedIncluded ==
  status = "ok" =>
    Len(ret) > 0 /\ inclusion[ret[1]] \in {"included", "noTransaction"}

\* The spec has the tracker absorb Conflicting states as a signal to go on
\* ("if found, return"): the only error it ends with besides transport
\* errors is TangleInclusionError after all max_attempts rounds.
ConflictAbsorbed ==
  status \notin {"running", "ok", "transportError"} =>
    status = "tangleInclusionError"

-----------------------------------------------------------------------------
(* Refinement of TrackerSpec                                               *)

\* The blocks a milestone has referenced as Included or NoTransaction.
IncludedBlocks == {b \in AllBlocks : inclusion[b] \in {"included", "noTransaction"}}

AbsOutcome ==
  CASE status = "running" -> "running"
    [] status = "ok"      -> "ok"
    [] OTHER              -> "error"

Tracker == INSTANCE TrackerSpec WITH
  Blocks <- AllBlocks, outcome <- AbsOutcome,
  returned <- {ret[i] : i \in DOMAIN ret}, included <- IncludedBlocks

=============================================================================
