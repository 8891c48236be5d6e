# Formal models of the iota-sdk inclusion tracker, account sync, input selection and burns

This directory holds TLA+ models of the parts of the client library that
drive a block to inclusion and keep a wallet account in step with the
ledger, the TLC configurations that check them on small instances, and
TLAPS proofs of some of their properties for every value of the
constants. `PROJECT.json` lists the components, runs, mutants, the map
from every definition to the source lines it models, the findings and
the hazards.

## 1. Inventory

### Components and their state

| Component | Source | State it keeps | Operations |
|---|---|---|---|
| InclusionTracker | `client/src/client/high_level.rs` 89-183, 273-330 | per call of `retry_until_included`: `block_ids` (attachments, original first), `blocks_with_id` (reattached blocks to return), the per-round `conflicting` flag, the attempt counter | `retry`, `retry_until_included`, `promote`, `promote_unchecked`, `reattach`, `reattach_unchecked` |
| ClockCheck | `high_level.rs` 332-359 | none (reads the system clock and the node's latest milestone timestamp) | `get_time_checked` |
| InputSelector | `high_level.rs` 185-247 | none across calls; within a call the queried outputs, the sorted candidates, the running total | `find_inputs` |
| BlockQueries | `high_level.rs` 33-87, 249-271 | none | `inputs_from_transaction_id`, `find_blocks`, `find_outputs`, `block`, `get_addresses` |
| AccountSyncEngine | `src/account/operations/syncing/mod.rs` | the account's `last_synced` mutex; through the AccountStore: addresses, `addresses_with_balance`, `outputs`, `unspent_outputs`, `locked_outputs`, `transactions`, `pending_transactions` | `sync_account`, `update_account` |
| Burn | `sdk/src/client/api/block_builder/input_selection/burn.rs` | sets of account, NFT and foundry ids, a map token id -> amount | `new`, `add_*`, `set_*`, `From<X> for Burn`, `Burn <-> BurnDto` |
| IssuerFeature | `sdk/src/types/block/output/feature/issuer.rs` | an immutable address | constructor and getter |
| NodeAPI, PowEngine, SecretManager, AccountStore | external | the tangle and ledger; persisted accounts | request/response calls |

### How they interact

* The tracker is one async task that talks to the node only: every
  `get_block_metadata`, `get_block`, `get_tips`, `post_block_raw` and
  `get_included_block` is an await at which other clients and milestones
  change the tangle. It promotes (posts an empty block whose tips include
  the latest attachment) or reattaches (posts a new block with the same
  payload, appended to both `block_ids` and `blocks_with_id`).
* `find_inputs` queries the indexer per address, calls
  `get_time_checked` (the clock check), computes amounts, sorts and
  selects.
* `sync_account` serialises concurrent syncs of one account with the
  `last_synced` mutex, but other tasks of the wallet (sending a
  transaction, which locks outputs and adds a pending transaction) share
  the account state without that mutex. Its pipeline reads the node
  (transactions, addresses, outputs), runs output consolidation (which
  itself sends transactions), and then commits everything under the
  account write lock and saves the account to storage.

### What is hard

* Interleavings: the node changes between the tracker's metadata reads;
  sends and consolidation interleave with a sync between its reads and its
  commit; two syncs race for the mutex after having read the clock.
* Ordering: the tracker's reattachments and the rotation of the result;
  the order of the commit's loops (spent outputs after observed outputs).
* Failures: every node call can fail and aborts the operation with `?`; a
  failing `save_account` leaves the in-memory account mutated; a
  Conflicting state is meant to be a continue signal.
* Numeric edges: `u32` arithmetic on milestone timestamps, the half-open
  clock window, the `u128` subtraction of `last_synced`, `INPUT_COUNT_MAX`.

### Properties that make each component correct

* InclusionTracker: an Ok result contains the attachment that was
  included, first; only the latest attachment is promoted or reattached
  (at most one new attachment per round); `blocks_with_id` mirrors
  `block_ids[1..]`; Conflicting is absorbed; the call always returns.
* ClockCheck: succeeds exactly when the clock is within five minutes of
  the latest milestone; never wraps or panics.
* InputSelector: a success covers the amount, has at most
  `INPUT_COUNT_MAX` distinct inputs, is a prefix of the descending order
  and never takes an input after the amount was reached; a failure means
  no `INPUT_COUNT_MAX` of the eligible outputs cover the amount.
* AccountSyncEngine: after every commit `unspent_outputs` is exactly the
  unspent part of `outputs`; no confirmed or conflicting transaction stays
  pending; locked outputs are unspent; an output once spent stays spent; a
  non-forced sync within `MIN_SYNC_INTERVAL` of the last one returns the
  cached balance; a failed sync leaves the account unchanged.
* Burn: converting to the DTO and back gives the same Burn.

## 2. Plan

Modules, in the order they are written (the most important behaviour
first):

1. `InclusionTracker` (done): `retry_until_included` with
   `promote_unchecked` and `reattach_unchecked`, and the node as its
   environment. `MC_InclusionTracker` instantiates it. Proofs in
   `InclusionTrackerProofs`.
2. `AccountSync` (done): sync tasks (mutex, clock read before the lock, the
   pipeline's reads, consolidation, the commit, storage), a sender task
   and the ledger. Runs: the safety of the commit, the interval check
   under concurrent syncs, the unlock path. Proofs in
   `AccountSyncProofs`, including the refinement of `AccountSyncSpec`, the
   atomic transaction lifecycle.
3. `ClockCheck` (done): `get_time_checked` with `u32` wrap-around, checked
   against the spec's `|now - milestone| < 300`.
4. `InputSelection` (done): `find_inputs` as operators (stable
   descending sort, `take(INPUT_COUNT_MAX)`, greedy accumulation) inside a
   small state machine of the per-address queries, the clock check (one
   step that succeeds or fails; `ClockCheck` models its arithmetic) and
   the conversion errors, checked against a reference definition of an
   optimal selection. Proofs of the sort and bound in
   `InputSelectionProofs`.
5. `Burn` (done): the builder operations and the DTO conversions. Proofs
   in `BurnProofs`.
6. `TrackerSpec` (done): the abstract specification of
   `retry_until_included` (a call ends once, with an included block or an
   error), implemented by `InclusionTracker` through a refinement mapping.
   Not done: the standalone `retry`, `promote` and `reattach` calls of a
   second task; to the tracker they are the node-side effect that
   `ForeignAttach` already models.
7. `Wallet`: composes `AccountSync` with `InclusionTracker` (a sent
   transaction tracked to inclusion, and then confirmed by a sync).

Theorems worth proving: type correctness of every module; for the tracker
`OneReattachPerRound` and `ReturnsIncludedAttachment` (done); for the sync
the invariants of the commit that hold (done: pending transactions are
not final, locked outputs are unspent, pending inputs stay locked, and a
transaction leaves pending only with its ledger state); the refinement of
`TrackerSpec` and of `AccountSyncSpec` (done); the ClockCheck window
equals its reference for every width (done); the InputSelection
selection is bounded and in descending order (done). Not provable here:
the InputSelection totals (induction over a fold) and every liveness
property.

## 3. InclusionTracker

**Module** `InclusionTracker.tla`, models `Client::retry_until_included`
(`high_level.rs` 106-183) with `promote_unchecked` (312-330) and
`reattach_unchecked` (284-299).

*State.* `blockIds` and `blocksWithId` are `block_ids` and
`blocks_with_id`; `snapshot` and `index` are the clone of `block_ids`
that the inner `for` iterates and its position; `conflicting`, `attempt`;
`status`/`ret` the result. A pair `(BlockId, Block)` is represented by
its id, since `get_block` is a function of the id. The node is
`nextId`/`foreignPosted` (posted blocks), `payload` (transaction, tagged
data or none for a promote block), `parent` (the target of a promote
block), `inclusion` (the ledger inclusion state, `pending` when the
metadata has none), `txState` and `includedIn`.

*Actions.* `StartRound` is the sleep and the start of the inner loop,
`GiveUp` the `TangleInclusionError` after `max_attempts` rounds.
`ScanIncluded` and `ScanNotIncluded(shouldPromote, shouldReattach)` are
one iteration of the inner loop: the metadata read and what the code does
with it, including the promote or reattach of the latest attachment
(`Promote`, `Reattach`). The node's advice can be any combination of
`shouldPromote` and `shouldReattach`. `AfterScan` is the check after the
loop (`get_included_block` when an attachment conflicted).
`TransportError` is any of the `?` on a failing node call: in the scan,
or after it when an attachment was Conflicting (only then does the code
call `get_block` and `get_included_block`). The node's own
steps: `ReferenceBlock` (a milestone references a pending block; a
transaction is included by the first referenced attachment, later ones
conflict; a still pending transaction may conflict transiently, e.g.
inputs not yet booked; a promote block is referenced only after its
target, which is how promotion helps), `ForeignAttach` (another client
posts the same transaction), `DoubleSpend`.

The calls inside one loop iteration are one step: the code decides on the
metadata it read, so a node step between those calls commutes with them.

*Block ids.* Ids are opaque hashes; the model names this client's blocks
`0, 1, ...` in posting order (`Original = 0`). A round posts at most one
block, so `0..MaxAttempts` suffice; other clients' blocks are the model
values of `Foreign`.

*Fairness.* None. Both loops of `retry_until_included` are bounded
`for` loops, so the call returns once the executor polls it and the
node answers. That depends on the executor and the node, not on this
code, so no liveness property is checked.

### Runs

| Run | Config | Result | What it shows |
|---|---|---|---|
| tracker_safety | `InclusionTracker.cfg` (module `MC_InclusionTrackerProofs`) | pass | `TypeOK`; `ReturnsIncludedAttachment` (an Ok result contains a block referenced as Included/NoTransaction); `OneReattachPerRound`; `RInv`, the inductive invariant of the proofs |
| tracker_first_is_included | `IT_FirstReturnedIncluded.cfg` | violation | the included block is not first after two reattachments |
| tracker_conflict_absorbed | `IT_ConflictAbsorbed.cfg` | violation | a transient Conflicting ends the call with an error in round 1 |

Bounds: `MaxAttempts = 3` and one foreign block. Three rounds are the
fewest in which two reattachments exist and a third round can find the
first of them included, which is what the rotation bug needs; the foreign
block lets a transaction be included outside the tracker's attachments
(the `get_included_block` path). The run has about 15 000 states.

### Findings

1. **Rotation off by one** (`high_level.rs:148`). `blocks_with_id` holds
   `block_ids[1..]`, so attachment `index` is `blocks_with_id[index-1]`,
   but the code calls `rotate_left(index)`. Trace: round 1 reattaches 0
   as 1, round 2 reattaches 1 as 2, block 1 is included, round 3 finds it
   at index 1 and returns `[2, 1]`: block 2 is first and is not included.
   `ReturnsIncludedAttachment` still holds: the included block is in the
   result, only not first.
2. **Conflicting is not absorbed** (`high_level.rs:175`). When an
   attachment is Conflicting, the code asks for the block that included
   the transaction with `?`. If the conflict is transient (or the
   transaction was double-spent) the node has no such block and the call
   fails in that round, where the spec continues with the next round.

### Refinement

`TrackerSpec.tla` says what `retry_until_included` promises without how:
its state is the call's `outcome` (running, ok, error), the set of
`returned` blocks and the set of `included` blocks. `Include` adds a
block to `included` (inclusion is final), `ReturnOk` returns any set of
blocks that meets `included`, `ReturnError` fails; weak fairness on the
two returns says the call returns. `InclusionTracker` instantiates it as
`Tracker` with `outcome <- AbsOutcome` (every error status is "error"),
`returned <-` the elements of `ret`, and `included <- IncludedBlocks`
(blocks whose ledger inclusion state is Included or NoTransaction).
Under this mapping a milestone step is `Include` or a stutter, the three
return paths are `ReturnOk`, the four error paths `ReturnError`, and the
loop's scanning, promotion and reattachment, foreign attachments and
double spends are stutters. The refinement is proved for its safety
part (below) and is no run property: on a small instance it would only
repeat `ReturnsIncludedAttachment` and the call returning once.

### Proofs

`InclusionTrackerProofs.tla` proves, for every `MaxAttempts \in Nat` and
every set `Foreign` of foreign ids:

* `TypeCorrect`: `Spec => []TypeOK`;
* `OneReattachPerRoundHolds`: `Spec => []OneReattachPerRound`;
* `ReturnsIncludedAttachmentHolds`: `Spec => []ReturnsIncludedAttachment`;
* `RInvHolds`: `Spec => []RInv`, the strengthened invariant that run
  `tracker_safety` checks;
* `RefinesTrackerSpec`: `Spec => Tracker!Safety`, the refinement without
  its fairness.

The first two follow from the inductive invariant `IInv`: `TypeOK` is not inductive
by itself because posting needs a fresh id (`nextId <= MaxAttempts`), a
promotion needs a latest attachment, the rotation needs
`index - 1 <= Len(blocks_with_id)` and the conflict path needs a block to
return. `IInv` adds: `block_ids` is non-empty and one longer than
`blocks_with_id`; `Len(block_ids) <= nextId <= attempt + 1`, and
`nextId <= attempt` while the inner loop runs (a round posts at most once,
at its last element); the inner loop scans the current `block_ids` within
bounds; an included transaction has its block. One lemma per action
proves `IInv` is preserved; the theorems close with PTL.

The last two rest on `RInv`, `IInv` strengthened by:
`block_ids = <<Original>> \o blocks_with_id` with no later attachment
equal to the original (so an attachment found at index `i > 1` is
`blocks_with_id[i-1]`, and lemma `RotateLast` shows `rotate_left(i-1)`
puts it last, which is why it is returned but not first); the block
recorded as including the transaction is Included; the tracker is done
exactly when it has returned; and `ReturnsIncludedAttachment` itself.
Lemma `InclusionFinal` says an Included or NoTransaction block never
changes state, which keeps a returned block included while the node moves on.
The refinement step lemma `NextRefines` takes `RInv` in both states and
shows each action maps to a `TrackerSpec` step or a stutter: a return
starts from `outcome = "running"` because the tracker is not done, and
an Ok return meets `included` because of `RInv'`.

The fairness of `TrackerSpec` (the call returns) is not claimed: it
depends on the executor and the node. The properties of the violation
runs are only model-checked.

## 4. AccountSync

**Module** `AccountSync.tla` models `sync_account` and `update_account`
(`src/account/operations/syncing/mod.rs` 22-182) for one account, with
the tasks that share the account: concurrent callers of `sync_account`,
the wallet's send operation, and the ledger and the clock as environment.
`MC_AccountSync` instantiates it.

*State.* The account fields sync writes (`outputs` as the `is_spent` of
each stored output, `unspent_outputs`, `locked_outputs`, `transactions`
as inclusion states, `pending_transactions`), `last_synced` and the task
holding its mutex. Per sync task: where it is (`pc`), `force_syncing`,
the `time_now` it read, the `last_synced` its check saw, and what the
pipeline read (`updated_transactions`, `spent_output_ids`,
`output_ids_to_unlock`, the queried ids and the fetched outputs). These
locals are reset when the call returns (`DropLocals`), as they go out of
scope. The ledger: each output's state, each transaction's state and
inputs, and the clock.

*Actions.* One per stretch of code between two awaits: `Call` (reads the
clock), `AcquireLock` (the mutex and the interval check: a panic on
underflow, the cached balance, or on into the pipeline; in the underflow
case both the panic and the wrapped subtraction are possible, as the
build decides), `SyncTransactions`, `GetOutputIds`, `GetOutputs`,
`Consolidate` (sends one transaction with all free outputs when there are
`ConsolidationThreshold` of them), `UpdateAccount` (the whole commit,
observed outputs, then transactions, then the spent loop, then the unlock
loop, then `save_account`, which may fail after the account was changed,
then `last_synced`), and `SyncError` (any `?` on a node call). The
environment: `Send` (locks free unspent outputs and adds a pending
transaction, without the mutex), `ConfirmTx`, `ConflictTx`,
`ExternalSpend` (another wallet with the same seed), `Tick`.

`sync_transactions`, `get_address_output_ids`, `get_outputs`,
`consolidate_outputs` and the send operation live outside the sources;
their results are taken from the spec (section 4.5) and the model maps
them to their call sites. Addresses are left out: every output belongs to
the account.

*Fairness.* None, and no liveness property. Whether a sync returns
depends on the node: a node call that never returns keeps the
`last_synced` guard, and every later sync waits behind it, since nothing
in `sync_account` bounds the wait.

*Bounds.* Two sync tasks, four outputs (two at the start, one produced by
each of two transactions), the clock up to 1 with `MIN_SYNC_INTERVAL = 1`,
`TimeModulus = 16` for the u128 arithmetic (only the order of the wrapped
result against `MIN_SYNC_INTERVAL` matters, and any modulus above
`MaxTime + MinSyncInterval` gives the same comparisons). Two tasks are
what the mutex race needs; two start outputs are what consolidation needs
(threshold 2), and two transactions let a send or a consolidation happen
while an earlier transaction is still pending. The safety run uses
symmetry over the tasks and over the two start outputs (about 290 000
states).

### Runs

| Run | Config | Result | What it shows |
|---|---|---|---|
| sync_safety | `AccountSync.cfg` (module `MC_AccountSyncProofs`) | pass | `PendingNotFinal` (no pending transaction is stored as final); `LockedAreUnspent`; `PendingInputsLocked` (a pending transaction's inputs stay locked while other syncs, sends and consolidation interleave); `IInv`, the inductive invariant of the proofs; `LeavesPendingWhenFinal`, an action property: a transaction leaves `pending_transactions` only stored with the Confirmed or Conflicting state the ledger has for it; `ImplementsSyncSpec` (the tasks implement the atomic lifecycle of `AccountSyncSpec`) |
| sync_unspent_matches | `AS_UnspentMatchesOutputs.cfg` | violation | `unspent_outputs` holds outputs marked spent after a commit |
| sync_interval | `AS_SyncRespectsInterval.cfg` | violation | a non-forced sync goes to the network within `MIN_SYNC_INTERVAL` |

### Findings

3. **Clock read before the mutex** (`mod.rs:27`). Task 1 reads
   `time_now = 0` and waits; task 2 (forced) syncs and sets
   `last_synced = 1`; task 1 gets the mutex and computes `0 - 1` on u128:
   a panic with overflow checks, otherwise a huge elapsed time, and the
   call syncs again although the last sync was just now.
4. **Unlocked outputs stay unspent** (`mod.rs:162`). For a conflicting
   transaction's inputs the code sets `is_spent = true` and unlocks them
   but leaves them in `unspent_outputs`, where the spec removes them; the
   invariant `unspent_outputs = {o | not is_spent}` fails. TLC finds this
   also with the race of finding 5 excluded.
5. **Output spent between query and fetch** (`mod.rs:58`). An output
   known as unspent is returned by the id query, spent, and fetched as
   spent: it goes into `outputs` as spent and stays in `unspent_outputs`.
   The spec's commit step has the same gap.

### Proofs

`AccountSyncProofs.tla` proves, for every set of tasks, outputs and
transactions and every clock bound (under `ConstantsAssumption`):

* `TypeCorrect`: `Spec => []TypeOK`;
* `PendingNotFinalHolds`, `LockedAreUnspentHolds`,
  `PendingInputsLockedHolds`: the three safety invariants of
  `sync_safety` for every instance;
* `IInvHolds`: `Spec => []IInv`, the inductive invariant below;
* `LeavesPendingWhenFinalHolds`: `Spec => LeavesPendingWhenFinal`, the
  action property of `sync_safety`.
* `RefinesSyncSpec`: `Spec => ImplementsSyncSpec`, the sync engine
  implements `AccountSyncSpec` (see Refinement below).

`PendingInputsLocked` is not inductive: a commit removes from
`locked_outputs` the inputs of the transactions its `sync_transactions`
read as final, and nothing in the property says those are not inputs of a
transaction that stays pending. The inductive invariant `IInv` adds:
`MutexHeld` (a task between the interval check and the commit holds the
`last_synced` mutex, so no other commit runs between its read and its
write); `ReadsCurrent` (every transaction its `sync_transactions` reported
is still pending, and `spent_output_ids` and `output_ids_to_unlock` are
exactly the inputs of the reported Confirmed and Conflicting ones); and
`InputsDisjoint` (two pending transactions share no input, because a send
and a consolidation take only unlocked outputs). TLC checks `IInv` on the
instance first (run `sync_safety`). One lemma per action shows it preserved;
`SendTxIInv` covers both the sender and consolidation, and `LeaveEffect`
and `NoneInPipeline` cover every way a call returns. The commit lemma
carries the argument: an unlocked input belongs to a reported final
transaction `y`, `y` is pending by `ReadsCurrent` and differs from any
transaction that stays pending, so by `InputsDisjoint` it is no input of
one.

The action property needs one more fact, `ReadsLedger`: what
`sync_transactions` reported Confirmed or Conflicting is still the
ledger's state of that transaction while the task is between
`sync_transactions` and the commit. It is kept because the ledger never
takes a final state back (a milestone changes only Pending transactions,
a send only fresh ones) and a task's reads change only in its own
`sync_transactions`, which copies the ledger. The proof splits every step
into two frame facts, `TasksKeepReads` and `LedgerKeepsFinal`; TLC checked
`ReadsLedger` on the `sync_safety` instance before it was proved. Then
`LeavesPendingStep`: only the commit shrinks `pending_transactions`, it
removes exactly the transactions reported final, stores the reported
state, and by `ReadsLedger` that is the ledger's. The mutant
`UpdateAccountAllReported` (every reported transaction, Pending ones
included, leaves `pending_transactions`) violates it and no invariant of
the run.

### Refinement

`AccountSyncSpec.tla` is what the account store promises about its
transactions, without tasks, awaits or node queries. Its state is
`lockedOutputs`, `transactions`, `pendingTransactions`, the ledger's
`txLedger` and `txInputs`. It has three actions:

* `Submit(x, ins)`: a fresh transaction enters pending with unlocked
  inputs, and they are locked;
* `Finalise(x)`: the ledger makes a pending transaction Confirmed or
  Conflicting;
* `Record(F)`: one atomic sync takes a set `F` of finalised pending
  transactions out of pending, stores the ledger's state for them, and
  unlocks their inputs.

`AccountSync` instantiates it over its own variables of the same names
(`Sync == INSTANCE AccountSyncSpec`, identity mapping). The run
`sync_safety` checks `ImplementsSyncSpec == Sync!Spec` as a property.
The mutant `UpdateAccountKeepsSpentLocked` violates it: a commit that
leaves a spent input locked is no `Record` step.

`RefinesSyncSpec` (`Spec => ImplementsSyncSpec`) proves it for every
instance:

* `InitRefines`: the initial states map to initial states.
* `SendRefines`: a send or a consolidation is a `Submit`.
* Each milestone step is a `Finalise`.
* `CommitRefines`: a commit of `update_account` is `Record(F)`, where
  `F` is the set of transactions its `sync_transactions` reported
  final. This step needs `IInv`:
  * `ReadsCurrent` says `F` is still pending, and that the unlocked ids
    are exactly the inputs of `F`.
  * `PendingNotFinal` says that storing a reported Pending state changes
    nothing.
* By `ReadsLedger`, the stored state is the ledger's.
* Every other step (the reads, fetches, clock and mutex steps) changes
  none of the five variables, so it is a stutter.

`NextRefines` combines these under `IInv /\ ReadsLedger` in the first
state. The theorem follows by PTL from `ReadsLedgerInvariant`.

The refinement has no fairness. The properties of the violation runs
are only model-checked.

## 5. ClockCheck

**Module** `ClockCheck.tla` models `Client::get_time_checked`
(`high_level.rs` 332-358); `MC_ClockCheck` instantiates it.

*State.* The environment: `sysTime`, the system clock in seconds, and
`milestone`, the node's latest milestone timestamp or `NoTimestamp`. The
call: `pc` (`idle`, `info` while `get_info` is awaited, `done`),
`currentTime` (the `u32` it read), `checkedTs` (the timestamp its check
used) and `result`.

*Actions.* `ReadClock` (the clock read and the `as u32` cast, `AsU32`),
`InfoError` (`get_info().await?` fails), `Check` (the answer: no timestamp
returns the time unchecked; otherwise the window check, with `U32Sub` and
`U32Add` giving the exact bound, or when it overflows a panic or the
wrapped value, as the build decides, and `InRange` as `Range::contains`
of a half-open range). `Tick` and `NewMilestone` are the environment; a
milestone may change while `get_info` is awaited. A call may follow a
returned one, as `find_inputs` calls again.

*Bounds.* Integers of 4 bits (`U32Modulus = 16`), a window of 3 and a
clock up to 17. Every relation the check depends on is present at this
size: timestamps below the window (the lower bound underflows), above
`16 - 3` (the upper bound overflows), in between; clocks on each side of
each bound; and a clock past `2^width` (the cast truncates). The proofs
below cover every width.

### Runs

| Run | Config | Result | What it shows |
|---|---|---|---|
| clock_safety | `ClockCheck.cfg` | pass | `NeverAcceptsFarClock`: an accepted time is at most the window away from the milestone it was compared to, wrapped bounds included |
| clock_spec_window | `CC_MatchesSpecWindow.cfg` | violation | where no bound overflows, the code does not match the spec's strict window |

### Findings

6. **Half-open window** (`high_level.rs:348`). The range
   `latest-300..latest+300` contains `latest-300`: a clock exactly five
   minutes behind the milestone is accepted, while the spec requires
   `|now - latest| < 300`. TLC: `currentTime = 0`, milestone `3`, window
   `3`, result Ok. `AcceptedWindow` proves this is the exact window for
   every width.
7. **Node-controlled underflow** (`high_level.rs:348`). The bounds are
   `u32` arithmetic on the timestamp the node reports. A timestamp below
   300, or within 300 of `2^32`, makes a build with overflow checks panic
   on the node's answer. A release build wraps into an empty range and
   fails with `TimeNotSynced` whatever the local clock is.
   `NeverAcceptsFarClock` still holds there: the wrap never widens the
   window. The theorem `LowTimestampFails` proves the case of a
   timestamp below the window for every width. `NoPanic` states the
   spec's expectation; no run checks it, because the theorem settles it
   for every instance.

### Proofs

`ClockCheckProofs.tla` proves, for every `U32Modulus` and every window
with `2 * FiveMinutes < U32Modulus` (600 < 2^32 in the code):

* `NeverAcceptsFarClockHolds`: `Spec => []NeverAcceptsFarClock`. The
  invariant is inductive with `TypeOK`. The core is the lemma
  `AcceptedIsClose`, which takes three cases: the lower bound wraps (then
  `lo = ts - F + 2^w > hi = ts + F`), the upper bound wraps (then
  `hi = ts + F - 2^w < lo`), or neither does (then `lo <= now < hi` bounds
  the distance). `WrapBelow` and `WrapAbove` give the wrapped values.
* `AcceptedWindow`: the exact accepted window where the bounds fit.
* `LowTimestampFails`: a timestamp below `FiveMinutes` makes the lower
  bound overflow (a panic is possible), and if it wraps, the range is
  empty (`ts - F + 2^w > ts + F`), so the outcome is a panic or
  TimeNotSynced for every local clock.
* `TypeCorrect`: `Spec => []TypeOK`.

## 6. InputSelection

**Module** `InputSelection.tla` models `Client::find_inputs`
(`high_level.rs` 185-247). State: the arguments `addresses` (a sequence,
repeats allowed, as a `Vec<String>` allows) and `amount`; the node's
ledger, `owner` and `value` of every output, chosen in `Init` and fixed
during the call; the program counter `pc` (query, time, select, done),
the index `next` of the next address, `available_outputs`, and the
result (`selected`, `found`, `result`).

| Action | Code |
|---|---|
| `QueryAddress` | one iteration of the address loop: `basic_output_ids` then `get_outputs`, the outputs of the address in any order appended to `available` |
| `QueryError` | either call fails (`?`) |
| `TimeChecked`, `TimeError` | `get_time_checked().await?` (its arithmetic is `ClockCheck`) |
| `ConvertError` | `try_from_dto`, `get_token_supply`, `TransactionId::from_str` or `UtxoInput::new` fail |
| `Select` | the sort, `take(INPUT_COUNT_MAX)`, the accumulation loop and the NotEnoughBalance check, one step as in the code (no await in between) |

`SortByAmountDesc` is the stable `sort_by(|l, r| r.1.cmp(&l.1))`: the
element at position `j` goes to `Rank(s, j)`, one plus the number of
elements with a larger amount or an equal amount earlier. `SelectCount`
is the loop with its break before the push: the shortest prefix whose
total reaches the amount, or all of it.

### Runs

| Run | Config | Result | What it shows |
|---|---|---|---|
| input_selection | `InputSelection.cfg` | pass | `SuccessMeetsSpec` (the spec's success property: covers, at most INPUT_COUNT_MAX, descending, a prefix of the candidates, the last input needed); `SelectionIsOptimal` (an Ok result has no smaller covering subset of the candidates; NotEnoughBalance only when no INPUT_COUNT_MAX of them cover the amount) |
| input_distinct | `IS_InputsDistinct.cfg` | violation | the same UTXO returned twice |

Bounds: two addresses, three outputs with amounts in {1, 2}, address
lists of length up to 2, amounts 0..5 and `InputCountMax = 2`. Three
candidates against a limit of two make `take` cut the list; equal amounts
exercise the stable sort; amount 5 exceeds every two-output total, so
NotEnoughBalance is reached with and without the cut; amount 0 returns no
inputs. The run enumerates every ledger and every argument: about 57 000
states. `CHECK_DEADLOCK FALSE`: the call ends.

### Findings

8. **Repeated address, repeated input** (`high_level.rs:191`). The loop
   queries every entry of `addresses`, repeats included, and extends
   `available_outputs` each time. With `addresses = [a1, a1]`, one output
   `o1` of amount 1 at `a1` and amount 2, the call returns
   `Ok([o1, o1])`, counting `o1` twice. The spec (section 8) has the
   result be a prefix of a permutation of the eligible UTXOs; a
   transaction spending an input twice is invalid. The same double count
   happens without repeats if an output moves between two listed
   addresses between their queries; the model keeps the ledger fixed and
   does not show that case.

### Proofs

`InputSelectionProofs.tla` proves, for every ledger, every address list,
every amount and every `InputCountMax`, the order and length part of the
result, `SelectionSortedAndBounded`: the selected inputs are at most
`INPUT_COUNT_MAX` and their amounts descend. The assumption
`IsFiniteSet(Outputs)` in `SelectionAssumption` is needed for it; the
node returns finite output lists. The lemmas are about the operators
of the module:

* `PrecedesOrder`: the order of the stable sort (amount descending, then
  the original position) is a strict total order.
* `RankBounds`, `RankMonotone`, `RankOnto`: the rank of a position is in
  `1..Len(s)`, follows the order and reaches every place. So
  `SortByAmountDesc` is a permutation, by `FS_Injection` on the finite
  positions.
* `SortDescending`: the sorted sequence has the same length and
  descending amounts.
* `SelectCountBound`: the greedy count is a least element of a set of
  naturals (`WFMin`), within `0..Len(t)`.
* `SelectShape`: the returned prefix of `Take(sorted, INPUT_COUNT_MAX)`
  is a sequence of outputs, bounded and descending.

The inductive invariant `IInv` adds the types these lemmas need:

* `value` is a function to `Amounts`;
* `available` and `selected` are sequences of outputs. `QueryIsSeq`
  shows that the `SetToSeqs` order of one address's outputs is a
  sequence of outputs.

`NextIInv` takes one case per action, and
`SelectionSortedAndBoundedHolds` follows by PTL. This is the sort and
`take` of `find_inputs`: the length and order conjuncts of
`SuccessMeetsSpec`.

Some properties remain only model-checked, for every ledger and argument
within the bounds above:

* the type invariant's `found \in Nat` (the total is a natural number);
* the coverage and minimality conjuncts of `SuccessMeetsSpec`;
* `SelectionIsOptimal`.

They are all about the totals of the selected amounts. `InputSelection`
computes these with `SumFunction` of `FiniteSetsExt`, a fold over a
recursive function on `SUBSET` of the domain (`MapThenFoldSet` in
`Folds`). What such a fold returns for every input can only be shown by
induction over the set. The induction theorems of the library take an
operator parameter that the installed provers cannot instantiate.

## 7. Burn

**Module** `Burn.tla` models `burn.rs`. State: the `burn` a caller holds
(sets of account, NFT and foundry ids and a function token id ->
amount), the `dto` at hand (each field an Option, `None` = `{}`,
`Some(x)` = `{x}`), and its `origin`: Some(the Burn it was serialised
from) or None when it came from a binding's JSON. Actions: `New` (new()
and the four `From<id>` constructors), every `add_*` and `set_*` call
(`AddNativeToken` uses `Insert`, the replacing `BTreeMap::insert`),
`Serialize` (`From<&Burn> for BurnDto`, which maps an empty collection
to None), `Receive` (any DTO the JSON can give) and `Deserialize`
(`From<BurnDto> for Burn`, `unwrap_or_default`).

| Run | Config | Result | What it shows |
|---|---|---|---|
| burn_roundtrip | `Burn.cfg` | pass | `BurnRoundTrip`: every Burn built by builder calls comes back from the DTO unchanged |

Bounds: one id of each kind, two token ids, amounts {1, 2}: every field
can be empty or not, and the token map can have zero, one or two
entries, which is every case the conversions distinguish (about 25 000
states).

`DtoRoundTrip` states the spec's requirement for the other direction.
No run checks it: the theorem `EmptyBecomesAbsent` below refutes it for
every instance.

**Finding 9** (`burn.rs:149`, `:165`). A BurnDto read from JSON with
`"accounts": []` is `Some({})`; converted to a Burn it is empty, and back
to a DTO it is `None`. The spec (section 9) says the DTO keeps absent and
empty apart through a round trip.

**Proofs** (`BurnProofs.tla`, for all id and amount sets):
`TypeCorrect`; `BurnRoundTripHolds`, from the inductive invariant
`TypeOK /\ DtoOfOrigin` (a DTO with an origin is that Burn's
serialisation) and the lemma `RoundTrip`
(`DtoToBurn(BurnToDto(b)) = b`, since `unwrap_or_default` undoes
`then_some` field by field); and `EmptyBecomesAbsent`, which exhibits
the DTO of finding 9 for every instance.

## 8. Not modelled

* `add_native_token` replaces the amount of a token already present
  instead of adding to it; the model keeps that behaviour, but no spec
  text says which is intended, so no property judges it.
* `inputs_from_transaction_id`, `find_blocks`, `find_outputs`, `block`,
  `get_addresses`: reads of the node with no state of their own.
* `IssuerFeature`: an immutable newtype around an address, with a
  constructor and a getter; it has no operation that changes state.
* The example binary `08_get_block_children.rs`: it reads a block's
  children from the node and prints them.
* PoW, signing, HTTP transport and the serialisation DTOs other than
  `BurnDto`: a call to them is one step that succeeds or fails.
