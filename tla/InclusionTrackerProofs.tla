----------------------- MODULE InclusionTrackerProofs -----------------------
(***************************************************************************)
(* Proofs about InclusionTracker for every value of the constants.        *)
(***************************************************************************)
EXTENDS InclusionTracker, SequenceTheorems, TLAPS

(***************************************************************************)
(* The inductive invariant.  TypeOK alone is not inductive: posting a      *)
(* block needs a fresh id (nextId <= MaxAttempts), a promotion needs a     *)
(* latest attachment, the rotation needs index - 1 <= Len(blocks_with_id)  *)
(* and the conflict path needs a block to return.  So it records that      *)
(*  - block_ids is never empty and blocks_with_id has one element less,   *)
(*  - every attachment was posted by this client, and a round posts at     *)
(*    most one block: nextId <= attempt + 1, and <= attempt while the      *)
(*    inner loop has not reached its last element,                         *)
(*  - the inner loop scans the current block_ids within its bounds,        *)
(*  - an included transaction has the block that included it.            *)
(***************************************************************************)
IInv ==
  /\ TypeOK
  /\ Len(blockIds) >= 1
  /\ Len(blocksWithId) = Len(blockIds) - 1
  /\ Len(blockIds) <= nextId
  /\ nextId <= attempt + 1
  /\ pc = "scan" => /\ snapshot = blockIds
                    /\ index \in 1 .. Len(snapshot)
                    /\ nextId <= attempt
  /\ txState = "included" => includedIn \in AllBlocks

\* Every step below does arithmetic on MaxAttempts.
USE MaxAttemptsAssumption

LEMMA InitIInv == Init => IInv
<1> SUFFICES ASSUME Init PROVE IInv
  OBVIOUS
<1>1. blockIds \in Seq(Blocks) /\ Len(blockIds) = 1
  BY DEF Init, Blocks, Original
<1>2. payload \in [AllBlocks -> PayloadKinds]
  BY DEF Init, PayloadKinds
<1>3. /\ parent \in [AllBlocks -> Blocks \cup {NoBlock}]
      /\ inclusion \in [AllBlocks -> InclusionStates]
  BY DEF Init, InclusionStates
<1>4. conflicting \in BOOLEAN
  BY Zenon DEF Init
<1> QED
  BY <1>1, <1>2, <1>3, <1>4 DEF Init, IInv, TypeOK, TxStates, Statuses

(* The node's steps leave the tracker alone and keep the node's types.     *)
LEMMA NodeStepIInv == IInv /\ NodeNext => IInv'
<1> SUFFICES ASSUME IInv, NodeNext PROVE IInv'
  OBVIOUS
<1>0. conflicting' \in BOOLEAN
  BY Zenon DEF NodeNext, ReferenceBlock, ForeignAttach, DoubleSpend,
     trackerVars, IInv, TypeOK
<1>1. ASSUME NEW b \in AllBlocks, ReferenceBlock(b) PROVE IInv'
  <2>1. PICK o \in Outcomes(b) : ApplyOutcome(b, o)
    BY <1>1 DEF ReferenceBlock
  <2>2. o \in InclusionStates
    BY DEF Outcomes, InclusionStates
  <2> QED
    BY <1>0, <1>1, <2>1, <2>2 DEF ReferenceBlock, ApplyOutcome, IInv, TypeOK,
       TxStates, trackerVars
<1>2. ASSUME NEW f \in Foreign, ForeignAttach(f) PROVE IInv'
  BY <1>0, <1>2 DEF ForeignAttach, IInv, TypeOK, AllBlocks, PayloadKinds,
     trackerVars
<1>3. ASSUME DoubleSpend PROVE IInv'
  BY <1>0, <1>3 DEF DoubleSpend, IInv, TypeOK, TxStates, trackerVars
<1> QED
  BY <1>1, <1>2, <1>3 DEF NodeNext

(* The tracker steps that leave the conflicting flag alone.                *)
LEMMA ConflictingKept ==
  IInv /\ (GiveUp \/ ScanIncluded \/ AfterScan \/ TransportError)
    => conflicting' \in BOOLEAN
BY Zenon DEF GiveUp, ScanIncluded, AfterScan, TransportError, IInv, TypeOK

LEMMA StartRoundIInv == IInv /\ StartRound => IInv'
<1> SUFFICES ASSUME IInv, StartRound PROVE IInv'
  OBVIOUS
<1>1. conflicting' \in BOOLEAN
  BY Zenon DEF StartRound
<1> QED
  BY <1>1 DEF StartRound, IInv, TypeOK, nodeVars

LEMMA GiveUpIInv == IInv /\ GiveUp => IInv'
BY ConflictingKept DEF GiveUp, IInv, TypeOK, nodeVars, Statuses

LEMMA ScanIncludedIInv == IInv /\ ScanIncluded => IInv'
<1> SUFFICES ASSUME IInv, ScanIncluded PROVE IInv'
  OBVIOUS
<1>1. ret' \in Seq(AllBlocks)
  <2>1. CASE snapshot[index] = Original
    <3>1. <<Original>> \in Seq(AllBlocks)
      BY DEF Original, Blocks, AllBlocks
    <3> QED
      BY <2>1, <3>1 DEF ScanIncluded, IInv, TypeOK, AllBlocks
  <2>2. CASE snapshot[index] # Original
    <3>1. index - 1 \in 0 .. Len(blocksWithId)
      BY DEF ScanIncluded, IInv
    <3>2. RotateLeft(blocksWithId, index - 1) \in Seq(Blocks)
      BY <3>1 DEF RotateLeft, IInv, TypeOK
    <3> QED
      BY <2>2, <3>2 DEF ScanIncluded, AllBlocks
  <2> QED
    BY <2>1, <2>2
<1> QED
  BY <1>1, ConflictingKept DEF ScanIncluded, IInv, TypeOK, Statuses, nodeVars

LEMMA ScanNotIncludedIInv ==
  ASSUME NEW sp \in BOOLEAN, NEW sr \in BOOLEAN,
         IInv, ScanNotIncluded(sp, sr)
  PROVE  IInv'
<1> DEFINE last == index = Len(snapshot)
<1>1. pc = "scan" /\ snapshot = blockIds /\ index \in 1 .. Len(snapshot)
      /\ nextId <= attempt
  BY DEF ScanNotIncluded, IInv
<1>2. /\ conflicting' \in BOOLEAN
  BY Zenon DEF ScanNotIncluded
<1>3. UNCHANGED <<attempt, snapshot, status, ret, foreignPosted,
                  inclusion, txState, includedIn>>
  BY DEF ScanNotIncluded
<1>4. /\ ~last => index' = index + 1 /\ pc' = pc
      /\ last => pc' = "conflict" /\ index' = index
  BY <1>1 DEF ScanNotIncluded, NextIndex
<1>5. nextId \in 1 .. MaxAttempts /\ LastOf(blockIds) \in Blocks
  BY <1>1 DEF IInv, TypeOK, LastOf
<1>6. CASE last /\ sp
  <2>1. Promote(LastOf(blockIds)) /\ UNCHANGED <<blockIds, blocksWithId>>
    BY <1>6 DEF ScanNotIncluded
  <2> QED
    BY <1>1, <1>2, <1>3, <1>4, <1>5, <1>6, <2>1 DEF Promote, IInv, TypeOK,
       Blocks, AllBlocks, PayloadKinds
<1>7. CASE last /\ ~sp /\ sr
  <2>1. Reattach(LastOf(blockIds))
    BY <1>7 DEF ScanNotIncluded
  <2>2. payload[LastOf(blockIds)] \in PayloadKinds
    BY <1>5 DEF IInv, TypeOK, AllBlocks
  <2> QED
    BY <1>1, <1>2, <1>3, <1>4, <1>5, <1>7, <2>1, <2>2 DEF Reattach, IInv,
       TypeOK, Blocks, AllBlocks
<1>8. CASE ~(last /\ sp) /\ ~(last /\ ~sp /\ sr)
  <2>1. UNCHANGED <<nextId, payload, parent, blockIds, blocksWithId>>
    BY <1>8 DEF ScanNotIncluded
  <2> QED
    BY <1>1, <1>2, <1>3, <1>4, <2>1 DEF IInv, TypeOK
<1> QED
  BY <1>6, <1>7, <1>8

LEMMA AfterScanIInv == IInv /\ AfterScan => IInv'
<1> SUFFICES ASSUME IInv, AfterScan PROVE IInv'
  OBVIOUS
<1>1. conflicting' \in BOOLEAN
  BY ConflictingKept
<1>2. CASE conflicting /\ payload[Original] = "transaction"
           /\ txState = "included"
  <2>1. <<includedIn>> \o blocksWithId \in Seq(AllBlocks)
    <3>1. blocksWithId \in Seq(AllBlocks)
      BY DEF IInv, TypeOK, AllBlocks
    <3>2. <<includedIn>> \in Seq(AllBlocks)
      BY <1>2 DEF IInv
    <3> QED
      BY <3>1, <3>2, ConcatProperties
  <2>2. status' = "ok" /\ ret' = <<includedIn>> \o blocksWithId
        /\ pc' = "done"
    BY <1>2, Zenon DEF AfterScan
  <2> QED
    BY <1>1, <2>1, <2>2 DEF AfterScan, IInv, TypeOK, Statuses, nodeVars
<1>3. CASE conflicting /\ payload[Original] = "transaction"
           /\ txState # "included"
  <2>1. status' = "notFoundError" /\ pc' = "done" /\ ret' = ret
    BY <1>3, Zenon DEF AfterScan
  <2> QED
    BY <1>1, <2>1 DEF AfterScan, IInv, TypeOK, Statuses, nodeVars
<1>4. CASE ~(conflicting /\ payload[Original] = "transaction")
  <2>1. pc' = "sleep" /\ status' = status /\ ret' = ret
    BY <1>4, Zenon DEF AfterScan
  <2> QED
    BY <1>1, <2>1 DEF AfterScan, IInv, TypeOK, nodeVars
<1> QED
  BY <1>2, <1>3, <1>4

LEMMA TransportErrorIInv == IInv /\ TransportError => IInv'
BY ConflictingKept DEF TransportError, IInv, TypeOK, Statuses, nodeVars

LEMMA NextIInv == IInv /\ [Next]_vars => IInv'
<1> SUFFICES ASSUME IInv, [Next]_vars PROVE IInv'
  OBVIOUS
<1>1. CASE TrackerNext
  BY <1>1, StartRoundIInv, GiveUpIInv, ScanIncludedIInv, ScanNotIncludedIInv,
     AfterScanIInv, TransportErrorIInv DEF TrackerNext
<1>2. CASE NodeNext
  BY <1>2, NodeStepIInv
<1>3. CASE UNCHANGED vars
  BY <1>3 DEF vars, trackerVars, nodeVars, IInv, TypeOK
<1> QED
  BY <1>1, <1>2, <1>3 DEF Next

LEMMA IInvInvariant == Spec => []IInv
BY InitIInv, NextIInv, PTL DEF Spec

(* Type correctness of retry_until_included and of the node model.        *)
THEOREM TypeCorrect == Spec => []TypeOK
BY IInvInvariant, PTL DEF IInv

(* For every max_attempts: since only the latest attachment is promoted or *)
(* reattached, block_ids never holds more than one attachment per round    *)
(* plus the original block.                                                *)
THEOREM OneReattachPerRoundHolds == Spec => []OneReattachPerRound
<1>1. IInv => OneReattachPerRound
  BY DEF IInv, TypeOK, OneReattachPerRound
<1> QED
  BY <1>1, IInvInvariant, PTL

-----------------------------------------------------------------------------
(***************************************************************************)
(* The refinement of TrackerSpec.  IInv does not say which blocks the     *)
(* tracker returns.  RInv adds what the proof of ReturnsIncludedAttachment *)
(* needs:                                                                  *)
(*  - block_ids is the original block followed by blocks_with_id, whose   *)
(*    blocks are not the original one, so an attachment found included   *)
(*    at index > 1 sits at index - 1 of blocks_with_id and the rotation   *)
(*    returns it (last, not first: FirstReturnedIncluded fails);          *)
(*  - the block recorded as including the transaction is included;         *)
(*  - the tracker has returned exactly when it is done, after which no    *)
(*    step of it is enabled, so its result never changes.                 *)
(***************************************************************************)
AttachmentsFromOriginal ==
  /\ blockIds = <<Original>> \o blocksWithId
  /\ \A i \in 1 .. Len(blocksWithId) : blocksWithId[i] # Original

IncludedInIsIncluded == txState = "included" => inclusion[includedIn] = "included"

DoneIsReturned == (pc = "done") = (status # "running")

RInv ==
  /\ IInv
  /\ AttachmentsFromOriginal
  /\ IncludedInIsIncluded
  /\ DoneIsReturned
  /\ ReturnsIncludedAttachment

Extra == AttachmentsFromOriginal /\ IncludedInIsIncluded /\ DoneIsReturned
         /\ ReturnsIncludedAttachment

LEMMA InitExtra == Init => Extra
BY DEF Init, Extra, AttachmentsFromOriginal, IncludedInIsIncluded,
   DoneIsReturned, ReturnsIncludedAttachment

\* A block that is Included or NoTransaction stays so.
LEMMA InclusionFinal ==
  ASSUME IInv, [Next]_vars, NEW b \in AllBlocks,
         inclusion[b] \in {"included", "noTransaction"}
  PROVE  inclusion'[b] = inclusion[b]
<1>1. CASE \E c \in AllBlocks : ReferenceBlock(c)
  <2>1. PICK c \in AllBlocks : ReferenceBlock(c)
    BY <1>1
  <2>2. PICK o \in Outcomes(c) : ApplyOutcome(c, o)
    BY <2>1 DEF ReferenceBlock
  <2>3. c # b
    BY <2>1 DEF ReferenceBlock
  <2> QED
    BY <2>2, <2>3 DEF ApplyOutcome, IInv, TypeOK
<1>2. CASE ~\E c \in AllBlocks : ReferenceBlock(c)
  BY <1>2 DEF Next, NodeNext, TrackerNext, ForeignAttach, DoubleSpend,
     StartRound, GiveUp, ScanIncluded, ScanNotIncluded, AfterScan,
     TransportError, Promote, Reattach, vars, nodeVars
<1> QED
  BY <1>1, <1>2

LEMMA NodeStepExtra == IInv /\ Extra /\ NodeNext => Extra'
<1> SUFFICES ASSUME IInv, Extra, NodeNext PROVE Extra'
  OBVIOUS
<1>1. UNCHANGED trackerVars
  BY DEF NodeNext, ReferenceBlock, ForeignAttach, DoubleSpend
<1>2. (AttachmentsFromOriginal /\ DoneIsReturned)'
  BY <1>1 DEF Extra, AttachmentsFromOriginal, DoneIsReturned, trackerVars
<1>3. ReturnsIncludedAttachment'
  <2> SUFFICES ASSUME status = "ok" PROVE ReturnsIncludedAttachment'
    BY <1>1 DEF ReturnsIncludedAttachment, trackerVars
  <2>1. PICK i \in 1 .. Len(ret) : inclusion[ret[i]] \in {"included", "noTransaction"}
    BY DEF Extra, ReturnsIncludedAttachment
  <2>2. ret[i] \in AllBlocks
    BY DEF IInv, TypeOK
  <2>3. [Next]_vars
    BY DEF Next
  <2> QED
    BY <1>1, <2>1, <2>2, <2>3, InclusionFinal DEF ReturnsIncludedAttachment,
       trackerVars
<1>4. IncludedInIsIncluded'
  <2>1. CASE \E b \in AllBlocks : ReferenceBlock(b)
    <3>1. PICK b \in AllBlocks : ReferenceBlock(b)
      BY <2>1
    <3>2. PICK o \in Outcomes(b) : ApplyOutcome(b, o)
      BY <3>1 DEF ReferenceBlock
    <3>3. txState = "included" => includedIn # b
      BY <3>1 DEF Extra, IncludedInIsIncluded, ReferenceBlock
    <3> QED
      BY <3>2, <3>3 DEF ApplyOutcome, Extra, IncludedInIsIncluded, IInv, TypeOK
  <2>2. CASE \E f \in Foreign : ForeignAttach(f)
    BY <2>2 DEF ForeignAttach, Extra, IncludedInIsIncluded
  <2>3. CASE DoubleSpend
    BY <2>3 DEF DoubleSpend, Extra, IncludedInIsIncluded
  <2> QED
    BY <2>1, <2>2, <2>3 DEF NodeNext
<1> QED
  BY <1>2, <1>3, <1>4 DEF Extra

\* The tracker steps that leave the node, block_ids and the result alone.
LEMMA QuietStepExtra ==
  IInv /\ Extra /\ (StartRound \/ (AfterScan /\ pc' = "sleep"))
    => Extra'
<1> SUFFICES ASSUME IInv, Extra, StartRound \/ (AfterScan /\ pc' = "sleep")
             PROVE Extra'
  OBVIOUS
<1>1. UNCHANGED <<blockIds, blocksWithId, status, ret, nodeVars>>
  BY Zenon DEF StartRound, AfterScan
<1>2. pc' # "done" /\ pc # "done"
  BY DEF StartRound, AfterScan
<1> QED
  BY <1>1, <1>2 DEF Extra, AttachmentsFromOriginal, IncludedInIsIncluded,
     DoneIsReturned, ReturnsIncludedAttachment, nodeVars

\* The steps that return an error.
LEMMA ErrorStepExtra ==
  IInv /\ Extra
    /\ (GiveUp \/ TransportError \/ (AfterScan /\ status' = "notFoundError"))
    => Extra'
<1> SUFFICES ASSUME IInv, Extra,
                    GiveUp \/ TransportError \/ (AfterScan /\ status' = "notFoundError")
             PROVE Extra'
  OBVIOUS
<1>1. UNCHANGED <<blockIds, blocksWithId, nodeVars>> /\ pc' = "done"
      /\ status' \notin {"running", "ok"}
  <2>1. CASE GiveUp
    BY <2>1 DEF GiveUp
  <2>2. CASE TransportError
    BY <2>2 DEF TransportError
  <2>3. CASE AfterScan /\ status' = "notFoundError"
    <3>1. pc' = "done"
      <4>1. status = "running"
        BY <2>3 DEF AfterScan, Extra, DoneIsReturned
      <4>2. CASE conflicting /\ payload[Original] = "transaction"
        BY <2>3, <4>2 DEF AfterScan
      <4>3. CASE ~(conflicting /\ payload[Original] = "transaction")
        BY <2>3, <4>1, <4>3 DEF AfterScan
      <4> QED
        BY <4>2, <4>3
    <3>2. UNCHANGED <<blockIds, blocksWithId, nodeVars>>
      BY <2>3 DEF AfterScan
    <3> QED
      BY <2>3, <3>1, <3>2
  <2> QED
    BY <2>1, <2>2, <2>3
<1> QED
  BY <1>1 DEF Extra, AttachmentsFromOriginal, IncludedInIsIncluded,
     DoneIsReturned, ReturnsIncludedAttachment, nodeVars

\* AfterScan finds the block that included the transaction and returns it
\* first.
LEMMA AfterScanOkExtra ==
  IInv /\ Extra /\ AfterScan /\ status' = "ok" => Extra'
<1> SUFFICES ASSUME IInv, Extra, AfterScan, status' = "ok" PROVE Extra'
  OBVIOUS
<1>1. /\ txState = "included" /\ ret' = <<includedIn>> \o blocksWithId
      /\ pc' = "done"
  <2>1. conflicting /\ payload[Original] = "transaction"
    <3>1. pc = "conflict" /\ (~(conflicting /\ payload[Original] = "transaction")
                              => status' = status)
      BY Zenon DEF AfterScan
    <3> QED
      BY <3>1 DEF Extra, DoneIsReturned
  <2>2. txState = "included"
    <3>1. txState # "included" => status' = "notFoundError"
      BY <2>1, Zenon DEF AfterScan
    <3> QED
      BY <3>1
  <2> QED
    BY <2>1, <2>2, Zenon DEF AfterScan
<1>2. UNCHANGED <<blockIds, blocksWithId, nodeVars>>
  BY DEF AfterScan
<1>3. blocksWithId \in Seq(AllBlocks) /\ includedIn \in AllBlocks
  BY <1>1 DEF IInv, TypeOK, AllBlocks
<1>4. ret'[1] = includedIn /\ Len(ret') >= 1
  BY <1>1, <1>3, ConcatProperties
<1>5. inclusion'[ret'[1]] = "included"
  BY <1>1, <1>2, <1>4 DEF Extra, IncludedInIsIncluded, nodeVars
<1> QED
  BY <1>1, <1>2, <1>5 DEF Extra, AttachmentsFromOriginal, IncludedInIsIncluded,
     DoneIsReturned, ReturnsIncludedAttachment, nodeVars

\* The rotation puts the attachment found at index - 1 of blocks_with_id
\* last.
LEMMA RotateLast ==
  ASSUME NEW S, NEW s \in Seq(S), NEW k \in 1 .. Len(s)
  PROVE  /\ RotateLeft(s, k) \in Seq(S)
         /\ Len(RotateLeft(s, k)) = Len(s)
         /\ RotateLeft(s, k)[Len(s)] = s[k]
<1>1. /\ SubSeq(s, k + 1, Len(s)) \in Seq(S)
      /\ Len(SubSeq(s, k + 1, Len(s))) = Len(s) - k
      /\ SubSeq(s, 1, k) \in Seq(S)
      /\ Len(SubSeq(s, 1, k)) = k
      /\ SubSeq(s, 1, k)[k] = s[k]
  BY SubSeqProperties
<1> QED
  BY <1>1, ConcatProperties DEF RotateLeft

LEMMA ScanIncludedExtra == IInv /\ Extra /\ ScanIncluded => Extra'
<1> SUFFICES ASSUME IInv, Extra, ScanIncluded PROVE Extra'
  OBVIOUS
<1> DEFINE b == snapshot[index]
<1>1. /\ pc = "scan" /\ Finished(inclusion[b]) /\ pc' = "done"
      /\ status' = "ok"
      /\ UNCHANGED <<blockIds, blocksWithId, snapshot, index, nodeVars>>
  BY DEF ScanIncluded
<1>2. snapshot = <<Original>> \o blocksWithId /\ index \in 1 .. Len(snapshot)
      /\ blocksWithId \in Seq(Blocks)
  BY <1>1 DEF IInv, TypeOK, Extra, AttachmentsFromOriginal
<1>3. ReturnsIncludedAttachment'
  <2>1. CASE b = Original
    <3>1. ret' = <<Original>> \o blocksWithId
      BY <2>1 DEF ScanIncluded
    <3>2. ret'[1] = Original /\ Len(ret') >= 1
      BY <3>1, <1>2, ConcatProperties DEF Original, Blocks
    <3> QED
      BY <1>1, <2>1, <3>2 DEF ReturnsIncludedAttachment, Finished, nodeVars
  <2>2. CASE b # Original
    <3>1. ret' = RotateLeft(blocksWithId, index - 1)
      BY <2>2 DEF ScanIncluded
    <3>2. index # 1
      BY <1>2, <2>2, ConcatProperties DEF Original, Blocks
    <3>3. index - 1 \in 1 .. Len(blocksWithId) /\ b = blocksWithId[index - 1]
      BY <1>2, <3>2, ConcatProperties DEF Original, Blocks
    <3>4. Len(ret') = Len(blocksWithId) /\ ret'[Len(blocksWithId)] = b
      BY <1>2, <3>1, <3>3, RotateLast
    <3>5. Len(blocksWithId) \in 1 .. Len(ret')
      BY <3>3, <3>4
    <3> QED
      BY <1>1, <3>4, <3>5 DEF ReturnsIncludedAttachment, Finished, nodeVars
  <2> QED
    BY <2>1, <2>2
<1> QED
  BY <1>1, <1>3 DEF Extra, AttachmentsFromOriginal, IncludedInIsIncluded,
     DoneIsReturned, ReturnsIncludedAttachment, nodeVars

\* A reattachment is appended to both block_ids and blocks_with_id.
LEMMA AppendBoth ==
  ASSUME NEW S, NEW s \in Seq(S), NEW x \in S, NEW y \in S
  PROVE  Append(<<x>> \o s, y) = <<x>> \o Append(s, y)
<1>1. <<x>> \in Seq(S) /\ <<y>> \in Seq(S)
  OBVIOUS
<1> QED
  BY <1>1, AppendIsConcat, ConcatAssociative, ConcatProperties

LEMMA ScanNotIncludedExtra ==
  ASSUME NEW sp \in BOOLEAN, NEW sr \in BOOLEAN,
         IInv, Extra, ScanNotIncluded(sp, sr)
  PROVE  Extra'
<1>1. /\ pc = "scan" /\ pc' \in {"scan", "conflict"}
      /\ UNCHANGED <<status, ret, inclusion, txState, includedIn>>
  BY DEF ScanNotIncluded, NextIndex
<1>2. AttachmentsFromOriginal'
  <2>1. CASE UNCHANGED <<blockIds, blocksWithId>>
    BY <2>1 DEF Extra, AttachmentsFromOriginal
  <2>2. CASE Reattach(LastOf(blockIds))
    <3>1. nextId \in Nat \ {0} /\ blocksWithId \in Seq(Nat)
      BY DEF IInv, TypeOK, Blocks
    <3>2. Append(<<Original>> \o blocksWithId, nextId)
            = <<Original>> \o Append(blocksWithId, nextId)
      BY <3>1, AppendBoth DEF Original
    <3>3. \A i \in 1 .. Len(blocksWithId) + 1 :
            Append(blocksWithId, nextId)[i] # Original
      BY <3>1 DEF Extra, AttachmentsFromOriginal, Original
    <3> QED
      BY <2>2, <3>1, <3>2, <3>3 DEF Reattach, Extra, AttachmentsFromOriginal
  <2> QED
    BY <2>1, <2>2 DEF ScanNotIncluded, Promote
<1> QED
  BY <1>1, <1>2 DEF Extra, IncludedInIsIncluded, DoneIsReturned,
     ReturnsIncludedAttachment

LEMMA NextRInv == RInv /\ [Next]_vars => RInv'
<1> SUFFICES ASSUME IInv, Extra, [Next]_vars PROVE Extra'
  BY NextIInv DEF RInv, Extra
<1>2. CASE NodeNext
  BY <1>2, NodeStepExtra
<1>3. CASE StartRound \/ GiveUp \/ ScanIncluded \/ TransportError
  BY <1>3, QuietStepExtra, ErrorStepExtra, ScanIncludedExtra
<1>4. CASE \E sp, sr \in BOOLEAN : ScanNotIncluded(sp, sr)
  BY <1>4, ScanNotIncludedExtra
<1>5. CASE AfterScan
  <2>1. pc' = "sleep" \/ status' = "notFoundError" \/ status' = "ok"
    BY <1>5, Zenon DEF AfterScan
  <2> QED
    BY <1>5, <2>1, QuietStepExtra, ErrorStepExtra, AfterScanOkExtra
<1>6. CASE UNCHANGED vars
  BY <1>6 DEF vars, trackerVars, nodeVars, Extra, AttachmentsFromOriginal,
     IncludedInIsIncluded, DoneIsReturned, ReturnsIncludedAttachment
<1> QED
  BY <1>2, <1>3, <1>4, <1>5, <1>6 DEF Next, TrackerNext

LEMMA RInvInvariant == Spec => []RInv
<1>1. Init => RInv
  BY InitIInv, InitExtra DEF RInv, Extra
<1> QED
  BY <1>1, NextRInv, PTL DEF Spec

(* For every max_attempts and every set of foreign attachments: when       *)
(* retry_until_included returns Ok, one of the returned blocks is          *)
(* referenced as Included or NoTransaction, whichever of its three return *)
(* paths was taken.                                                        *)
THEOREM ReturnsIncludedAttachmentHolds == Spec => []ReturnsIncludedAttachment
BY RInvInvariant, PTL DEF RInv

(* RInv: for every max_attempts, block_ids stays the original block        *)
(* followed by blocks_with_id, the block recorded as including the        *)
(* transaction is included, and retry_until_included has returned exactly *)
(* when its loop is over, whatever the node does between two rounds.      *)
THEOREM RInvHolds == Spec => []RInv
BY RInvInvariant

-----------------------------------------------------------------------------
(* The refinement: every step of the tracker or the node is a step of     *)
(* TrackerSpec under the mapping, or leaves the mapped state alone.        *)

Returned == {ret[i] : i \in DOMAIN ret}

LEMMA InitRefines == Init => Tracker!Init
<1> SUFFICES ASSUME Init PROVE Tracker!Init
  OBVIOUS
<1>1. AbsOutcome = "running"
  BY DEF Init, AbsOutcome
<1>2. IncludedBlocks = {}
  BY DEF Init, IncludedBlocks
<1>3. {ret[i] : i \in DOMAIN ret} = {}
  BY DEF Init
<1> QED
  BY <1>1, <1>2, <1>3 DEF Tracker!Init

\* The steps that leave the result and the ledger's inclusion alone.
LEMMA StutterRefines ==
  ASSUME UNCHANGED <<status, ret, inclusion>>
  PROVE  UNCHANGED Tracker!vars
BY DEF Tracker!vars, AbsOutcome, IncludedBlocks

\* The steps that return an error.
LEMMA ErrorRefines ==
  ASSUME RInv, status' \notin {"running", "ok"},
         UNCHANGED <<ret, inclusion>>, pc # "done"
  PROVE  Tracker!ReturnError
<1>1. status = "running"
  BY DEF RInv, DoneIsReturned
<1> QED
  BY <1>1 DEF Tracker!ReturnError, AbsOutcome, IncludedBlocks

\* The steps that return Ok.
LEMMA OkRefines ==
  ASSUME RInv, RInv', status' = "ok", UNCHANGED inclusion, pc # "done"
  PROVE  Tracker!ReturnOk
<1>1. status = "running"
  BY DEF RInv, DoneIsReturned
<1>2. Returned' \in SUBSET AllBlocks
  BY DEF RInv, IInv, TypeOK, Returned
<1>3. Returned' \cap IncludedBlocks # {}
  <2>1. PICK i \in 1 .. Len(ret') :
          inclusion'[ret'[i]] \in {"included", "noTransaction"}
    BY DEF RInv, ReturnsIncludedAttachment
  <2>3. ret' \in Seq(AllBlocks)
    BY DEF RInv, IInv, TypeOK
  <2>2. ret'[i] \in AllBlocks /\ i \in DOMAIN ret'
    BY <2>3
  <2> QED
    BY <2>1, <2>2 DEF Returned, IncludedBlocks
<1> QED
  BY <1>1, <1>2, <1>3 DEF Tracker!ReturnOk, AbsOutcome, IncludedBlocks, Returned

\* A milestone referencing a block: inclusion of it, or no change.
LEMMA ReferenceRefines ==
  ASSUME RInv, NEW b \in AllBlocks, ReferenceBlock(b)
  PROVE  [Tracker!Next]_Tracker!vars
<1>1. PICK o \in Outcomes(b) : ApplyOutcome(b, o)
  BY DEF ReferenceBlock
<1>2. UNCHANGED <<status, ret>> /\ inclusion[b] = "pending"
  BY DEF ReferenceBlock, trackerVars
<1>3. inclusion \in [AllBlocks -> InclusionStates]
  BY DEF RInv, IInv, TypeOK
<1>4. CASE o \in {"included", "noTransaction"}
  <2>1. IncludedBlocks' = IncludedBlocks \cup {b}
    BY <1>1, <1>3, <1>4 DEF ApplyOutcome, IncludedBlocks
  <2>2. b \in AllBlocks \ IncludedBlocks
    BY <1>2 DEF IncludedBlocks
  <2> QED
    BY <1>2, <2>1, <2>2 DEF Tracker!Next, Tracker!Include, AbsOutcome
<1>5. CASE o \notin {"included", "noTransaction"}
  <2>1. IncludedBlocks' = IncludedBlocks
    BY <1>1, <1>2, <1>3, <1>5 DEF ApplyOutcome, IncludedBlocks
  <2> QED
    BY <1>2, <2>1 DEF Tracker!vars, AbsOutcome
<1> QED
  BY <1>4, <1>5

LEMMA NextRefines ==
  RInv /\ RInv' /\ [Next]_vars => [Tracker!Next]_Tracker!vars
<1> SUFFICES ASSUME RInv, RInv', [Next]_vars
             PROVE [Tracker!Next]_Tracker!vars
  OBVIOUS
<1>1. CASE \E b \in AllBlocks : ReferenceBlock(b)
  BY <1>1, ReferenceRefines
<1>2. CASE (\E f \in Foreign : ForeignAttach(f)) \/ DoubleSpend
           \/ StartRound \/ (\E sp, sr \in BOOLEAN : ScanNotIncluded(sp, sr))
           \/ UNCHANGED vars
  <2> UNCHANGED <<status, ret, inclusion>>
    BY <1>2 DEF ForeignAttach, DoubleSpend, StartRound, ScanNotIncluded,
       vars, trackerVars, nodeVars
  <2> QED
    BY StutterRefines
<1>3. CASE GiveUp \/ TransportError
  BY <1>3, ErrorRefines DEF GiveUp, TransportError, nodeVars, Tracker!Next
<1>4. CASE ScanIncluded
  BY <1>4, OkRefines DEF ScanIncluded, nodeVars, Tracker!Next
<1>5. CASE AfterScan
  <2>1. pc = "conflict" /\ UNCHANGED inclusion
    BY <1>5 DEF AfterScan, nodeVars
  <2>2. status' = "ok" \/ status' = "notFoundError" \/ UNCHANGED <<status, ret>>
    BY <1>5, Zenon DEF AfterScan
  <2>3. status' = "notFoundError" => UNCHANGED ret
    BY <1>5, Zenon DEF AfterScan
  <2> QED
    BY <2>1, <2>2, <2>3, OkRefines, ErrorRefines, StutterRefines
       DEF Tracker!Next
<1> QED
  BY <1>1, <1>2, <1>3, <1>4, <1>5 DEF Next, TrackerNext, NodeNext

(* retry_until_included, with its promotions and reattachments and the    *)
(* node's milestones, foreign attachments and double spends, implements   *)
(* the safety part of TrackerSpec (Tracker!Safety, TrackerSpec without   *)
(* its fairness): inclusion is never undone, the call                     *)
(* returns once, and an Ok result holds an included block.                *)
THEOREM RefinesTrackerSpec == Spec => Tracker!Safety
<1>1. []RInv /\ [][Next]_vars => [][Tracker!Next]_Tracker!vars
  BY NextRefines, PTL
<1> QED
  BY InitRefines, RInvInvariant, <1>1, PTL DEF Spec, Tracker!Safety

=============================================================================
