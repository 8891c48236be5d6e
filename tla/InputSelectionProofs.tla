------------------------ MODULE InputSelectionProofs ------------------------
(***************************************************************************)
(* Proofs about find_inputs for every ledger, every argument and every    *)
(* INPUT_COUNT_MAX.  What the totals of the selection are cannot be shown  *)
(* here (Total is a fold, and what a fold computes needs induction over    *)
(* the set); the order and the length of the selection can, because they  *)
(* depend only on the sort and on the bound of the loop.                   *)
(***************************************************************************)
EXTENDS InputSelection, FiniteSetTheorems, WellFoundedInduction, TLAPS

USE SelectionAssumption

\* 1 .. n has n elements.
LEMMA IntervalCard ==
  ASSUME NEW n \in Nat
  PROVE  IsFiniteSet(1 .. n) /\ Cardinality(1 .. n) = n
<1>1. IsFiniteSet(1 .. n) /\ Cardinality(1 .. n) = IF 1 > n THEN 0 ELSE n - 1 + 1
  BY FS_Interval
<1> QED
  BY <1>1

\* The candidates the sort puts before position j.
Before(s, j) == {k \in DOMAIN s : Precedes(s, k, j)}

(***************************************************************************)
(* Precedes is a strict total order on the positions of s: by amount,     *)
(* descending, and by position among equal amounts.                        *)
(***************************************************************************)
LEMMA PrecedesOrder ==
  ASSUME value \in [Outputs -> Nat], NEW s \in Seq(Outputs),
         NEW i \in 1 .. Len(s), NEW j \in 1 .. Len(s), NEW k \in 1 .. Len(s)
  PROVE  /\ ~Precedes(s, j, j)
         /\ Precedes(s, i, j) /\ Precedes(s, j, k) => Precedes(s, i, k)
         /\ j # k => Precedes(s, j, k) \/ Precedes(s, k, j)
BY DEF Precedes

\* Rank(s, j) is a position of s.
LEMMA RankBounds ==
  ASSUME value \in [Outputs -> Nat], NEW s \in Seq(Outputs),
         NEW j \in 1 .. Len(s)
  PROVE  /\ IsFiniteSet(Before(s, j))
         /\ Rank(s, j) \in 1 .. Len(s)
<1> DEFINE D == 1 .. Len(s)
<1>1. IsFiniteSet(D) /\ Cardinality(D) = Len(s)
  BY IntervalCard
<1>2. IsFiniteSet(D \ {j}) /\ Cardinality(D \ {j}) = Len(s) - 1
  <2>1. Cardinality(D \ {j}) = Cardinality(D) - 1
    BY <1>1, FS_RemoveElement
  <2>2. IsFiniteSet(D \ {j})
    BY <1>1, FS_Subset
  <2> QED
    BY <1>1, <2>1, <2>2
<1>3. Before(s, j) \subseteq D \ {j}
  BY PrecedesOrder DEF Before
<1>4. IsFiniteSet(Before(s, j)) /\ Cardinality(Before(s, j)) <= Len(s) - 1
  BY <1>2, <1>3, FS_Subset
<1>5. Cardinality(Before(s, j)) \in Nat
  BY <1>4, FS_CardinalityType
<1> QED
  BY <1>4, <1>5 DEF Rank, Before

\* A candidate the sort puts before another gets a smaller rank.
LEMMA RankMonotone ==
  ASSUME value \in [Outputs -> Nat], NEW s \in Seq(Outputs),
         NEW j \in 1 .. Len(s), NEW k \in 1 .. Len(s), Precedes(s, k, j)
  PROVE  Rank(s, k) < Rank(s, j)
<1>1. Before(s, k) \subseteq Before(s, j)
  <2> SUFFICES ASSUME NEW m \in Before(s, k) PROVE m \in Before(s, j)
    OBVIOUS
  <2>1. m \in 1 .. Len(s) /\ Precedes(s, m, k)
    BY DEF Before
  <2>2. Precedes(s, m, j)
    BY <2>1, PrecedesOrder
  <2> QED
    BY <2>1, <2>2 DEF Before
<1>2. k \in Before(s, j) /\ k \notin Before(s, k)
  BY PrecedesOrder DEF Before
<1>3. IsFiniteSet(Before(s, j)) /\ IsFiniteSet(Before(s, k))
  BY RankBounds
<1>4. /\ Cardinality(Before(s, k)) <= Cardinality(Before(s, j))
      /\ Cardinality(Before(s, k)) # Cardinality(Before(s, j))
  BY <1>1, <1>2, <1>3, FS_Subset
<1>5. Cardinality(Before(s, k)) \in Nat /\ Cardinality(Before(s, j)) \in Nat
  BY <1>3, FS_CardinalityType
<1> QED
  BY <1>4, <1>5 DEF Rank, Before

\* Every position of s is the rank of exactly one candidate.
LEMMA RankOnto ==
  ASSUME value \in [Outputs -> Nat], NEW s \in Seq(Outputs),
         NEW i \in 1 .. Len(s)
  PROVE  \E j \in 1 .. Len(s) : Rank(s, j) = i
<1> DEFINE D == 1 .. Len(s)
           f == [j \in D |-> Rank(s, j)]
<1>1. f \in [D -> D]
  BY RankBounds
<1>2. \A j, k \in D : f[j] = f[k] => j = k
  <2> SUFFICES ASSUME NEW j \in D, NEW k \in D, j # k PROVE f[j] # f[k]
    OBVIOUS
  <2>1. Precedes(s, j, k) \/ Precedes(s, k, j)
    BY PrecedesOrder
  <2>2. CASE Precedes(s, j, k)
    <3>1. Rank(s, j) < Rank(s, k)
      BY <2>2, RankMonotone
    <3> QED
      BY <3>1, RankBounds
  <2>3. CASE Precedes(s, k, j)
    <3>1. Rank(s, k) < Rank(s, j)
      BY <2>3, RankMonotone
    <3> QED
      BY <3>1, RankBounds
  <2> QED
    BY <2>1, <2>2, <2>3
<1>3. f \in Injection(D, D)
  BY <1>1, <1>2 DEF Injection, IsInjective
<1>4. IsFiniteSet(D)
  BY IntervalCard
<1>5. f \in Surjection(D, D)
  BY <1>3, <1>4, FS_Injection
<1> QED
  BY <1>5 DEF Surjection

\* Descending by amount, as a property of a sequence of outputs.
Descending(r) == \A i \in 1 .. Len(r) - 1 : value[r[i]] >= value[r[i + 1]]

(***************************************************************************)
(* The stable sort is a sequence of the same length in descending order of *)
(* amount: position i holds the candidate of rank i, which exists because *)
(* the ranks are a permutation of the positions.                           *)
(***************************************************************************)
LEMMA SortDescending ==
  ASSUME value \in [Outputs -> Nat], NEW s \in Seq(Outputs)
  PROVE  LET r == SortByAmountDesc(s)
         IN  /\ r \in Seq(Outputs)
             /\ Len(r) = Len(s)
             /\ Descending(r)
<1> DEFINE r == SortByAmountDesc(s)
           J(i) == CHOOSE j \in DOMAIN s : Rank(s, j) = i
<1>0. DOMAIN s = 1 .. Len(s)
  OBVIOUS
<1>1. \A i \in 1 .. Len(s) : J(i) \in 1 .. Len(s) /\ Rank(s, J(i)) = i
  BY <1>0, RankOnto
<1>2. r = [i \in 1 .. Len(s) |-> s[J(i)]]
  BY <1>0 DEF SortByAmountDesc
<1>3. r \in Seq(Outputs) /\ Len(r) = Len(s)
  BY <1>1, <1>2
<1>4. Descending(r)
  <2> SUFFICES ASSUME NEW i \in 1 .. Len(s) - 1
               PROVE  value[r[i]] >= value[r[i + 1]]
    BY <1>3 DEF Descending
  <2>0. i \in 1 .. Len(s) /\ i + 1 \in 1 .. Len(s)
    OBVIOUS
  <2>1. /\ J(i) \in 1 .. Len(s) /\ Rank(s, J(i)) = i
        /\ J(i + 1) \in 1 .. Len(s) /\ Rank(s, J(i + 1)) = i + 1
    BY <2>0, <1>1
  <2>2. ~Precedes(s, J(i + 1), J(i))
    BY <2>1, RankMonotone
  <2> QED
    BY <1>2, <2>1, <2>2 DEF Precedes
<1> QED
  BY <1>3, <1>4

\* The loop stops within the candidates it was given: a least index whose
\* prefix reaches the amount exists when any does.
LEMMA SelectCountBound ==
  ASSUME NEW t \in Seq(Outputs)
  PROVE  SelectCount(t) \in 0 .. Len(t)
<1> DEFINE hits == {k \in 0 .. Len(t) : Total(SubSeq(t, 1, k)) >= amount}
<1>1. CASE hits = {}
  BY <1>1 DEF SelectCount
<1>2. CASE hits # {}
  <2>0. hits \subseteq Nat
    OBVIOUS
  <2>1. \E x \in hits : \A y \in hits : ~(<<y, x>> \in OpToRel(<, Nat))
    <3>1. IsWellFoundedOn(OpToRel(<, Nat), Nat)
      BY NatLessThanWellFounded
    <3> QED
      BY <1>2, <2>0, <3>1, WFMin, Zenon
  <2>2. \E x \in hits : \A y \in hits : x <= y
    <3>1. PICK x \in hits : \A y \in hits : ~(<<y, x>> \in OpToRel(<, Nat))
      BY <2>1
    <3>2. \A y \in hits : ~(y < x)
      BY <2>0, <3>1 DEF OpToRel
    <3> QED
      BY <2>0, <3>2
  <2>3. SelectCount(t) \in hits
    BY <1>2, <2>2 DEF SelectCount
  <2> QED
    BY <2>3
<1> QED
  BY <1>1, <1>2

(***************************************************************************)
(* What Select returns: a prefix of the sorted candidates, no longer than *)
(* INPUT_COUNT_MAX, in descending order of amount.                         *)
(***************************************************************************)
LEMMA SelectShape ==
  ASSUME value \in [Outputs -> Nat], NEW s \in Seq(Outputs)
  PROVE  LET t   == Take(SortByAmountDesc(s), InputCountMax)
             sel == SubSeq(t, 1, SelectCount(t))
         IN  /\ sel \in Seq(Outputs)
             /\ Len(sel) <= InputCountMax
             /\ Descending(sel)
<1> DEFINE r == SortByAmountDesc(s)
           t == Take(r, InputCountMax)
           sel == SubSeq(t, 1, SelectCount(t))
<1>1. r \in Seq(Outputs) /\ Len(r) = Len(s) /\ Descending(r)
  BY SortDescending
<1>2. /\ t \in Seq(Outputs)
      /\ Len(t) <= InputCountMax /\ Len(t) <= Len(r)
      /\ \A i \in 1 .. Len(t) : t[i] = r[i]
  BY <1>1 DEF Take
<1>3. SelectCount(t) \in 0 .. Len(t)
  BY <1>2, SelectCountBound
<1>4. /\ sel \in Seq(Outputs)
      /\ Len(sel) = SelectCount(t)
      /\ \A i \in 1 .. Len(sel) : sel[i] = r[i]
  BY <1>2, <1>3
<1>5. Descending(sel)
  <2> SUFFICES ASSUME NEW i \in 1 .. Len(sel) - 1
               PROVE  value[sel[i]] >= value[sel[i + 1]]
    BY DEF Descending
  <2>0. Len(sel) <= Len(r) /\ Len(r) \in Nat
    BY <1>1, <1>2, <1>3, <1>4
  <2>1. i \in 1 .. Len(r) - 1
    BY <1>4, <2>0
  <2>2. sel[i] = r[i] /\ sel[i + 1] = r[i + 1]
    BY <1>4
  <2> QED
    BY <1>1, <2>1, <2>2 DEF Descending
<1> QED
  BY <1>2, <1>3, <1>4, <1>5

\* The order and the length of the selection, stated for every returned
\* call (the prefix NotEnoughBalance reports is sorted and bounded too).
SelectionSortedAndBounded ==
  /\ Len(selected) <= InputCountMax
  /\ Descending(selected)

\* The inductive invariant: the types the lemmas need, and the property.
\* (TypeOK also says found \in Nat, a fact about the fold Total that is
\* only model-checked.)
IInv ==
  /\ value \in [Outputs -> Amounts]
  /\ available \in Seq(Outputs)
  /\ selected \in Seq(Outputs)
  /\ SelectionSortedAndBounded

\* The outputs of one address, in the indexer's order, form a sequence of
\* outputs.
LEMMA QueryIsSeq ==
  ASSUME NEW S \in SUBSET Outputs, NEW ids \in SetToSeqs(S)
  PROVE  ids \in Seq(Outputs)
<1>1. IsFiniteSet(S) /\ Cardinality(S) \in Nat
  BY FS_Subset, FS_CardinalityType
<1> QED
  BY <1>1 DEF SetToSeqs

LEMMA InitIInv == Init => IInv
BY DEF Init, IInv, SelectionSortedAndBounded, Descending

LEMMA NextIInv == IInv /\ [Next]_vars => IInv'
<1> SUFFICES ASSUME IInv, [Next]_vars PROVE IInv'
  OBVIOUS
<1>0. value \in [Outputs -> Nat]
  BY DEF IInv
<1>1. CASE QueryAddress
  <2>1. PICK ids \in SetToSeqs({o \in Outputs : owner[o] = addresses[next]}) :
          available' = available \o ids
    BY <1>1 DEF QueryAddress
  <2>2. ids \in Seq(Outputs)
    BY QueryIsSeq
  <2> QED
    BY <1>1, <2>1, <2>2 DEF QueryAddress, IInv, SelectionSortedAndBounded,
       Descending
<1>2. CASE Select
  <2> DEFINE t   == Take(SortByAmountDesc(available), InputCountMax)
             sel == SubSeq(t, 1, SelectCount(t))
  <2>1. selected' = sel /\ UNCHANGED <<value, available>>
    BY <1>2 DEF Select
  <2>2. sel \in Seq(Outputs) /\ Len(sel) <= InputCountMax /\ Descending(sel)
    BY <1>0, SelectShape DEF IInv
  <2> QED
    BY <2>1, <2>2 DEF IInv, SelectionSortedAndBounded, Descending
<1>3. CASE QueryError \/ TimeChecked \/ TimeError \/ ConvertError \/ UNCHANGED vars
  BY <1>3 DEF QueryError, TimeChecked, TimeError, ConvertError, Fail, vars,
     IInv, SelectionSortedAndBounded, Descending
<1> QED
  BY <1>1, <1>2, <1>3 DEF Next

\* For every ledger, every address list, every amount and every
\* INPUT_COUNT_MAX: the inputs find_inputs returns, Ok or the prefix behind
\* NotEnoughBalance, are at most INPUT_COUNT_MAX and in descending order of
\* amount.  The stable sort_by(|l, r| r.1.cmp(&l.1)) is a permutation in
\* descending order, take(INPUT_COUNT_MAX) bounds it, and the loop returns
\* a prefix of it.  These are the order and length conjuncts of
\* SuccessMeetsSpec.
THEOREM SelectionSortedAndBoundedHolds == Spec => []SelectionSortedAndBounded
<1>1. IInv => SelectionSortedAndBounded
  BY DEF IInv
<1> QED
  BY <1>1, InitIInv, NextIInv, PTL DEF Spec
=============================================================================
