---------------------------- MODULE InputSelection ----------------------------
(***************************************************************************)
(* Client::find_inputs (client/src/client/high_level.rs 185-247).         *)
(*                                                                         *)
(* For each address of the argument list, in order, the call asks the     *)
(* indexer for the basic outputs of that address without expiration,      *)
(* timelock or storage deposit return, and fetches them; then it checks   *)
(* the clock (get_time_checked), computes each output's amount, sorts the  *)
(* candidates by amount, descending (sort_by is stable), keeps the first  *)
(* INPUT_COUNT_MAX of them and accumulates them until the total reaches   *)
(* the requested amount.  If the total stays below, it fails with         *)
(* NotEnoughBalance { found, required }.                                   *)
(*                                                                         *)
(* The node's ledger (which output belongs to which address, and its      *)
(* amount) is chosen in Init and does not change during the call; the     *)
(* outputs of one address come back in any order.  An output is a model   *)
(* value; its amount is what get_output_amount_and_address returns for a  *)
(* basic output without further unlock conditions.                        *)
(***************************************************************************)
EXTENDS Naturals, Sequences, FiniteSets, Functions, SequencesExt

CONSTANTS
  Addresses,      \* bech32 addresses the caller may pass
  Outputs,        \* output ids on the ledger
  Amounts,        \* amounts an output may hold
  MaxAmount,      \* bound of the requested amount
  MaxAddresses,   \* bound of the length of the address list
  InputCountMax   \* INPUT_COUNT_MAX

ASSUME SelectionAssumption ==
  /\ IsFiniteSet(Outputs)
  /\ Amounts \subseteq Nat \ {0}
  /\ MaxAmount \in Nat
  /\ MaxAddresses \in Nat
  /\ InputCountMax \in Nat \ {0}

VARIABLES
  addresses,   \* the argument `addresses`
  amount,      \* the argument `amount`
  owner,       \* the ledger: the address each output belongs to
  value,       \* the ledger: the amount of each output
  pc,          \* "query", "time", "select", "done"
  next,        \* index in `addresses` of the next address to query
  available,   \* available_outputs, in the order they were fetched
  selected,    \* selected_inputs of the returned call
  found,       \* total_already_spent of the returned call
  result       \* "none", "ok", "notEnoughBalance" or the error returned

vars == <<addresses, amount, owner, value, pc, next, available, selected,
          found, result>>

-----------------------------------------------------------------------------
(* The selection                                                           *)

\* The sum of the amounts of a sequence of outputs.
Total(s) == SumFunction([i \in DOMAIN s |-> value[s[i]]])

\* basic_outputs.sort_by(|l, r| r.1.cmp(&l.1)): descending by amount, and,
\* sort_by being stable, in fetch order among equal amounts.  The element
\* at position j goes to position Rank(s, j).
Precedes(s, k, j) ==
  \/ value[s[k]] > value[s[j]]
  \/ value[s[k]] = value[s[j]] /\ k < j
Rank(s, j) == Cardinality({k \in DOMAIN s : Precedes(s, k, j)}) + 1

\* Mutant: sorted ascending (l.1.cmp(&r.1)).
SortByAmountAsc(s) ==
  LET Up(k, j) == \/ value[s[k]] < value[s[j]]
                  \/ value[s[k]] = value[s[j]] /\ k < j
      R(j) == Cardinality({k \in DOMAIN s : Up(k, j)}) + 1
  IN  [i \in DOMAIN s |-> s[CHOOSE j \in DOMAIN s : R(j) = i]]

SortByAmountDesc(s) ==
  [i \in DOMAIN s |-> s[CHOOSE j \in DOMAIN s : Rank(s, j) = i]]

\* .take(INPUT_COUNT_MAX)
Take(s, n) == SubSeq(s, 1, IF n < Len(s) THEN n ELSE Len(s))

\* Mutant: the break is checked after the push, so one input more is taken.
SelectCountAfterPush(t) ==
  LET hits == {k \in 1 .. Len(t) : Total(SubSeq(t, 1, k - 1)) >= amount}
  IN  IF hits = {} THEN Len(t) ELSE CHOOSE k \in hits : \A h \in hits : k <= h

\* The loop: before each push it breaks when total_already_spent >= amount,
\* so it takes the shortest prefix whose total reaches the amount, or all.
SelectCount(t) ==
  LET hits == {k \in 0 .. Len(t) : Total(SubSeq(t, 1, k)) >= amount}
  IN  IF hits = {} THEN Len(t) ELSE CHOOSE k \in hits : \A h \in hits : k <= h

-----------------------------------------------------------------------------
(* The call                                                                *)

Init ==
  /\ addresses \in UNION {[1 .. n -> Addresses] : n \in 0 .. MaxAddresses}
  /\ amount \in 0 .. MaxAmount
  /\ owner \in [Outputs -> Addresses]
  /\ value \in [Outputs -> Amounts]
  /\ pc = IF addresses = <<>> THEN "time" ELSE "query"
  /\ next = 1
  /\ available = <<>>
  /\ selected = <<>>
  /\ found = 0
  /\ result = "none"

\* basic_output_ids(address, no expiration, no timelock, no storage deposit
\* return) and get_outputs: the outputs of the address, in the indexer's
\* order, are appended to available_outputs.
QueryAddress ==
  /\ pc = "query"
  /\ \E ids \in SetToSeqs({o \in Outputs : owner[o] = addresses[next]}) :
       available' = available \o ids
  /\ next' = next + 1
  /\ pc' = IF next = Len(addresses) THEN "time" ELSE "query"
  /\ UNCHANGED <<addresses, amount, owner, value, selected, found, result>>

\* The call returns the error e.
Fail(e) ==
  /\ pc' = "done"
  /\ result' = e
  /\ UNCHANGED <<addresses, amount, owner, value, next, available, selected,
                 found>>

\* A query or a fetch fails (`?` on the node's answer).
QueryError == pc = "query" /\ Fail("nodeError")

\* get_time_checked().await? returns the time (ClockCheck models it).
TimeChecked ==
  /\ pc = "time"
  /\ pc' = "select"
  /\ UNCHANGED <<addresses, amount, owner, value, next, available, selected,
                 found, result>>

\* get_time_checked fails: TimeNotSynced, a node error.
TimeError == pc = "time" /\ Fail("clockError")

\* Output::try_from_dto, TransactionId::from_str, UtxoInput::new or
\* get_token_supply fail on the node's data.
ConvertError == pc = "select" /\ Fail("conversionError")

\* Sort, take, accumulate, and return the inputs or NotEnoughBalance.
Select ==
  /\ pc = "select"
  /\ LET t   == Take(SortByAmountDesc(available), InputCountMax)
         sel == SubSeq(t, 1, SelectCount(t))
     IN  /\ selected' = sel
         /\ found' = Total(sel)
         /\ result' = IF Total(sel) < amount THEN "notEnoughBalance" ELSE "ok"
  /\ pc' = "done"
  /\ UNCHANGED <<addresses, amount, owner, value, next, available>>

Next ==
  \/ QueryAddress
  \/ QueryError
  \/ TimeChecked
  \/ TimeError
  \/ ConvertError
  \/ Select

Spec == Init /\ [][Next]_vars

-----------------------------------------------------------------------------
(* Properties                                                              *)

TypeOK ==
  /\ addresses \in Seq(Addresses)
  /\ amount \in 0 .. MaxAmount
  /\ owner \in [Outputs -> Addresses]
  /\ value \in [Outputs -> Amounts]
  /\ pc \in {"query", "time", "select", "done"}
  /\ next \in 1 .. Len(addresses) + 1
  /\ available \in Seq(Outputs)
  /\ selected \in Seq(Outputs)
  /\ found \in Nat
  /\ result \in {"none", "ok", "notEnoughBalance", "nodeError", "clockError",
                 "conversionError"}

\* How often o occurs in the sequence s.
Copies(s, o) == Cardinality({i \in DOMAIN s : s[i] = o})

\* The spec's property of a successful find_inputs (sections 4.1 and 8):
\* the inputs cover the amount, are at most INPUT_COUNT_MAX, are a prefix
\* of the fetched candidates in descending order of amount (every
\* candidate left out is at most the smallest one taken), and the last
\* one was needed: without it the total is below the amount.
SuccessMeetsSpec ==
  result = "ok" =>
    /\ Total(selected) >= amount
    /\ Len(selected) <= InputCountMax
    /\ \A i \in 1 .. Len(selected) - 1 : value[selected[i]] >= value[selected[i + 1]]
    /\ \A o \in Outputs : Copies(selected, o) <= Copies(available, o)
    /\ selected # <<>> =>
         /\ \A o \in Range(available) :
              Copies(selected, o) < Copies(available, o)
                => value[o] <= value[Last(selected)]
         /\ Total(Front(selected)) < amount

\* The rationale of the descending greedy (section 4.1): it uses the fewest
\* inputs.  A success has no smaller set of the fetched candidates that
\* covers the amount, and NotEnoughBalance is returned only when no
\* INPUT_COUNT_MAX of the candidates together cover it.
SelectionIsOptimal ==
  LET amt == [i \in DOMAIN available |-> value[available[i]]]
      Covers(n) == \E P \in SUBSET DOMAIN available :
                     Cardinality(P) <= n /\ SumFunctionOnSet(amt, P) >= amount
  IN  /\ result = "ok" => ~Covers(Len(selected) - 1)
      /\ result = "notEnoughBalance" => ~Covers(InputCountMax) /\ found < amount

\* The spec (section 8): the inputs are a permutation prefix of the
\* eligible UTXOs, so no UTXO is returned twice; a transaction spending an
\* input twice is invalid.
InputsDistinct == result = "ok" => IsInjective(selected)

=============================================================================
