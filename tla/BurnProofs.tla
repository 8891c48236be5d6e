------------------------------ MODULE BurnProofs ------------------------------
(***************************************************************************)
(* Proofs about Burn: the builder keeps a well-formed Burn, and a Burn    *)
(* converted to a BurnDto and back is the Burn it was, for any sets of    *)
(* ids and amounts.                                                        *)
(***************************************************************************)
EXTENDS Burn, TLAPS

\* The DTO at hand is the serialisation of the Burn it came from.
DtoOfOrigin == \A b \in origin : dto = BurnToDto(b)

IInv == TypeOK /\ DtoOfOrigin

-----------------------------------------------------------------------------
(* The conversions                                                         *)

\* unwrap_or_default undoes then_some, whatever the collection.
LEMMA UnwrapUndoesWrap ==
  ASSUME NEW x, NEW e
  PROVE  OrEmpty(SomeIfNotEmpty(x, e), e) = x
<1>1. CASE x = e
  BY <1>1 DEF OrEmpty, SomeIfNotEmpty
<1>2. CASE x # e
  <2>1. SomeIfNotEmpty(x, e) = {x} /\ {x} # None
    BY <1>2 DEF SomeIfNotEmpty, None
  <2>2. QED
    BY <2>1 DEF OrEmpty
<1>3. QED
  BY <1>1, <1>2

\* An Option of a set of T unwraps to a set of T.
LEMMA UnwrapType ==
  ASSUME NEW T, NEW x \in Options(T), NEW e \in T
  PROVE  OrEmpty(x, e) \in T
BY DEF Options, OrEmpty, None

\* Wrapping a member of T gives an Option of T.
LEMMA WrapType ==
  ASSUME NEW T, NEW x \in T, NEW e
  PROVE  SomeIfNotEmpty(x, e) \in Options(T)
BY DEF Options, SomeIfNotEmpty, None

LEMMA EmptyMap == <<>> \in TokenMaps
<1>1. <<>> \in [{} -> TokenAmounts]
  OBVIOUS
<1>2. {} \in SUBSET TokenIds
  OBVIOUS
<1>3. QED
  BY <1>1, <1>2 DEF TokenMaps

LEMMA BurnToDtoType ==
  ASSUME NEW b \in BurnValues
  PROVE  BurnToDto(b) \in DtoValues
<1>1. SomeIfNotEmpty(b.nativeTokens, <<>>) \in Options(TokenMaps)
  BY WrapType DEF BurnValues
<1>2. /\ SomeIfNotEmpty(b.accounts, {}) \in Options(SUBSET AccountIds)
      /\ SomeIfNotEmpty(b.nfts, {}) \in Options(SUBSET NftIds)
      /\ SomeIfNotEmpty(b.foundries, {}) \in Options(SUBSET FoundryIds)
  BY WrapType DEF BurnValues
<1>3. QED
  BY <1>1, <1>2 DEF BurnToDto, DtoValues

LEMMA DtoToBurnType ==
  ASSUME NEW d \in DtoValues
  PROVE  DtoToBurn(d) \in BurnValues
<1>1. OrEmpty(d.nativeTokens, <<>>) \in TokenMaps
  BY EmptyMap, UnwrapType DEF DtoValues
<1>2. /\ OrEmpty(d.accounts, {}) \in SUBSET AccountIds
      /\ OrEmpty(d.nfts, {}) \in SUBSET NftIds
      /\ OrEmpty(d.foundries, {}) \in SUBSET FoundryIds
  BY UnwrapType DEF DtoValues
<1>3. QED
  BY <1>1, <1>2 DEF DtoToBurn, BurnValues

\* From<BurnDto> for Burn undoes From<&Burn> for BurnDto.
LEMMA RoundTrip ==
  ASSUME NEW b \in BurnValues
  PROVE  DtoToBurn(BurnToDto(b)) = b
<1>1. /\ OrEmpty(SomeIfNotEmpty(b.accounts, {}), {}) = b.accounts
      /\ OrEmpty(SomeIfNotEmpty(b.nfts, {}), {}) = b.nfts
      /\ OrEmpty(SomeIfNotEmpty(b.foundries, {}), {}) = b.foundries
      /\ OrEmpty(SomeIfNotEmpty(b.nativeTokens, <<>>), <<>>) = b.nativeTokens
  BY UnwrapUndoesWrap
<1>2. QED
  BY <1>1 DEF DtoToBurn, BurnToDto, BurnValues

LEMMA InsertType ==
  ASSUME NEW m \in TokenMaps, NEW k \in TokenIds, NEW v \in TokenAmounts
  PROVE  Insert(m, k, v) \in TokenMaps
<1>1. PICK D \in SUBSET TokenIds : m \in [D -> TokenAmounts]
  BY DEF TokenMaps
<1>2. Insert(m, k, v) \in [D \cup {k} -> TokenAmounts]
  BY <1>1 DEF Insert
<1>3. QED
  BY <1>2 DEF TokenMaps

-----------------------------------------------------------------------------
(* The invariant                                                           *)

LEMMA InitIInv == Init => IInv
<1> SUFFICES ASSUME Init PROVE IInv
  OBVIOUS
<1>1. EmptyBurn \in BurnValues
  BY EmptyMap DEF EmptyBurn, BurnValues
<1>2. QED
  BY <1>1, BurnToDtoType DEF Init, IInv, TypeOK, DtoOfOrigin, Options

\* Every builder call leaves a Burn of the right type and the DTO alone.
LEMMA BuildIInv ==
  ASSUME IInv, NEW b \in BurnValues, Build(b)
  PROVE  IInv'
BY DEF Build, IInv, TypeOK, DtoOfOrigin

LEMMA NextIInv == IInv /\ [Next]_vars => IInv'
<1> SUFFICES ASSUME IInv, [Next]_vars PROVE IInv'
  OBVIOUS
<1>1. burn \in BurnValues
  BY DEF IInv, TypeOK
<1>2. CASE New
  <2>1. EmptyBurn \in BurnValues
    BY EmptyMap DEF EmptyBurn, BurnValues
  <2>2. \A t \in TokenIds, x \in TokenAmounts :
          Insert(<<>>, t, x) \in TokenMaps
    BY EmptyMap, InsertType
  <2>3. QED
    BY <1>2, <2>1, <2>2, BuildIInv DEF New, EmptyBurn, BurnValues
<1>3. CASE AddAccount \/ SetAccounts \/ AddNft \/ SetNfts \/ AddFoundry
           \/ SetFoundries \/ SetNativeTokens
  BY <1>1, <1>3, BuildIInv
     DEF AddAccount, SetAccounts, AddNft, SetNfts, AddFoundry, SetFoundries,
         SetNativeTokens, BurnValues
<1>4. CASE AddNativeToken
  <2>1. PICK t \in TokenIds, x \in TokenAmounts :
          Build([burn EXCEPT !.nativeTokens = Insert(@, t, x)])
    BY <1>4 DEF AddNativeToken
  <2>2. Insert(burn.nativeTokens, t, x) \in TokenMaps
    BY <1>1, InsertType DEF BurnValues
  <2>3. QED
    BY <1>1, <2>1, <2>2, BuildIInv DEF BurnValues
<1>5. CASE Serialize
  BY <1>1, <1>5, BurnToDtoType DEF Serialize, IInv, TypeOK, DtoOfOrigin, Options
<1>6. CASE Receive
  BY <1>6 DEF Receive, IInv, TypeOK, DtoOfOrigin, Options, None
<1>7. CASE Deserialize
  BY <1>7, DtoToBurnType DEF Deserialize, IInv, TypeOK, DtoOfOrigin
<1>8. CASE UNCHANGED vars
  BY <1>8 DEF vars, IInv, TypeOK, DtoOfOrigin
<1>9. QED
  BY <1>2, <1>3, <1>4, <1>5, <1>6, <1>7, <1>8 DEF Next

-----------------------------------------------------------------------------
(* Theorems                                                                *)

\* The builder calls and the conversions keep the Burn, the BurnDto and
\* the origin well-formed.
THEOREM TypeCorrect == Spec => []TypeOK
<1>1. IInv => TypeOK
  BY DEF IInv
<1>2. QED
  BY InitIInv, NextIInv, <1>1, PTL DEF Spec

\* A Burn built by any chain of builder calls survives the round trip
\* through BurnDto (From<&Burn> for BurnDto, From<BurnDto> for Burn).
THEOREM BurnRoundTripHolds == Spec => []BurnRoundTrip
<1>1. IInv => BurnRoundTrip
  <2> SUFFICES ASSUME IInv, NEW b \in origin PROVE DtoToBurn(dto) = b
    BY DEF BurnRoundTrip
  <2>1. b \in BurnValues
    BY DEF IInv, TypeOK, Options, None
  <2>2. dto = BurnToDto(b)
    BY DEF IInv, DtoOfOrigin
  <2>3. QED
    BY <2>1, <2>2, RoundTrip
<1>2. QED
  BY InitIInv, NextIInv, <1>1, PTL DEF Spec

\* The other direction fails for every instance (DtoRoundTrip, section 9
\* of the spec): a BurnDto with Some(empty) accounts, as JSON with
\* "accounts": [] deserialises, comes back with the field None.
THEOREM EmptyBecomesAbsent ==
  LET d == [accounts |-> {{}}, nfts |-> None, foundries |-> None,
            nativeTokens |-> None]
  IN  d \in DtoValues /\ BurnToDto(DtoToBurn(d)) # d
<1> DEFINE d == [accounts |-> {{}}, nfts |-> None, foundries |-> None,
                 nativeTokens |-> None]
<1>1. d \in DtoValues
  BY DEF DtoValues, Options, None
<1>2. DtoToBurn(d).accounts = {}
  BY DEF DtoToBurn, OrEmpty, None
<1>3. BurnToDto(DtoToBurn(d)).accounts = None
  BY <1>2 DEF BurnToDto, SomeIfNotEmpty
<1>4. QED
  BY <1>1, <1>3 DEF None
=============================================================================
