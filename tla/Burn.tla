--------------------------------- MODULE Burn ---------------------------------
(***************************************************************************)
(* Burn and BurnDto (sdk/src/client/api/block_builder/input_selection/    *)
(* burn.rs).                                                               *)
(*                                                                         *)
(* A Burn names what a transaction destroys: sets of account, NFT and     *)
(* foundry ids and a map token id -> amount.  It is built by a chain of   *)
(* add_* and set_* calls from new() or from one id; it travels to and     *)
(* from the bindings as a BurnDto whose fields are Options, None being    *)
(* left out of the JSON.                                                   *)
(*                                                                         *)
(* The state is the Burn a caller holds, the BurnDto at hand, and where   *)
(* that DTO came from: serialised from a Burn, or deserialised from JSON  *)
(* a binding sent (None).  A token amount is a member of a small set; the *)
(* u256 arithmetic is not used by this code.                               *)
(***************************************************************************)
EXTENDS FiniteSets

CONSTANTS
  AccountIds,    \* AccountId
  NftIds,        \* NftId
  FoundryIds,    \* FoundryId
  TokenIds,      \* TokenId
  TokenAmounts   \* U256 amounts

\* BTreeMap<TokenId, U256>: a function from a set of token ids.
TokenMaps == UNION {[D -> TokenAmounts] : D \in SUBSET TokenIds}

\* Option<T>: None is {}, Some(x) is {x}.
None == {}
Options(T) == {None} \cup {{x} : x \in T}

BurnValues ==
  [accounts: SUBSET AccountIds, nfts: SUBSET NftIds,
   foundries: SUBSET FoundryIds, nativeTokens: TokenMaps]

DtoValues ==
  [accounts: Options(SUBSET AccountIds), nfts: Options(SUBSET NftIds),
   foundries: Options(SUBSET FoundryIds), nativeTokens: Options(TokenMaps)]

VARIABLES
  burn,     \* the Burn the caller holds
  dto,      \* the BurnDto at hand
  origin    \* Some(the Burn dto was serialised from), None if it came as JSON

vars == <<burn, dto, origin>>

-----------------------------------------------------------------------------
(* The conversions                                                         *)

\* Burn::new(), Burn::default()
EmptyBurn ==
  [accounts |-> {}, nfts |-> {}, foundries |-> {}, nativeTokens |-> <<>>]

\* (!x.is_empty()).then_some(x)
SomeIfNotEmpty(x, empty) == IF x = empty THEN None ELSE {x}

\* Mutant: the foundries field copied from the NFTs.
BurnToDtoCopiedField(b) ==
  [accounts |-> SomeIfNotEmpty(b.accounts, {}), nfts |-> SomeIfNotEmpty(b.nfts, {}),
   foundries |-> SomeIfNotEmpty(b.nfts, {}),
   nativeTokens |-> SomeIfNotEmpty(b.nativeTokens, <<>>)]

\* impl From<&Burn> for BurnDto: an empty collection becomes None.
BurnToDto(b) ==
  [accounts |-> SomeIfNotEmpty(b.accounts, {}), nfts |-> SomeIfNotEmpty(b.nfts, {}),
   foundries |-> SomeIfNotEmpty(b.foundries, {}),
   nativeTokens |-> SomeIfNotEmpty(b.nativeTokens, <<>>)]

\* Option::unwrap_or_default
OrEmpty(x, empty) == IF x = None THEN empty ELSE CHOOSE v \in x : TRUE

\* impl From<BurnDto> for Burn: None becomes the empty collection.
DtoToBurn(d) ==
  [accounts |-> OrEmpty(d.accounts, {}), nfts |-> OrEmpty(d.nfts, {}),
   foundries |-> OrEmpty(d.foundries, {}),
   nativeTokens |-> OrEmpty(d.nativeTokens, <<>>)]

\* BTreeMap::insert: a new entry, or the old amount replaced.
Insert(m, k, v) == [x \in DOMAIN m \cup {k} |-> IF x = k THEN v ELSE m[x]]

-----------------------------------------------------------------------------
(* The builder                                                             *)

Init ==
  /\ burn = EmptyBurn
  /\ dto = BurnToDto(EmptyBurn)
  /\ origin = {EmptyBurn}

\* The builder calls keep the DTO at hand.
Build(b) == burn' = b /\ UNCHANGED <<dto, origin>>

\* Burn::new(), and From<FoundryId>, From<AccountId>, From<NftId>,
\* From<NativeToken>: new() followed by one add_*.
New ==
  \/ Build(EmptyBurn)
  \/ \E f \in FoundryIds : Build([EmptyBurn EXCEPT !.foundries = {f}])
  \/ \E a \in AccountIds : Build([EmptyBurn EXCEPT !.accounts = {a}])
  \/ \E n \in NftIds : Build([EmptyBurn EXCEPT !.nfts = {n}])
  \/ \E t \in TokenIds, x \in TokenAmounts :
       Build([EmptyBurn EXCEPT !.nativeTokens = Insert(<<>>, t, x)])

AddAccount == \E a \in AccountIds :
                Build([burn EXCEPT !.accounts = @ \cup {a}])
SetAccounts == \E S \in SUBSET AccountIds : Build([burn EXCEPT !.accounts = S])
AddNft == \E n \in NftIds : Build([burn EXCEPT !.nfts = @ \cup {n}])
SetNfts == \E S \in SUBSET NftIds : Build([burn EXCEPT !.nfts = S])
AddFoundry == \E f \in FoundryIds :
                Build([burn EXCEPT !.foundries = @ \cup {f}])
SetFoundries == \E S \in SUBSET FoundryIds :
                  Build([burn EXCEPT !.foundries = S])
AddNativeToken ==
  \E t \in TokenIds, x \in TokenAmounts :
    Build([burn EXCEPT !.nativeTokens = Insert(@, t, x)])
\* set_native_tokens collects a HashMap, which has one amount per token.
SetNativeTokens ==
  \E m \in TokenMaps : Build([burn EXCEPT !.nativeTokens = m])

\* BurnDto::from(&burn)
Serialize ==
  /\ dto' = BurnToDto(burn)
  /\ origin' = {burn}
  /\ UNCHANGED burn

\* A BurnDto deserialised from a binding's JSON: a missing field is None,
\* an empty list or object is Some(empty).
Receive ==
  /\ dto' \in DtoValues
  /\ origin' = None
  /\ UNCHANGED burn

\* Burn::from(dto)
Deserialize ==
  /\ burn' = DtoToBurn(dto)
  /\ UNCHANGED <<dto, origin>>

Next ==
  \/ New \/ AddAccount \/ SetAccounts \/ AddNft \/ SetNfts
  \/ AddFoundry \/ SetFoundries \/ AddNativeToken \/ SetNativeTokens
  \/ Serialize \/ Receive \/ Deserialize

Spec == Init /\ [][Next]_vars

-----------------------------------------------------------------------------
(* Properties                                                              *)

TypeOK ==
  /\ burn \in BurnValues
  /\ dto \in DtoValues
  /\ origin \in Options(BurnValues)

\* What the bindings rely on: a Burn sent as a BurnDto and read back is the
\* same Burn, for every chain of builder calls (From<&Burn> for BurnDto
\* followed by From<BurnDto> for Burn).
BurnRoundTrip == \A b \in origin : DtoToBurn(dto) = b

\* The spec (section 9): the DTO keeps "absent" distinct from "empty", and
\* a round trip must preserve the distinction: a BurnDto read from JSON,
\* converted to a Burn and back, is the same BurnDto.
DtoRoundTrip == origin = None => BurnToDto(DtoToBurn(dto)) = dto

=============================================================================
