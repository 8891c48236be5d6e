CONSTANTS
  acc1 = acc1
  nft1 = nft1
  fdy1 = fdy1
  tok1 = tok1
  tok2 = tok2
  AccountIds <- MC_AccountIds
  NftIds <- MC_NftIds
  FoundryIds <- MC_FoundryIds
  TokenIds <- MC_TokenIds
  TokenAmounts = {1, 2}
SPECIFICATION Spec
INVARIANTS
  BurnRoundTrip
