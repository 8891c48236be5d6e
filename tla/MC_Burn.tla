-------------------------------- MODULE MC_Burn --------------------------------
EXTENDS Burn

CONSTANTS acc1, nft1, fdy1, tok1, tok2

MC_AccountIds == {acc1}
MC_NftIds == {nft1}
MC_FoundryIds == {fdy1}
MC_TokenIds == {tok1, tok2}
=============================================================================
