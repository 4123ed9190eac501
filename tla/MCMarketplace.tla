---------------------------- MODULE MCMarketplace ----------------------------
(* Values of the constants of Marketplace for TLC.                          *)
EXTENDS MarketplaceRefinement

CONSTANTS alice, bob

ExchangeApproved == Accounts \X {ExchangeAddress}
BobOperates == {<<alice, bob>>}

=============================================================================
