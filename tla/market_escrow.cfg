SPECIFICATION Spec

CONSTANTS
    alice = alice
    bob = bob
    Accounts = {alice, bob}
    ExchangeAddress = exchange
    NoAddress = none
    TokensLimit = 2
    StartTime = 2
    MaxTime = 3
    CollectionOwner = alice
    OperatorApprovals <- ExchangeApproved
    FraudLateDecisionEnabled = TRUE
    Royalties = {2000}
    InitialTimeout = 0
    Timeouts = {}
    SalesStarts = {}
    MaxMints = 2
    MaxTransfers = 1
    ExchangeOwner = alice
    RoyaltyReceiver = alice
    Currencies = {eth, usdc}
    NativeCoin = eth
    Extras = {0, 1}
    Prices = {7}
    Fees = {2000}
    Deadlines = {3}
    Discounts = {5000}
    Whitelisted = {bob}
    Funds = 8
    InstantDecider = FALSE
    Approvable = {}
    Callbacks = {}
    BatchLimit = 2

INVARIANTS
    EscrowIsBacked

PROPERTIES
    SalesAreAtomic
