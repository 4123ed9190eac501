-------------------------------- MODULE Chain --------------------------------
(***************************************************************************)
(* What the contracts share: addresses, token ids and block.timestamp.     *)
(* Transactions are atomic and run one after the other; between two of     *)
(* them time may pass.                                                     *)
(***************************************************************************)
EXTENDS Naturals

CONSTANTS
    Accounts,                  \* addresses of users
    ExchangeAddress,           \* address of the exchange contract
    NoAddress,                 \* address(0)
    TokensLimit,               \* tokensLimit of the collection
    StartTime, MaxTime         \* bounds of block.timestamp

Tokens == 0 .. TokensLimit - 1
Addresses == Accounts \cup {ExchangeAddress}
Times == StartTime .. MaxTime

ASSUME AddressAssumption ==
    /\ NoAddress \notin Addresses
    /\ ExchangeAddress \notin Accounts

\* block.timestamp is years past 0, the value of a stamp that was never set.
ASSUME ChainAssumption ==
    /\ TokensLimit \in Nat
    /\ StartTime \in Nat \ {0}
    /\ MaxTime \in Nat
    /\ StartTime <= MaxTime

VARIABLE now                   \* block.timestamp

Tick == now < MaxTime /\ now' = now + 1

=============================================================================
