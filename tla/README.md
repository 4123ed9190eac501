# FileMarket: specification, model checking and proofs

FileMarket sells *encrypted file tokens*: ERC721 tokens whose file is encrypted,
so that handing over the token means handing over the file's password as well.
This directory holds TLA+ modules of the contracts that run such a sale, of the
indexer that follows them, of the service that hands out token ids, of the sign-in,
and of the page where a user sells and buys; TLC configurations that check them
on small instances; and proofs, checked by TLAPS, that hold for every instance. The modules follow the Solidity sources in
`sol-contracts/contracts`, the Go sources in `indexer` and `authserver`, and the
TypeScript sources in `packages`; `PROJECT.json` maps each definition to its lines.

## 1. The system

| Component | State it keeps | Operations | Talks to |
|---|---|---|---|
| Collection V2 (`FilemarketCollectionV2.sol`) | owner of each token, approvals, `transfers`, `transferCounts`, royalties, `tokensCount`, timeout, start of sales | mint (three ways), burn, the eight functions of the transfer protocol, setters | calls back the transfer's `callbackReceiver`; calls the fraud decider |
| Exchange V2 (`FilemarketExchangeV2.sol`) | `orders`, `fee`, accumulated fees, whitelist, the buyers' money | place, fulfil, cancel an order; three callbacks; fee withdrawal; setters | drafts, completes and cancels transfers of the collection; pays users |
| Fraud decider (`FraudDeciderWeb2V2.sol`) | `reports` | `decide`, `lateDecision` | called by the collection; calls `applyFraudDecision` |
| Access token, public and FileBunnies collections, like emitter | deployed collections; per-variant minting state | deploy, mint, like | the collections |
| zkSync and V1 contracts | as the V2 contracts | as the V2 contracts | |
| Fraud oracle (`backend`) | last block seen, set of collections | watch blocks, check the evidence, `lateDecision` | chain, Redis, IPFS |
| Indexer (`indexer`) | tokens, transfers, orders and their histories in Postgres; last block in Redis | one handler per event; queries; WebSocket updates | chain, Postgres, Redis, sequencer, clients |
| Token sequencer (`indexer/pkg/sequencer`) | per collection a set of free ids, timers, last id of each wallet | `Acquire`, `Count`, `DeleteTokenID`, release of expired ids | Redis; the indexer deletes minted ids |
| Authentication server (`authserver`) | sign-in messages, numbered pairs of tokens, profiles | message, sign-in, refresh, logout | Postgres |
| Autoseller (`autoseller`) | timers in Redis, a shared nonce | send `approveTransfer` and `finalizeTransfer` for sold tokens | indexer, chain, Redis |
| Cryptography package (`packages/crypto`) | none | derive keys from seed, salt, token and deal number; AES, RSA | frontend |
| Web frontend (`packages/frontend`) | stores for token, deal, blocks, socket and sign-in; seed and tokens in local storage; the salt of a chain | the buttons of a deal, each with reads, a transaction and a handler; key processors; requests | chain, indexer (HTTP, WebSocket), authentication server, wallet |
| Uploader, deployment, configuration | none that matters here | I/O | |

**Hard behaviours.** On the chain, transactions are atomic, and everything hard
is in their *order*: a sale is spread over two contracts that trust each other's
calls, every user may call every function at any time, timeouts hand rights from
one party to another, tokens vanish (burn) and come back (mint) under a running
sale, and settings change in the middle of it. Off the chain the hazards are
crashes between two stores (indexer), several Redis commands per request
(sequencer), concurrent database transactions (authentication), skipped blocks
(oracle) and goroutines sharing a counter (autoseller). In the page, every `await`
is a place where the deal moves on: what was read before it is stale after it, and
answers, messages, receipts and blocks arrive in any order. The most important
hazards, each at its line and with the properties that cover it, are under
`hazards` in `PROJECT.json`.

**What makes each component correct.**

- *Collection*: a token changes hands only to the receiver of its transfer and
  only after the password was published; an open transfer cannot be redirected;
  a reported fraud is ended by the decider alone.
- *Exchange*: it owns what it owes; a sale ends once, with the token and
  the money on different sides; a paid sale does not stay open for ever.
- *Fraud decider*: a verdict concerns the transfer the evidence is about.
- *Indexer*: its tables are those of a run over the chain's events, each once,
  whatever crashes occur, for every token whose mint it has; it reaches the head of the chain.
- *Sequencer*: an id is held by one wallet at a time and does not come back once it is
  minted, as long as no release is cut short; a wallet holds one id.
- *Authentication*: sign-ins on several devices leave each other's sessions alone;
  a page that shows itself signed in is, or notices that it is not.
- *Hidden files*: the key a deal is made with is the key of that deal; whoever was
  given the file's password can open the file later, from the seed alone.
- *Token page*: it offers only what the contracts accept, one task at a time, stops
  waiting, and comes to show what the indexer has.
- *Autoseller*, *oracle*: each sold token is approved and finalized, each report
  answered.

## 2. What is modelled

| Module | Models |
|---|---|
| `Chain` | addresses, token ids, `block.timestamp` |
| `EncryptedFileToken` | the V2 collection |
| `FilemarketExchange` | the V2 exchange, for one collection |
| `FraudDecider` | the deployed decider (answers later), and the instant one the interface foresees |
| `Marketplace` | the three contracts together: each transaction with all the calls it makes; users, properties, fairness |
| `AtomicSale` | what the marketplace promises of a sale, with no protocol in it |
| `MarketplaceRefinement` | the mapping from the contracts' state to the atomic sale |
| `MCMarketplace` | constants for TLC |
| `Sequencer` | the token sequencer: overlapping requests as their Redis commands; crashes and failing commands; the releases of other collections |
| `TokenPool` | what the sequencer promises: ids that are free, held or gone, until a timer is torn from its id |
| `SequencerRefinement` | the mapping from timers and set to the pool |
| `MCSequencer` | symmetry for TLC |
| `Indexer` | the indexer: blocks, the transaction of each, the position, the handlers of all events of a token |
| `BlockView` | what the indexer promises: the answers of one block, then those of the next, until it loses one |
| `HiddenFiles` | the keys and passwords of one token: derivations, the hooks that publish them, the indexer's answer |
| `TokenPage` | the page of one token: stores, requests, WebSocket, buttons |
| `SignIn` | sign-in of one user on several devices: pages and authentication server |
| `MCIndexer`, `MCHiddenFiles`, `MCTokenPage`, `MCSignIn` | model values for TLC |
| `Marketplace_proofs`, `MarketplaceSafety_proofs` | proofs about the contracts: types; safety |
| `MarketplaceRefinement_proofs` | the proof that they implement the atomic sale |
| `HiddenFiles_proofs`, `Indexer_proofs`, `Sequencer_proofs`, `SignIn_proofs`, `TokenPage_proofs` | proofs about the module of the name |

### Contracts

**State.** The variables have the names of the code's: `transfers`, `orders`,
`reports`, `fee`, and so on. `transfers[t]` and `orders[t]` are the structs
without their ids and byte strings; a deleted entry is the empty record, as in
Solidity. `tokenOwner` and `tokenApproved` are the ERC721 state of OpenZeppelin's
contract, whose functions are modelled as external. `balance[c][a]` is what `a`
owns of the currency `c`, native or ERC20; `discounted` records what whitelist discounts have come to.

**Actions.** An operator of `EncryptedFileToken`, `FilemarketExchange` or
`FraudDecider` is one contract function without its calls to other contracts:
its guards are the `require`s, its primed variables the assignments. `Marketplace`
joins them: `FinalizeTx` is `finalizeTransfer` *and* the exchange's
`transferFinished` with its payments. If a conjunct is false the transaction
reverts, and a reverted transaction is no step. `Next` lets every account call
every function with every argument at any time; there is no notion of a correct
user.

**Abstractions.**

- Public keys, passwords and private keys are "set" or "not set". Events, token
  and contract URIs and byte arguments are left out.
- Users are accounts that accept tokens and payments; only the exchange is a
  contract. Hence a callback or a payment never calls back into the contracts.
- An ERC20 allowance is part of `CanPay`: a buyer who pays has allowed it. Both ways
  to buy are payable, so native coin may come along with an ERC20 payment (`Extras`).
- Users do not pay each other, or the exchange, outside of the contracts. Fees are
  withdrawn to users.
- `setApprovalForAll` is the constant `OperatorApprovals`; per-token `approve` is
  an action.
- The mint fee stays at its initial 0. The royalty receiver and the owners of
  the contracts do not change.
- `placeOrderBatch` with one id is `placeOrder`. Its list of ids is a set: with an
  id twice the second `draftTransfer` reverts.
- `finalizeTransferTimeout` is below `block.timestamp`, so that a time stamp of 0
  counts as expired, as it does on any real chain.

### Sequencer

**State.** `free`, `timer` and `lastId` are the three Redis structures of one
collection and suffix; `checkMu` and `checkAge` are the mutex and `lastCheck` of
the `Sequencer` object, one for all collections; `thread[p]` holds the local
variables of a request and the command it is at. A time stamp is its age, counted by
`Tick` up to `Expired`, above every timeout; the stamp 0, by which `Acquire` marks a
timer for the next release, has that age. `minted` and `processed` are the ids on the
chain and those the indexer has passed to `DeleteTokenID`. `torn` is history, see below.

**Actions.** Redis executes one command at a time, so a step is one command, in
the code's order: `Acquire` is `Release`, `LookupLast` (HGET), `AnswerFresh`
(GET), `Release` again for `Count`, `CountFree` (SCARD), `PopRandom` (SPOP),
`Claim` (GET), `SetTimer`, `SetLast`, `ListOld` (KEYS), `ResetOld` (SET per key).
`StartOther` is a request for another collection or suffix (a whitelist answer counts
two suffixes in a row): of it only the release is seen, which takes the mutex and sets
`lastCheck`. `MintOnChain` lets users mint any id, whoever holds it. `main.go` passes
the check interval as switch timeout, hence `SwitchTokenTimeout == CheckInterval`.
`Faults` selects what goes wrong: crashes of the process (Redis keeps its data),
failing commands in `Acquire` and `Count` (with the retry loop of the last part),
in `DeleteTokenID`, and in the release.

**History.** A timer is *torn* from its id (`Tears`) when the SADD and the DEL of a release are
not both done, because of a crash between them or an error of one, or when a SET of
`Acquire` writes a timer again that a release or a deletion has just removed. From then on
the timer says nothing of its id, and the code has nothing that repairs it in time: the
next release of this collection may come long after the next pop.

**Abstractions.** Faults do not undo what was written. Parsing of keys and
values always succeeds. The indexer handles one event at a time.

### Indexer

**State.** `blocks[b]` is the list of logs of block `b`, and `states` what the
contracts hold before the first block and after each; `tables` is what Postgres
holds of the token: its owner, its transfers with their statuses and orders, the
likes. `saved` is the key in Redis, `latest` the variable of `ListenBlockchain`,
`job` the transaction in progress, with the log that is next. `told` is the last
WebSocket message. `skipped` records that a block with logs was passed over; `tied` is part of
the tables: two statuses of a transfer have one time stamp.

**Actions.** The actions under `Chain` mine one call each, with the logs it
emits. `Begin`, one handler per log, `Commit` and `SetLastBlock` are the steps of
`checkSingleBlock`; `Rollback` stands for an error of a handler or of an RPC
call. Two errors do not roll back: `OnCollectionTransfer` may pass the mint over, as it does
when the node does not give the block a second time, and `SkipBlock` passes over a block
that the nodes cannot decode, with all its logs. A failure to save the position is only logged (`SetLastBlock(FALSE)`), as in the
code. Each handler asks `TransferTxExists` and for the token, passes the log over if there is a status of
this transaction or no token, fails without an active transfer or with a tie, and
writes transfer, order and token as the Go function does. `Crash` may happen at
any step, `Start` reads the position again.

**Abstractions.** One token, whose mint is among the blocks that are read, and one transaction per block, sent to a contract of
the marketplace; ties are between statuses of one transaction; `blocks` does not contain reorganisations, as the code has no
notion of one. Left out: burns, moderation, e-mails, the tables for metadata and traits.

### Hidden files

**State.** A key is the record of what it is derived from, a sealed password the
pair of password and key. `deal` is the entry of `transfers`, `count` that of
`transferCounts`. `mined` are the transactions the indexer has not processed,
`row` its last transfer, `password` what `GetTokenEncryptedPassword` finds.
`salt[u]` is `#globalSalt` of a page, `job[u]` what the button at work has read.

**Actions.** A button is cut at each `await` of its hook where the outside may
change: `ReadNumber`, `MakeKey`, `SetPublicKey` for `useSetPublicKey`;
`SealPassword`, `ApproveTransfer` for `useApproveTransfer`; `MakeKeyToBuy`,
`FulfillOrder`; `EncryptFile`, `MintNFT`. `PublishJunk` is a seller who does
without the page, `VisitChain` a token of another chain whose salt the factory
then keeps, `GiveUp` a refused or reverted transaction.

**Abstractions.** Cryptography is symbolic and perfect. Seeds are not lost or
changed. Timeouts may pass at any time.

### Token page

**State.** `chain` is the token on the chain, `row` what the indexer answers,
`mined` what it has still to process; `sent` tells that the message of the
first is out but its block not committed. `shown` are the data of `TransferStore` and
`TokenStore` with the token they are of, `inFlight`, `currentRequest` and
`requestCount` the requests of `storeRequest`, `waiting` the flags
`isWaitingForEvent` and `isWaitingForReciept`, `canContinue` that of `BlockStore`,
`job` the button pressed.

**Actions.** `Press`, `Mine`, `ReceiptArrives` (with the handler `onTransfer...`
of `TransferStore`) and `ActionFails` are the life of a button; `OtherCalls`, `DecideFraud` and
`TimeoutPasses` the rest of the world; `SendMessage` and `Commit` the indexer;
`Reconnect` and `AddConnection` the two steps of a new connection, the greeting
read before the pool knows it. `Navigate` comes from another token's page with
its requests and messages still under way; an open connection sends the old token's messages
(`SendOldMessage`) until the server has read which token it is to send now (`SubscribeTo`).

**Abstractions.** Time is the flag `late`, the same for page and contract.
`isWaitingForSocket` is left out (the module says why). An overlay hides the buttons
while `IsLoading`.

### Sign-in

**State.** `table` is `auth_tokens` for one address: the secret at each number.
`stored[d]` is the local storage of a device, `isAuth` and `known` what a page
shows and what its effect saw last, `request[p]` the request whose answer it
handles and one whose answer it will drop. `overlapped` and `missed` only record
history for the property.

**Actions.** The server's steps are the middleware's check (`Verify`), the
begin of the transaction with what it sees (`Begin`), and its end
(`AuthBySignature`, `RefreshJwtTokens`) or failure (`Refuse`); two
transactions at a time read the same free number and one of them conflicts on the primary
key. A route looks up the secret of its purpose, access or refresh (`Purpose`), and a page sends one
token or the other (`SentToken`): a logout's is the wrong one, so `Refuse` is all that ever comes of it. `Receive` is the callback of each request in `AuthStore`, `Watch` the effect
of `FileWalletConnectWatcher`, `Mount` a reload.

**Abstractions.** The two secrets of a pair are made and deleted together, so that one number stands for both, and a
token of the other purpose is refused by `Accepts`. Messages, signatures and profiles are left out.

## 3. Runs

Each run's module is named in `PROJECT.json`: those of the contracts use
`MCMarketplace`, those named `seq_` use `MCSequencer`, the others the `MC` module
of their name. All runs pass but `seq_liveness`, whose property the code violates. `Spec` is without fairness except in `TokenPage`;
`FairSpec` adds it where liveness is checked. Deadlock is checked in every run.

### Contracts

| Run | Asks | Instance |
|---|---|---|
| `market_protocol` | types, agreement of the contracts, delivery, no redirection, fraud reports | 1 token, 2 users, 2 transfers of it, 2 mints, per-token approvals, an operator, user transfers with and without the exchange as callback receiver, whitelist |
| `market_escrow` | the exchange's money; every transaction is a step of the atomic sale | 2 tokens, batch mint and batch orders, 2 currencies, fee and royalty that do not divide the price, a whitelist discount of one half, native coin that comes along |
| `market_instant` | the atomic sale when the decider answers within `reportFraud` | 1 token; fee, timeout and start of sales change during sales |
| `market_liveness` | a paid sale is settled | 1 token, fair parties |
**The properties.** `OrderMatchesTransfer` is the agreement that the two
contracts keep only by calling each other. `OwnershipMovesByDelivery`
and `TransferRunsForward` are action properties: what no step may do. `ReportIsCurrent` says why a report that is never deleted does no
harm. `EscrowIsBacked` is the balance sheet of the exchange: what it has and what it has granted as discounts cover the
paid sales and the fees; what is left over is coin that came along with an ERC20 payment. `SalesAreAtomic` is
the refinement: hide the protocol, and a sale is *paid* and then in one step
either *delivered* (token to the buyer, price to seller, artist and fees) or
*given back* (price to the buyer).

**Bounds.** `TokensLimit`, `MaxMints`, `MaxTransfers`, `BatchLimit` and `MaxTime`
bound the state. Two transfers of a token are needed for anything an earlier
transfer may leave behind (reports, counts, stamps); two mints for a token that
comes back after a burn; two tokens and two currencies for one sale paid from
another's money; in `market_escrow` a token has one transfer and the timeout is 0, because its questions are
about money only. A discount of one half leaves the exchange, after one purchase, unable to settle until
another buyer's money is there, and `Funds` of 8 pays a price of 7 once, or 4 twice. A transfer has at most two timers; `TimerFits` starts one only
when it can still expire before `MaxTime`, so that no behaviour is cut in the
middle of a timeout. Nothing else compares two users by name, so two users
(one of them owner of the contracts) give every relation among seller, buyer,
owner, operator and stranger that the guards distinguish, with the exchange as
the third address.

**Fairness.** `Fairness` assumes what the parties do in their own interest once
waiting is over: time passes; the buyer cancels when no password came in time;
the sender finalizes when the buyer did not; the decider answers a report it has
got. Each is weak fairness of one transaction that the party can always send.
Nothing is assumed of the seller before the password, nor of a buyer before the
timeout. The oracle behind the decider can miss a report (see `hazards`), so the
last assumption is one on the deployment and not a consequence of its code; the
property is about the contracts. `PaidSaleSettles` excepts a burnt token, whose
sale the code does not settle (see the divergences below).

### Sequencer

| Run | Asks | Instance |
|---|---|---|
| `seq_pool` | the pool; popped ids have no live timer and are in one hand | 2 requests at a time, 2 wallets, one of which may ask twice at a time, 1 id, requests for other collections, all faults |
| `seq_failures` | types; a wallet keeps one id | 1 request at a time, 1 wallet, 2 ids, all faults |
| `seq_liveness` | *violated*: a stamped timer ends | 2 requests at a time, 1 wallet, 2 ids, no faults, fair |

The three structures, changed by separate commands of requests that overlap, are a pool that gives each id to one
wallet, loses ids but never doubles them, as long as no timer is torn from its id. No longer than that:
since every collection's release sets `lastCheck`, the repetition of a release that was
cut short may come after an id was popped that is free *and* kept.

**The properties.** `IdsArePooled` is the refinement of `TokenPool`. `PoppedIsUntimed` is about what the code says
"shouldn't happen": a popped id whose timer exists. It happens, when a wallet takes an id while
a release is between adding it to the set and deleting this wallet's timer; the property says that this is the only
way, and that no id is in two hands. `WalletKeepsOne` must hold in spite of all faults, and of timers that requests
with errors left behind; it is about wallets that ask once at a time. `StampedTimersEnd` is
liveness across requests, stated as the code's comment states it ("Will 'expire' on the next
cycle"), and false: see the divergences.

**Bounds.** One id and two wallets suffice for an id that changes hands, two requests for every race
of two commands. TTL and check interval of 0 still tell a timer just set from one to be released; one tick makes it old.
`WalletKeepsOne` relates the timers of one wallet, so one wallet, two ids and one
request at a time are enough for what earlier ones left; there timeouts of one tick give timers that are
fresh, old enough for another id, and expired, in every relation to the last check.

**Fairness.** `Fairness` lets time pass, every request under way execute its next
command (goroutines are scheduled, Redis answers), and every thread begin another
`Acquire` whenever it is idle. The last is a demand on the users, as the code has no
clock of its own. The timer is kept all the same.

### Indexer

| Run | Asks | Instance |
|---|---|---|
| `indexer` | tables of one block, no lost like, current messages, refinement of `BlockView`, catching up | 2 users, 1 minter, 6 blocks, one of them empty or a like |

`TablesAreOfOneBlock` and `FollowsTheChain` are the promise of an indexer that may
die between two stores: whatever it reads again changes nothing. `View(tables)`
is computed as the queries compute it (last status of a transfer, the
active one, the last order), so duplicated rows that no query shows would not
count, and those that do show are found. Likes are outside of it: they may be
counted twice after a crash, and `LikesAreNotLost` is what remains. `ToldIsCurrent`
says that messages sent before a commit that failed do no lasting harm.

The code drops logs on purpose or by mistake, and each property says what is left then. A mint that was
passed over leaves a token the tables do not know: they have nothing of it, for good or until the mint is read again, but never half of a
deal. After a block with logs was passed over (`skipped`) nothing is promised. With a tie the
block is retried for ever; the tables stay those of the block before, and only `CatchesUp` excepts it.

*Bounds.* Six blocks hold a mint, a whole deal by draft or by transfer (at most
four blocks) and the start of the next, so that a handler may confuse two deals. Only one user mints: users are
compared for equality only. `Undecodable` is one late block, with a deal before and after it. `MaxUnsaved` lets Redis be two blocks behind, enough to read again
a block whose successor is committed. *Fairness:* `Start`, `Begin`, `Commit`, the
handlers and a successful `SetLastBlock` are strongly fair (`Start` weakly): errors and crashes are
not for ever at the same step. The code retries without limit, so nothing else is needed.

### Hidden files

| Run | Asks | Instance |
|---|---|---|
| `hidden_files` | keys of their own deal; what was delivered is readable | 3 users, 1 of them dishonest, 2 chains, 2 deals, 2 unprocessed transactions |

`TransferKeyIsItsOwn` relates the two readings of `transferCounts` in one button,
the restart of the deal between them and the contract's question for the number.
`DeliveredIsReadable` goes through all of it, from sale to resale: the minter's page derives the file's password, a
later seller's opens the one it was given with a key derived anew, for the number the indexer answers; each
seals it for the key in the indexer's row, and publishes it to whatever deal is open by then. The property
asks when a deal has just made somebody the owner, and its conclusion is about the whole chain of
sales: a page that seals anything but the minter's password, in whichever sale, breaks it (see the mutant), and
so does one that derives the wrong key. It excepts what the divergences below describe: junk, a password sealed for another deal's
key, a key made for another deal, and a salt of another chain.

*Bounds.* Two deals and three users: the minter sells to one user, and that one to the other; or a deal is cancelled first. A lag of two transactions makes the row one whole button behind.

### Token page

| Run | Asks | Instance |
|---|---|---|
| `token_page` | one task at a time; buttons against guards; answers of this token | both users may own the token; sale and transfer; from another token's page |
| `page_liveness` | waiting ends; the page catches up | the other user owns the token and sells it; the page is opened at once |

`OfferedIsAccepted` compares `status.ts`, written for owner and buyer apart, with the
guards of the contracts in every state of every deal, before and after timeouts; it
is about a page that is up to date, since no page can help being late. `ButtonsWait`
must hold over three flags set by four sources. `LoadingEnds` is what a user sees
when a message is lost. `PageCatchesUp`: if the connection is renewed again and
again, the page shows the indexer's state in the end, whatever was guessed
from a receipt or came late. It has this premise because nothing else corrects a page: the store
asks once, and a message is sent once.

*Bounds.* One deal, one message on its way, one unprocessed transaction and two requests per store give
every order of answer, message, receipt and block. In `page_liveness` the token is the other account's and its page is opened at
once: the handlers of the buyer are exercised there and not those of the owner, and messages of another token not at all. *Fairness*, part of `Spec`: servers
answer, the indexer goes on, the wallet and the node answer or refuse, blocks are
seen; a message is received if the connection is open often enough (strong
fairness, as a connection may break just before). Nothing is assumed of
the users.

### Sign-in

| Run | Asks | Instance |
|---|---|---|
| `sign_in` | a shown session has a pair; no device ends another's session; a dead session ends | 2 devices with 1 page each, one of them loaded anew, 2 pairs, 2 requests that users start |

`SessionIsLive` is about a device that does not overlap its own requests, whatever the others do. With overlapping requests of
its own it may lose its session: two refreshes verified one after the other replace each other's pair, or a refresh is
answered after the logout. Its logouts could not end another's: the server refuses them all.
`ShownIsHeld` is about devices with one page: with two tabs, one clears the
tokens that the other still shows. `DeadSessionEnds` bounds the harm of all this.

*Bounds.* Two pairs are one for each device, or one that is replaced once. Since no logout
takes a pair away, a number is never given twice. *Fairness:* requests are answered or fail, effects run, time passes.

### Known divergences

Where the code does not do what a comment, an interface or the README says, the modules
follow the code and the properties are stated so as to hold of it. TLC gives a trace
for those marked (T) when the condition named is dropped. `README.md` is that of the repository.

- (T) A paid order of a burnt token cannot be cancelled by the buyer
  (`FilemarketCollectionV2.sol:401`, `:221`, against
  `IEncryptedFileTokenUpgradeableV2.sol:174`): `cancelTransfer` asks `ownerOf` first.
  `PaidSaleSettles` excepts burnt tokens.
- (T) A draft completed for the zero address stays a draft and can be completed again,
  with another key, after the password was sealed for the first (`:278`, against
  interface `:99`). `TransferRunsForward` speaks of transfers that have a receiver.
- The whitelist discount lowers what is taken from the buyer and not what is paid
  out (`FilemarketExchangeV2.sol:127`, `:163`, against `README.md:16`, `:22`): the exchange pays the difference from other
  buyers' money or, without any, cannot settle. `EscrowIsBacked` counts the discounts; `market_liveness` has none.
- Native coin that comes along with an ERC20 purchase (`:94`, `:100`) stays in the exchange and is nobody's: `EscrowIsBacked` is
  an inequality.
- `initTransfer` does not look at `salesStartTimestamp` (interface `:73`); the receiver may
  cancel a transfer whose key was never set, since a stamp of 0 counts as expired (`:174`);
  and when an operator opened the transfer by `initTransfer`, the operator and not the
  holder is the sender who may finalize it (`:138`).
- (T) A timer set to 0 "Will 'expire' on the next cycle" (`sequencer.go:122`). It need not: `lastCheck` (`:32`, `:242`, `:282`) is
  set by the releases of all collections and suffixes, and those of others can put this one's off for ever. This is the finding of `seq_liveness`.
- (T) `popRandom` returns an id whose timer exists, which the log at `:93` says "shouldn't happen": a wallet takes an id between the SADD and the DEL of its
  release (`:271`), is answered an error, and the id is lost.
- (T) After a release that was cut short there (`torn`), or one that runs into `DeleteTokenID`, an id can go to two wallets, and
  a minted one is handed out again.
- `switchTokenTimeout` of the configuration is never used (`indexer` `main.go:78`).
- (T) A holder can be locked out of his file (`README.md:24`). A buyer's page makes the key
  for deal 1, the seller relists, `fulfillOrder` takes the key for deal 2 without asking
  the number (`useFulfillOrder.ts:47`): the seller's password is sealed for a key the buyer's
  page will not derive again. A key made with the kept salt of another chain has the same fate
  (`HiddenFileProcessorFactory.ts:37`). And the password of a later deal that was cancelled or judged a fraud replaces
  the one the holder bought (`indexer/internal/repository/transfers.go:791`). A seller whose page shows an
  old row seals the password for the key of a deal that is over (`useApproveTransfer.ts:37`), and the contract takes it.
- A token whose mint is read while the node does not give the block a second time is never known to the indexer: the error is dropped
  and the block committed (`service.go:699`, `:753`). A block that no node decodes is passed over, logs or not (`:1567`).
  And two statuses of a transfer in one millisecond stop the indexer for ever (`transfers.go:658`).
- A page that logs out sends its access token (`AuthStore.ts:83`) to a route that asks for the refresh token
  (`authserver` `handler.go:35`; `auth.go:272`, `:284`): the server refuses, the page ignores it, and the pair lives until it is old.
- The page of a token shows the finished transfer after a decided fraud, though the store "stores only
  ACTIVE" ones (`TransferStore.ts:15`, `contract_events.go:983`).

## 4. Proofs

| Module | Theorem | States |
|---|---|---|
| `Marketplace_proofs` | `TypeCorrect` | `TypeOK` |
| `MarketplaceSafety_proofs` | `OrdersMatchTransfers` | `OrderMatchesTransfer` |
| | `ReportsAreCurrent` | `ReportIsCurrent` |
| | `DeliveryMovesOwnership` | `OwnershipMovesByDelivery` |
| | `TransfersRunForward` | `TransferRunsForward` |
| `MarketplaceRefinement_proofs` | `ContractsSellAtomically` | `SalesAreAtomic` |
| | `EscrowBacked` | `EscrowIsBacked` |
| `HiddenFiles_proofs` | `TypeCorrect` | `TypeOK` |
| | `TransferKeysAreOwn` | `TransferKeyIsItsOwn` |
| | `DeliveredFilesAreReadable` | `DeliveredIsReadable` |
| `Sequencer_proofs` | `TypeCorrect` | `TypeOK` |
| | `WalletsKeepOne` | `WalletKeepsOne` |
| | `PoppedAreUntimed` | `PoppedIsUntimed` |
| | `IdsStayPooled` | `IdsArePooled` |
| `SignIn_proofs` | `TypeCorrect` | `TypeOK` |
| | `PagesShowWhatTheyHold` | `ShownIsHeld` |
| | `SessionsAreLive` | `SessionIsLive` |
| `TokenPage_proofs` | `TypeCorrect` | `TypeOK` |
| | `ButtonsDoWait` | `ButtonsWait` |
| | `AnswersAreOfThisToken` | `AnswerIsOfThisToken` |
| | `OffersAreAccepted` | `OfferedIsAccepted` |
| `Indexer_proofs` | `TypeCorrect` | `TypeOK` |
| | `OneBlock` | `TablesAreOfOneBlock` |
| | `EveryLikeCounts` | `LikesAreNotLost` |
| | `PagesAreCurrent` | `ToldIsCurrent` |
| | `Refinement` | `FollowsTheChain` |

Each holds for every value of the constants that satisfies the assumptions the modules name: addresses
are distinct from the zero address, prices are positive, timeouts are below the
time, bounds are positive, and `Nothing` (`NothingAssumption`) is none of the
values it is told apart from. TLC evaluates these assumptions in every run. Every invariant
below was given to TLC, on the instance of its run, before it was proved.

### Contracts

`TypeOK` is inductive by itself because `Order` says more than the struct: an
order is empty, or open without a receiver, or fulfilled with one; without that,
a refund might go to the zero address. The part that is arithmetic is in
`CutIsPart` (a rate of at most 100% takes at most the whole) and
`PayKeepsBalances` (a payment that is covered leaves naturals); `PayOffTypes` uses
them for the two payments of a settlement. The rest is one lemma per function,
one per group of transactions, and their combination in `NextTypes`.

The other four share one case analysis. Seen from a single token, each of the
some thirty transactions does one of seven things: nothing (`Rests`), open a
transfer (`Opens`, `Offers`), take it one stage on (`Advances`, `Buys`, `Accuses`)
or end it (`Ends`). `EveryStepHasEffect` proves that, one lemma per group of
transactions; each property is then seven cases. `OrderMatchesTransfer` is
inductive relative to `TypeOK`. The three others need `StagesInOrder`: there is a
password only for a key, and a fraud report only for a password and a receiver.
Without it a transfer reported before its password could move a token
undelivered.

`ContractsSellAtomically` needs no other invariant than `TypeOK` and
`OrderMatchesTransfer`: the second says that the order a callback settles is the
one the abstract sale has. One lemma takes each abstract action (`ListStep`, `BuyStep`,
`RefundStep`, `CancelStep`, `DeliverStep`, `CollectStep`, `MakeStep`), and the lemmas named `...Refines` say which
transaction performs which. The arithmetic is that of `PaidOut`: royalty and fee,
each at most half (`CutIsHalf`), and the rest add up to the price. A discount is no obstacle, as the abstract sale lets
those who are favoured pay any part of the price: what the promise leaves open is who bears the difference.

`EscrowBacked` is inductive once each escrow is known to be finite (`Backed`). Escrow is
defined coin by coin, as the cardinality of a set, and not as a sum over the orders: a sale that is
paid adds the coins of its order to the set (`CoinsComeIn`) and one that ends takes
them out (`CoinsGoOut`), so that no induction over the tokens is needed. The discount of a sale is on the other side of the inequality, like the buyer's payment. `TakeKeepsBacked`,
`RefundKeepsBacked`, `PayOffKeepsBacked` and `WithdrawKeepsBacked` set against that what is paid;
all other transactions touch neither (`EscrowUntouched`).

### Hidden files

The inductive invariant `IInv` adds to the types, and to `TransferKeyIsItsOwn`
itself: the open deal is the last that was counted (`DealIsLast`); of the two readings of the number
in one button the second is not the smaller, and both are at most the count
(`NumbersWereRead`), so that the contract's question for the number closes the gap between
them; the indexer's rows have the key or the password that their status claims
(`RowsAreFull`), and it answers a finished deal's own password (`FinishedIsAnswered`).

`DeliveredFilesAreReadable` needs a second invariant, `Origins`, where everything comes from: every password that was sealed, is being sealed or is
answered by the indexer is the minter's (or junk), and every key is one of the receiver's (`IsMinters`, `IsReceivers`, `IsUsers`). Its
inductive step is the resale: what a page seals it has opened (`OpenedIsMinters`) with the key of a user, so that a password is
handed on unchanged through any number of sales. One lemma takes each kind of step, as above: a page that works (`WorkIsOwn`), a transaction (`TransactIsOwn`), the
indexer (`IndexIsOwn`).

### Sequencer

The proofs take any number of threads, and assume nothing of what fails.

`WalletsKeepOne`: `KeepInv` says that a wallet that asks once at a time has one request that sets its timers (`OneForEach`), and that
while the old ones are being reset, those that still count are listed to be reset (`OldAreListed`).
Crashes, releases and deletions only take from the timers that count (`NoneAnew`).

The other two share `PoolInv`, which holds until a timer is torn: each id has at most one *live* timer, one that no release is about to
delete (`OneTimerEach`); an id with such a timer is neither in the set nor on its way to or from it (`TimedAreApart`); an id that was
popped is in one hand and not in the set (`InHandAreApart`), nor is it one a release is about to add (`AddedAreApart`). Live timers are the
point: between SADD and DEL an id has a timer *and* is free, and the next wallet may already have another timer for it; what makes the
timer dead is that the release that will delete it is under way, and that is one because of the mutex (`MutexInv`). `Effects` sums up the commands of
all requests by what they do to ids, in the manner of `EveryStepHasEffect` above; `EffectKeepsPool` and
`EffectRefines` are then one case for each. The holder of an id is read from its live timers (`HolderOf`, `Holders`).

### Sign-in

`PagesShowWhatTheyHold`: a device's only page that awaits the check of its
pair holds one, and does not show itself signed in before it has it (`Shown`).
`SessionsAreLive` rests on `SessionInv`: the pairs that different devices store, send or are sent have different numbers, which are taken
(`NumbersAreOwn`). That holds of all devices, also of those that overlap their requests, because no logout frees a number; hence no transaction
of one device touches the row of another. And for each device that has not overlapped its requests: it has one request at a time (`Single`), what a
refresh has verified and read is still in the table, and so is the pair of an answer under way (`Sound`); and what it
stores is accepted, or its replacement is on its way (`Session`).

### Token page

The types carry the order of a deal's statuses (`GoodDeals`): each occurs once, after
those whose calls come first. That is what `OffersAreAccepted` needs, which is otherwise a comparison of
two tables of guards, status by status. `ButtonsDoWait` rests on `WaitInv` (a job means that its
receipt is waited for). `AnswersAreOfThisToken` rests on `CountInv`: numbers of
requests are given once per store and the one a store awaits is of its page's token. It needs `TypeInv` for the case
where the page changes: the old page has sent at most one request, so the new page's number is above it.

### Indexer

The invariant `IInv` has two halves. `History` is about the chain: the logs of each block,
handled one by one (`After`), lead from the contracts' state before it to the one after it (`Leads`), and
each is a log the contracts may emit there (`Can`); and there is one mint (`MintedOnce`). The other is about the
indexer, unless a block with logs was passed over: either `Stood` or `Missed`. `Stood`: for some block `b`
not before the position,

- the tables answer like the state after `b` (`Stands`), and have a row for each log
  up to `b` and for no later one (`Knows`);
- a transaction of block `b + 1` has the tables and the message after its first logs (`WorkStands`), one
  of an earlier block, which is read again, still the tables of `b` (`RereadStands`), and after the
  commit of block `b + 1` the tables stand at `b + 1`;
- the last message is of `b`, unless block `b + 1` sends one of its own.

`Knows` makes replay harmless: a log read again finds its row (or the owner it minted to), so
its handler does nothing (`KnownAgain`), while a log that is new finds none, because the two logs of one transaction never
give the same status (`NextIsFresh`); then `FreshHandled`, one lemma per kind of handler, says that it does to the
tables what the contracts did to the token. Likes have no row: for them
`LikesGrow` says that counting one again errs on the safe side only.

`Missed`: the mint was passed over in a block up to the one at work, and tables and transaction have nothing of the token; so every
handler but that of the mint passes its log over, and the mint can only be met again by reading from before it,
which leads back to `Stood`. A tie changes nothing of this: it disables handlers. The refinement is then
a step of `BlockView` for a block of the chain, one for the commit of a new block (`CommitMoves`), and a
stutter for everything else.

### What stays with TLC

- Liveness: `PaidSaleSettles`, `LoadingEnds`, `PageCatchesUp`, `CatchesUp`,
  `DeadSessionEnds`. It needs fairness and `ENABLED`.

## 5. Plan

Modelled and proved as planned: contracts, sequencer, indexer, hidden files, token
page, sign-in. What is left is below.

**Not modelled, and why.**

- The *fraud oracle* and the *autoseller*: an oracle that answers is an assumption of
  `market_liveness`; the autoseller sends transactions any user may send. Their own
  hazards (skipped blocks, a shared nonce) are in the list.
- The *variants* of the contracts (public collection, FileBunnies, zkSync, V1), the access
  token, `scripts` of `sol-contracts`: they repeat the transfer protocol or
  have none.
- *Receivers that refuse payments*, and contracts as users.
- The *locks of the WebSocket pool*, RPC fail-over, rate caches: their failures are steps that fail.
- *Frontend*: layout, styles, icons, static tables, forms, lists and dialogs. They are
  most of the TypeScript sources by lines and keep no protocol state, so the share of these lines
  that the map covers is small, although every store, hook and component that takes part in a deal, in its
  keys and in the sign-in is mapped. Of these, left out are `useFileBunniesMint`,
  `DialogStore`, and the profile.
- *Several tabs* on one local storage (`SignIn` can be given two pages per device; the
  properties then do not hold), a change of account under an open dialog.
- Uploads, e-mails, deployment: I/O.
