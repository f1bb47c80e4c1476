# Phronesis in TLA+

Phronesis is an autonomous prediction-market fund: investors buy shares of a fund
contract, a cognitive pipeline turns market data into trade intents, and an execution
layer checks those against a session policy and posts them as orders, directly or
through a bridge contract on another chain. This directory holds TLA+ models of the
parts of that system whose correctness depends on interleavings, failures and
arithmetic, TLC configurations that check them on small instances, and TLAPS proofs of
the results that hold for every instance.

Paths below are relative to the repository root.

## 1. Inventory

### 1.1 Contracts (Solidity)

| Part | State | Operations | What makes it hard | What makes it correct |
|---|---|---|---|---|
| Fund capital, `contracts/PhronesisFund.sol` | `navPerShare`, `totalAssets`, allow-list, decimals and own ledger per stablecoin, the coin and tokens really held | `deposit`, `redeem`, `depositERC20`, `redeemERC20`, `updateNav`, `setStablecoinAllowed`, `receive` | one total over several currencies, two roundings, three scales, owner changes in between | ledgers are covered by holdings, rounding never favours the investor, the cap holds |
| Shares, `contracts/PhronesisShare.sol` | `totalSupply`, `balanceOf`, `allowance` | `mint`, `burn` (fund only), `approve`, `transfer`, `transferFrom` | self-transfers, delegated transfers | shares are conserved |
| Agent token, the rest of `PhronesisFund.sol` | `fundOwner`, `_tokens`, `_sealedKeys`, `executorAuth`, `investorAuth` | `initialize`, `setMetadata`, `rotateMetadata`, `transfer`, `clone`, `authorizeUsage` (two), `revokeUsage` | what a transfer takes along and what it leaves behind | only the owner's grants are in force |
| Oracle, `contracts/PhronesisOracle.sol` | registered proofs, owner | `registerProof`, `registerTransferProof`, `verify...`, `transferOwnership` | proofs are never used up | a proof authorises one transfer |
| Execution policy, `contracts/ExecutionPolicy.sol` | the policy record, allow-list | `updatePolicy`, setters, `setPaused`, `isOrderAllowed` | read by off-chain code at a time of its choosing | an order allowed off chain is allowed on chain |
| Intent bridge, `contracts/IntentBridge.sol` | `relayers`, `intents`, `intentCount` | `setRelayer`, `submitIntent`, `markExecuted` | concurrent submissions, rights revoked in between | an intent is registered once and executed once |
| Memoria registry, `contracts/MemoriaRegistry.sol` | `agent`, `roots` | `setAgent`, `updateRoot` | several writers of audit records | roots are never lost |

### 1.2 Processes (TypeScript, `packages/`)

| Part | State | Operations | What makes it hard | What makes it correct |
|---|---|---|---|---|
| Order relaying, `execution/src/relayer`, `policy`, `polymarket` | the session policy file, `daily-spend.json`, the exchange's orders | `relayIntents` = load and merge policy, validate, build, post, record | several processes over one file, answers lost between post and record, midnight, expiry, an unreachable policy contract | daily cap, expiry and pause are respected |
| Scheduler, command line, session rotation, `execution/src` | none beyond the files above | one relay per interval or per call; new session policy | read the ledger at different moments | as above |
| Fill tracking, `execution/src/polymarket/fill-tracker.ts`, `user-ws.ts` | fills collected from a websocket, REST and simulation | `trackFills` and its merges | positional matching, three sources | a fill is an order's own |
| Cross-chain relayer, `relayer/src` | none of its own; the bridge's and the exchange's | `relayCrossChainIntents`: submit, order, mark | every await may fail after its effect | at most one order per intent; reports are true |
| Fund daemon, `daemon/src` | none beyond the above | `runFundCycle`: status, cycle, direct relay, cross-chain relay, anchor, rebalance | two relays of one intent in one cycle | an intent is ordered once per cycle |
| Cognitive pipeline, `tee-core/src` | none; one call per cycle | filter, rank, size (Kelly), allocate, guard | order of caps and budget over a batch | total size within NAV and market limits |
| Attestation and decryption, `tee-core/src/attestation`, `ingest`, `strategy` | none | verify a quote, decrypt a snapshot | fallback paths that accept plain data | stale data is not traded on |
| Market feeds, `ingestion/src/polymarket` | sockets, timers, subscription lists, last tick times | connect, reconnect, gap fill, fail over, close | timers and awaits racing over one socket | a feed that is up delivers, a closed feed stays closed |
| Market state store and publisher, `ingestion/src/aggregator`, `persistence` | markets, sentiment, vaults; connections | bootstrap, apply tick, apply sentiment, snapshot, publish | ticks out of order, overlapping publications, one of two sinks failing | the last state published is the newest |
| Adapters (sentiment, Bitquery, vaults, Kafka), `ingestion/src` | small caches | fetch and score | network only | |
| Audit, `audit/src` | none of its own; storage and registry | store a record, then its root on chain | one of two steps failing | every anchored root has its record |
| Tokenization, `tokenization/src` | none of its own | fund client, executor server, transfer command | an operation is several transactions, and one wallet has several programs | a deposit leaves no leave behind; a sale hands over what it promises |
| Investor pages and operator console, `apps/product`, `apps/investor-portal` | what a page knows of wallet and account; the store of access requests | connect, switch, look up, request, deposit, redeem, authorize | wallet events, answers in any order, handlers that go on with the account of an older render | what is shown belongs to the account shown; an authorized investor sees the report; nothing stays busy |
| x402 client, Safe set-up, ops, shared types, dashboard, scripts, infra | none | wrappers, checks, displays | | |

### 1.3 Interactions

The pipeline's intents reach the exchange on two paths. The direct one is
`relayIntents`, called by the daemon, the scheduler and the command line, which share
the session policy file, the spend ledger and (optionally) the on-chain policy. The
other is `relayCrossChainIntents`, which shares the order builder and the executor but
neither policy nor ledger. The fund contract is only coupled to these by its owner, who
posts the NAV. Investors reach it from the command line and from two pages, which share
nothing but the wallet and the chain; a page asks its own server, and that the executor,
which asks the fund contract whom it may report to.

## 2. Modules

| Module | Models | Extends |
|---|---|---|
| `Units` | the total of a ledger, without recursion | |
| `PhronesisShare` | `PhronesisShare.sol` | `Units` |
| `PhronesisFund` | the capital side of `PhronesisFund.sol` | `PhronesisShare` |
| `InvestorCommands` | the steps of `depositStablecoin` and `redeemStablecoin`, of several programs in one wallet | `PhronesisFund` |
| `InvestorPage` | `BetaApp.tsx`, the wallet and the calls it makes, the operator's grants | |
| `AgentToken` | the token side of `PhronesisFund.sol`, and `PhronesisOracle.sol` | |
| `TransferCommands` | the commands that transfer, clone and re-encrypt the token | `AgentToken` |
| `RelayPipeline` | `relayIntents` and what it calls, the ledger file, the clock, the policy contract's record | `Units` |
| `IntentBridge` | `IntentBridge.sol` | |
| `CrossChainRelay` | `cross-chain-relayer.ts` over the bridge and the exchange | `IntentBridge` |
| `OrderOnce` | the promise of cross-chain relaying, abstractly | |
| `ReconnectingSocket` | the websocket life cycle that both feed classes share | |
| `ClobFeed` | `clob-ws.ts`, its gap fill, the trade consumer and the refresh timer of `phase1-cli.ts`, and the store entry | `ReconnectingSocket` |
| `ClobFailover` | `clob-ws-failover.ts` over two feeds | `ReconnectingSocket` |
| `StatePublisher` | overlapping publications to Redis and the time-series database | |
| `MarketSnapshot` | the store's entries, merged sentiment, `buildMarketSnapshot`: pure operators | |
| `CognitiveCycle` | guards, ranking, Kelly sizing, allocation: pure operators | `MarketSnapshot` |
| `FillTracking` | `executor.ts`' posting, `fill-tracker.ts`, `user-ws.ts` | |
| `AuditTrail` | `audit/src` and `MemoriaRegistry.sol` | |
| `FundCycle` | the daemon's cycles, composed of the last three | `CognitiveCycle`, `FillTracking`, `AuditTrail` |
| `MCFund`, `MCToken`, `MCCommands`, `MCRelay`, `MCBridge`, `MCFeeds`, `MCPublisher`, `MCPortal`, `MCCycle` | small instances for TLC; `MCFund` puts the programs of `InvestorCommands` beside the free calls of `PhronesisFund`, `MCFeeds` the plain feed beside the one with failover | the module they are named after |
| `PhronesisFund_proof` | theorems of the fund and of the programs that call it | `InvestorCommands` |
| `AgentToken_proof` | theorems of the token and of the oracle's commands | `TransferCommands` |
| `RelayPipeline_proof`, `CrossChainRelay_proof`, `StatePublisher_proof`, `FundCycle_proof`, `InvestorPage_proof` | theorems of the module each is named after | that module |
| `ClobFailover_proof` | theorems of both feeds | `MCFeeds` |

An operator whose comment begins with "Fault:" is a variant of the one that follows it,
wrong in the way a slip in that code would be. No specification uses these; each shows
that some property of the runs would notice the slip (`PROJECT.json`, "mutants").

`PROJECT.json` also lists, for each definition, the source lines it stands for ("map"),
and each hazard of the code with the properties aimed at it.

## 3. State, actions and the code

### 3.1 Contracts

A transaction is one action: the chain runs one at a time and undoes a failed one, so a
`require` is a guard and a revert is a step not taken.

**`PhronesisFund`.** The variables are the contract's, plus `nativeHeld` and
`tokensHeld`, what the chain says the fund has. The arithmetic is the code's, with its
three scales: 18-decimal assets, shares, and a token's own decimals, here powers of
`Base`, so that each conversion multiplies or divides *with its rounding*. Stablecoins
are plain ERC-20 tokens that transfer what they are asked to. Amounts are small naturals
under named bounds (`MaxSupply`, `MaxHoldings`, `MaxAUM`); Solidity 0.8's overflow
reverts are beyond them.

**`AgentToken`.** Owners, hashes, URIs, sealed keys, clones and both kinds of grant. A
proof is a model value; `HashOf` is the hash its first 32 bytes hold. `old` hashes of
proofs and permission bytes are read by no code and left out.

**`IntentBridge`.** Each intent is a model value; its EIP-712 signature is taken to be
that of a registered relayer or not, as `isRelayer` says.

**`InvestorCommands`.** A *run* is one program's deposit or redemption, in steps: read
whether the token is listed, read the allowance, approve and wait, send and wait. It may
stop at any of them. What it has sent stays in `pool` and is mined whether or not its
sender waits, in any order, which allows more than the wallet's nonces do. The token's
balances (`coins`) and allowances (`leave`) are external. `alone` remembers which runs
no other run of their wallet overlapped: a property may then say what holds of those.
The contract's part of a transaction is the action of `PhronesisFund`; `RevertSpend` is
the case that this action is not enabled.

### 3.2 Relaying

**`RelayPipeline`.** A process' code between two awaits is one step, except at the
shared file: `recordSpend` reads, truncates and fills in three steps, because
`writeFileSync` is not atomic for another process. `Start` is a process' start, when
what `.env` names becomes its session policy for as long as it runs; a rotation
(`RenewSession`) writes a new file with an end of its own, later or earlier than the old
one's, for the processes started from then on. `Begin` loads the session policy,
`Validate` is everything from the contract's answer to the first order, `PostOutcome`
the four ways an order may end, `Record...` the ledger. `EarlyReaders` are those that
read the ledger before the cognitive cycle (`execution/src/cli.ts`) instead of after the
contract's answer. The sizes of intents are numbers here: one that is none cannot be
signed, and without a key nothing is posted (`SigningThrows`, `Execute` in `FundCycle`).

**`CrossChainRelay`.** A run is `relayCrossChainIntents` in steps: submit, wait, order,
mark, wait. A transaction sent joins a pool and is mined, or reverts, whether or not its
sender still lives. `Events` chooses among lost connections, lost answers, answers
without a number, crashes, relayers' rights revoked, and somebody else who submits the
same intent. `OrderOnce` says what is promised: an intent is registered, then ordered at
most once.

**`FillTracking`.** An order is its position in its batch; its id is the exchange's, a
made-up one, or missing. The exchange fills orders at any time; the user channel may
tell of trades and of how orders stand, cancelled ones and such without a fill included,
or stay silent. `trackFills` collects from the channel what it asks about and has not
yet found (`Hits`), polls if nothing was found, and merges by position, as the code
does.

### 3.3 The cycle

**`MarketSnapshot`** has no state either: the daemon's store lives as long as one call
of `buildMarketSnapshot`, so an entry is what `Bootstrap`, `ApplySentiment` and each
`ApplyTick` make of what was heard of its market (`Reports`), in the order the code
calls them. A text is what is read off it: its good and bad words, the classifier's
label or none, the entities it names; what those amount to is computed as the code does.
Markets that take no orders are not in the snapshot. The guards measure an entry's age
against the snapshot's date, which a live snapshot gets after the vaults have been
asked: they may take so long that every entry is stale (`Aged`).

**`CognitiveCycle`** has no state: `Results(snapshot, llm)` is the set of intent lists
one `runCognitiveCycle` may return. Floats become integers (see the module's header),
and `NaN` is kept apart from them where a model's answer can bring it in: a probability
or a confidence that is no number passes the checks of `schema.ts` and the mending of
`parser.ts`, since no comparison with it holds. A probability that is none makes no bet;
a confidence that is none makes every request of the solver one (`Requests`), which the
limits let pass and the smallest bet does not drop. The solver of `optimizer` is
otherwise reduced to what its last iteration does to any request of the gradient: the
projection onto the position and gross limits. With the model, an attestation quote is
fetched first and the cycle is empty if it does not verify; without an attestation
service the code makes a quote up, which verifies once a provider is named.

**`FundCycle`** walks through `runFundCycle`: build a snapshot, decide, relay, execute,
track, cross, anchor, report, each of which may throw, hang until its time-out or, where
it has none, for ever, or be cut off by the process' end. Signing is part of the
decision: it throws for an intent without a size (`SigningThrows`). What `RelayPipeline`
and `CrossChainRelay` model in detail is one step here. **`AuditTrail`** has one wallet
for all writers, whose transactions the chain takes in the order of their nonces; of two
that took the same nonce one is lost.

### 3.4 Feeds and publication

Node runs one callback at a time, so an action is a callback: `open`, `close`, a timer,
an answer. **`ReconnectingSocket`** has the part of `PolymarketClobWs` and `ManagedFeed`
that is the same code twice. **`ClobFeed`** adds the gap fill, whose request is sent in
one callback and applied in another, the store entry, and what else changes the store
while `phase1-cli.ts` runs: the consumer of trades, which is stopped after the feed, and
sentiment refreshes that may overlap; **`ClobFailover`** the counting and the switch,
with ticks numbered by when the exchange sent them. In **`StatePublisher`** a timer
starts a publication whether or not the former has ended; all share one Redis client,
whose connection executes and answers in order. A connection that is lost loses the
commands it has not executed and the answers it has not given. The key `version` never
expires in Redis while `latest` may.

**`TransferCommands`.** Each command is a process of several transactions, over
`AgentToken`; it may stop anywhere, and a call may fail after its effect.
`RegisteredByHand` stands for a proof that somebody registered outside these commands:
without it the demo's last step can never succeed (§7).

### 3.5 The investor's page

**`InvestorPage`.** A click, a message of the wallet or an answer runs a handler up to
its next `await`; then React renders and runs the effects whose dependencies changed. So
the page's state is kept twice: as it has been set, and as it was last rendered
(`seen`), which is what the handlers and effects of that render see; `Commit` is the
step from the one to the other. The wallet answers and tells of changes over one channel
(`stream`), in order; `watchWallet` listens only once an address has been rendered, and
what comes before is lost (`Unheard`). A reading of the account or the chain may be
rejected when it is due (`ReadFails`), which `refreshChain` takes for no chain and
`handleConnect` for its own end; what the page has read of the chain (`walletChainId`)
is the right chain, another or none. `calls` are the requests to the page's own server,
whose answers land in any order, or fail; who waits for an answer (`for`) decides what
is called next, as `loadPerformance` and `handleDeposit` do. Values are kept with the
account they were asked for. `glitches` records what has gone wrong so far, so that a
property can say what may go wrong if and only if one of them happened: an account event
nobody listened to, an answer overtaken by a later one's, a failed call, a handler that
went on for the account before, and a report asked for while the account was not
authorized. The operator's console is `Authorize` and `Revoke`; the store of requests,
whose read-modify-write is one synchronous stretch of the server, is a set. How a
deposit is made is `InvestorCommands`'; here it is a transaction that is sent and mined
or not.

## 4. Runs

`tlc -config <cfg> <module>` as `PROJECT.json` lists them. Each takes four minutes or
less on two cores. `CHECK_DEADLOCK FALSE` stands where the bounded system really ends:
all runs done, counters at their bounds, feeds closed.

| Run | Bounds | What it shows |
|---|---|---|
| `ledgers` | two symmetric holders, one coin and one token, amounts 1 and 3, NAV zero, par and above, token scale below and above the fund's, at most 4 shares and 3 assets; either free calls of the contracts, or two programs of one wallet, of both kinds, each stopping anywhere; 1,323,000 states | Shares conserved, ledgers covered by holdings, no round trip gains, only a NAV rise makes a solvent fund insolvent; approvals do not add up, and a deposit that nothing overlaps is not refused for want of leave |
| `token_holding` | two accounts, token 1 and a clone, every proof, key and grant | The fund and its token stay one thing, clones are attested, the fund changes hands only with a proof for its hash |
| `commands_overlap` | two transfers to one buyer, a clone, the demo, each dying anywhere; 12,768 states | The token is sold once, its owner has a key sealed for them, every command ends |
| `relay_sole` | the command line, one run after another; two-tick days, three ticks, sessions of one or two ticks set anew at any time, two record-losing faults, every kind of fault; 1,772,125 states | Without faults the cap is kept across midnight; each fault costs at most one more limit; no new orders once the session a process started with has expired |
| `relay_twoatonce` | daemon and command line, no faults | *Violation*: the cap is exceeded (§7) |
| `relay_paused` | daemon, the owner pauses the policy | *Violation*: it goes on relaying (§7) |
| `bridge` | two runs over two intents, two wallets, every event; 617,268 states | Implements `OrderOnce`; a run reports only what happened; runs end |
| `feeds` | either the plain feed with one price move (two prices, which is all its properties tell apart), both tokens, two refreshes at a time; or two feeds with failover, threshold 2 (the default), two ticks; three sockets each; 48,759 states | One connection at a time, ticks passed in order, the active feed comes back, the market state left alone after `close()` |
| `portal` | two accounts, either chain, any grants at first, two outside events (switches, clicks, grants, rejected readings, failures) besides the wallet's and the servers' answers; 237,939 states. With three events the two invariants were explored once, to 8.4 million states and not to the end: no error | At rest the page shows the wallet's account and knows its chain or none, and what it shows is that account's but for the glitches named; who is found to be authorized sees the report; nothing stays busy |
| `publisher` | four publications (first, two overlapping, last), three versions | No key goes back, the state published last stands, latest and version in step, the process ends |
| `cycle` | two cycles, one cut off, four sets of flags, two markets heard of in six ways each or the fixture file, four model answers, one of them with a probability and a confidence that are no numbers, orders of two lots, a second writer to the registry; 458,751 states | Divergences fit the prices they are shown with, bets on the side believed and within budget unless all have lost their sizes, fills real and filed rightly, roots stored and in order, a decided cycle ends or hangs at one of the calls named (§5) |
| `cycle_no` | as `cycle` | *Violation*: an order for NO buys YES (§7) |

Why such bounds are enough: a race needs two actors and one shared thing, all of which
have at least two here; wrong rounding shows at the first division that leaves a
remainder (`Base` 2, amounts 1 and 3); midnight and expiry fall at different places
because days and sessions last two ticks; three sockets give a loss before, during and
after a reconnection; two intents let one overtake another; two events let an account be
switched in the middle of what the first click, or the page's own start, set off. A
third event lets a switch overtake a switch. What an instance shows, the theorems of §6
generalise where there is one.

## 5. Fairness

| Module | Assumed | Because |
|---|---|---|
| `CrossChainRelay` | each run steps; each transaction in the pool is mined | a call returns or throws (`connection`, `answer` are such ends); the chains make blocks |
| `TransferCommands` | each run steps | as above |
| `ClobFeed`, `ClobFailover` | timers fire, sockets that connect or close come to an end, gap fills and refreshes end, `main` stops the consumer; in the failover also ticks on the wire arrive | Node's timers and TCP; nothing requires an exchange to send or a connection to last |
| `StatePublisher` | a publication begun goes on, the main function goes on, Redis and the database answer or fail | the clients report a lost connection |
| `InvestorPage` | messages of the wallet are heard, what is set is rendered, calls are answered or fail, a transaction is mined or fails | React and the event loop run; `fetch` ends; a wallet's user may never answer to be connected or switched, and nothing waits for that |
| `FundCycle` | what follows a decision goes on (`CarryOut`), except where it waits without a limit (`Untimed`) | see below |

`FundCycle` assumes no end of what the code awaits as long as it takes: posting an order
and asking how it stands (`clob-client.ts`), the steps of an intent across the bridge,
uploading a record (`audit/src/storage.ts:25`) and the receipt for its root
(`audit/src/registry.ts:22`, `tx.wait()`). So `CycleEnds` says that a decided cycle ends
*or stays at one of these for ever*, and that it can be stuck nowhere else: not in how
`trackFills` waits and counts its polls, nor between the calls, nor after one has thrown.
What is assumed to end: synchronous code; connecting to the user channel (10 s,
`user-ws.ts:35`) and waiting on it (30 s, `fill-tracker.ts:21`); and, as the time-outs
of the libraries have it, reading the policy contract and sending the transaction that
updates the root.

Nothing is assumed of outside events: faults, closing, revoking, filling, price moves
and new cycles may happen or not. `FundCycle` assumes no fairness of the decision
itself, so `CycleEnds` starts after it: a language model is asked there, also without a
limit. The commands and the cross-chain runs wait for receipts without one too; they end
because every transaction they wait for is mined or fails. `RelayPipeline`,
`PhronesisFund`, `InvestorCommands` and `AgentToken` have safety properties only.

## 6. Proofs

Checked by TLAPS (`tlapm <module>_proof.tla`), for all values of the constants under the
assumptions the modules name: `AmountsAssumption`, `AccountsAssumption`,
`FundAssumption`, `CommandAssumption` (of investors), `RunsAssumption`,
`BridgeAssumption`, `TokenAssumption`, `RelayAssumption`, `SocketAssumption`,
`FailoverAssumption`, `PublisherAssumption`, `SnapshotAssumption`, `CycleAssumption`,
`LotsAssumption`, `DaemonAssumption`, `PageAssumption`. They say that accounts, tokens
and markets are finite sets, amounts and limits are naturals, scales, lots and the
length of a day are positive, a bet's limits are in order, that there are two feeds and
two writers, what kind of thing a tick, a post, a model's answer or the fixture file is,
and that special values are distinct, `NaN` from every integer. Nothing is assumed of
how long a session lasts or a rotation makes it. Every cfg meets them; TLC checks that
on each run.

Every safety property of the passing runs is a theorem. In each module the argument is
one inductive invariant, or a few that build on each other:

`PhronesisFund_proof`: `FundInv` is `TypeOK`, `SupplyIsTotalOfBalances` and
`StablecoinsHeld` together. `TypeOK` alone is not inductive: that a burn leaves a
natural supply needs that a holder's balance is part of it, and that a token redemption
can be paid needs that the ledger is covered. Over `FundInv`, `StaysSolvent`,
`AssetsStayHeld` and `CapOnIssue` are proved action by action; the arithmetic is in
lemmas about a product divided up and down again. `RoundTripGainsNothing` follows from
the division lemmas alone. `CapOnIssue` (no issue of shares leaves the fund above its
cap) is proved only.

Its first lemmas are about division and about how `TotalOf` changes when one entry
changes. Its second half is about the programs of `InvestorCommands`:

- `LeaveInv` adds to `StandingAllowance` which runs may have which transaction in the
  pool: an approval is a deposit's that waits for it or has failed. Without that, an
  approval mined could be a redemption's or of a run that has succeeded, and nobody
  would answer for the leave it gives. A deposit mined is the interesting step: it takes
  exactly what its run asked for, so if that run was the one that answered for what
  stands, nothing stands.
- `AloneInv` adds, of each deposit that has been alone so far, that no other run of its
  wallet acts while it does (`Apart`; a run acts while it is underway *or has a
  transaction in the pool*, also after it has failed), and that once its approval is
  mined it has the leave it asked for (`HasLeave`). Leave of its wallet changes by a
  mined transaction of its wallet only, which is then its own. Hence
  `CommandAloneIsAllowed`.
- `CommandsImplementFund`: each step of a program leaves the fund alone or is the call
  of the contracts it says it is, so that what is proved of the fund's free calls holds
  of them.

`CrossChainRelay_proof`: `Inv` adds to the types that a transaction to mark an intent
exists only for a run that registered it. This *ticket*, which the bridge gives once
(`submitIntent` reverts for a registered intent), is what a run must hold to order: two
runs cannot hold one intent's, hence the refinement `RelayOrdersOnce` of `OrderOnce`,
`RelayOrdersRegistered` (proved only) and `RelayReportsAreTrue`.

`AgentToken_proof`: `TokenInv` is `TypeOK`, `FundIsToken`, `ClonesAreAttested` and
`Lineage`; `HandedOverWithProof` follows from it. `Lineage` is proved only.
`CommandsImplementToken`: every step of a command is a call of the contracts or leaves
them alone. `CommandInv` adds that once a transfer has taken the token from the
deployer, the deployer no longer owns it unless some run's receiver is the deployer
(`SoldAway`). A second transfer that read the deployer as owner before can then only
revert: hence `CommandSoldOnce`. Of `CommandOwnerHoldsKey` the step is `OwnerMoves`:
nothing but a transfer moves the first token or seals a key with it, and a transfer does
both in one transaction.

`RelayPipeline_proof`: two invariants and a third for sessions.

- `RelayInv`, for any number of relayers: each holds a policy no laxer in its limits
  than the session's, and what it approved fits what that leaves over its reading. The
  checks are made in batch order, each against those approved before, so the bound on
  the whole is the check of the *last* approved; that a finite set of naturals has a
  greatest element is `Greatest`, from the library's theorem that strict inclusion of
  finite sets is well founded. Hence `RelayCycleFits`.
- `SoleInv`, for a sole relayer: what is placed today *and still to be posted* is at
  most what the file says, what the cycle will record, and one limit for each record
  lost (`Accounted`); the reading in hand is no less than what the file says now
  (`ReadEnough`: an early reading ages only towards more, since a new day makes the file
  count as empty); and neither file nor orders are of a day to come (`PastOnly`). A
  crash needs no argument of its own: it loses at most the whole of one limit, which
  `Lost` then grants. Hence `SoleBudgetPerFault` and `SoleLedgerCovers`. Of two relayers
  the first is false, as `relay_twoatonce` shows.
- `SessionInv`: while a process awaits the contract, the policy in its hand is the one
  it started with, whatever was rotated since. Merging only shortens that, and orders
  are taken on at the clock of the check, so none is after its end. Hence
  `RelayExpiryFreezes`. Of the session last *written* the same is false (§7).

`ClobFailover_proof`: `Sole` says which of a socket and a timer an open feed has, and
that at most one socket of a feed is still alive, closing ones included;
`FailoverOneConnection` follows. With it `TickInv` says that what is on a wire is
increasing and later than all its feed has passed on. Without `Sole` two sockets could
hold ticks of one feed and `FailoverPassedInOrder` would not follow. `PlainInv` is the
same argument for the plain feed's own variables; `FeedsConnectedOnce` joins the two
over `MCSpec`, where a process has either client.

`StatePublisher_proof`: all publications share one connection, and `InTurns` says what
that gives: of two commands in the line or answered, the first is of the older
publication, or of a newer one that is not as far. So no publication overtakes an older
one (`Past`), what one has still to write is never older than what is there (`Waits`,
`WasRun`), and the newest key is of a publication begun (`Newest`). Hence
`PublishedInStep`, `PublishedForward` and, with `LastPhase`, `LastStateStands`.

`FundCycle_proof`: `AuditInv` says that a root is sent only after its record was stored,
that the roots the daemon has sent are of cycles before the one under way until that
cycle has sent its own (`Unsent`), that the command line sends one at most, and that
transactions leave the wallet's queue in order. Without `Unsent` a cycle could send
twice. Hence `CycleAnchoredIsStored` and `CycleRootsInOrder`.

Its other three invariants, for any markets, posts, ticks, model answers and weights:

- `SnapshotType` gives every reading, sentiment and entry its type through the code's
  order of calls, and `TickedEntry` that a divergence is computed anew with each price;
  with `DecidedInv` (the daemon decides on a snapshot and relays what it made of it)
  `CycleSnapshotInStep` follows.
- `ResultsType` follows a bet from the ranking (`RulesType`, `ModelType`) over blending,
  sizing and either allocator to the list of intents: each has the side its probability
  favours and is within its own limit, and of the greedy allocator each prefix is within
  the gross limit (`TakeType`, `GreedyType`), of the optimizer the projection is
  (`WeightedType`). Such a list is one of `Books`. The other case is followed as well: a
  model's row with a confidence that is no number makes of several bets a list of
  `Blank`, in which none has a size (`SizesLost`); of the rules' rows, and of one bet
  alone, it cannot. Signing lets no such list through. Hence `CycleWithinBudget` and
  `CycleOnBelief`.
- `FillsInv`: ids are in the order their orders were posted, some left out, and a fill
  is filed at the position of its id; what the channel told is what the exchange did, or
  less. As long as no order was left out a position is an order. Hence
  `CycleFillsHappened` and `CycleFillOfItsOrder`.

The sums and lists in these are folds of the community modules, for which the library
has no theorems. `FoldDefined` proves that such a fold over a finite set exists
whichever element is taken first, and `SumTakesAny` that of a sum it does not matter;
both by induction on finite sets (`BySmaller`, from the well-foundedness of strict
inclusion), with the property written as a set instead of an operator parameter.
`MarketSnapshot` and its users filter with `Kept`, because the prover cannot expand
`SelectSeq`.

`InvestorPage_proof`: of a queue of messages or calls, `Newest` says that the last of a
kind says a thing, and lemmas say how that fares when one is added, heard or taken from
the middle.

- `WalletInv`: the last message about the account names the wallet's account, the last
  about the chain says whether it is the right one, and when none is left the page knows
  the wallet's chain or none (`KnowsChain`). What `handleConnect` reads (`connectChain`,
  `connectAfter`) is right or a later message says otherwise; a reading that is rejected
  leaves what a listening page knows or takes it back to none. Hence
  `PageMirrorsWallet`.
- `OwnInv`: as long as no answer came late, was overtaken or failed, the last call of
  each kind is about the account rendered, and when none is left, what it set is about
  it. The report needs that it is to be shown: the one of the account before may stay
  while it is hidden. Hence `PageShownIsOwn`.

Model-checked only: liveness (`EveryIntentAnswered`, `QuietAfterClose`,
`ActiveComesBack`, `AuthorizedSees`, `BusyEnds`, `RunEnds`, `RunsEnd`, `CycleEnds`),
which the prover cannot reach, and what the three violation runs show, which is false.

## 7. Where the code and its word differ

Shown by runs:

- `relay_twoatonce`, `DailyCapKept`: the ledger is read before the orders and written
  after, unlocked; two relaying processes together exceed the cap that
  `execution/src/policy/validator.ts:87` enforces on each.
- `relay_paused`, `PauseStopsRelays`: a paused on-chain policy is ignored, with its
  limits (`execution/src/policy/on-chain.ts:85`); `contracts/ExecutionPolicy.sol:89`
  allows no order while paused.
- `cycle_no`, `OrderBuysOutcome`: `buildOrders`
  (`execution/src/polymarket/order-builder.ts:16`) always buys the one token the map
  lists, YES, whatever outcome was bet on.

Stated as definitions and not among the runs; each is found violated by TLC under the
change named:

| Property | Change | What the code does |
|---|---|---|
| `RegisteredIsExecuted` | `MCBridge_once.cfg` with `Events = {"outsider"}` | nothing watches the bridge (`cross-chain-relayer.ts:152-159` returns nothing), although `IntentBridge.sol:5` says relayers do |
| `MarkedAfterOrder` | the same with `Events = {"unnumbered"}` | `clob-client.ts:66` makes up an order id for an answer without one, so a refused order is marked as executed (`IntentBridge.sol:85`) |
| `DemoCompletes` | `MCCommands_overlap.cfg` with `SPECIFICATION SmoothSpec`, `Runs <- MCDemo`, `Proofs <- MCDemo` | the demo registers its proof with `registerProof`, but `rotateMetadata` asks for one of `registerTransferProof`: step 3 reverts (`fund-client.ts:276`, `cli.ts:185`) |
| `OwnerCanRead` | the same with `Runs <- MCSale`, `Proofs <- MCSale` | a transfer seals a new secret and leaves the old data and URI in place (`transfer-cli.ts:92`, `tee-oracle.ts:24`) |
| `GapFillGoesForward` | `MCFeeds_live.cfg` with `Tokens <- MCYes`, `MaxSockets = 2` and `MaxRefreshes = 0` | a midpoint that arrives late overwrites newer ticks (`clob-ws.ts:53`, `clob-rest.ts:18`) |
| `PricedInYes` | `MCFeeds_live.cfg` as it is | a tick or a trade of the NO token sets the entry's price, which `sizer.ts:13` takes for YES's (`store.ts:48`, `:60`) |
| `EachIsAllowed` | `MCFund_ledgers.cfg` as it is | one program's `approve` overwrites another's, whose deposit then reverts although both have read a sufficient answer (`fund-client.ts:166`, `fund-actions.ts:56`) |
| `SharesAreOwn` | `MCPortal_switching.cfg` as it is | after a transaction the page asks for the balance of the account it was made from, and shows it as "Your shares" (`BetaApp.tsx:419`) of the account it has been switched to meanwhile |
| `RequestedIsStored` | the same | "Request submitted" (`BetaApp.tsx:370`) stays when the wallet is switched to an account that has requested nothing, and hides the button |
| `RotationFreezesOrders` | `MCRelay_sole.cfg` as it is, as a `PROPERTY` | a rotation writes now + ttl whatever the old end was (`rotation.ts:19-25`; the policy in `fixtures/session-policy.json` has a fixed end), and a process keeps the file it started with: one started before a rotation that shortens the session relays orders after its end |
| `BetsHaveSize` | `MCCycle_daemon.cfg` as it is | a confidence such as "high" is NaN (`schema.ts:51-52`, `:73`), reaches the solver's `mu` (`qp-solver.ts:63`) and passes the position limit, the gross limit and the smallest bet (`:43`, `:47`, `:115`): every bet of several becomes one of NaN dollars. With a key the cycle then fails to sign them; a dry run reports them as orders |
| `CycleEnds` without `<>[]Untimed` | the same, as a `PROPERTY` | the daemon waits without a limit for a receipt, an upload, the exchange or the bridge (§5), and no other cycle begins meanwhile |
| `GrantIsSeen` | `MCPortal_switching.cfg`, as a `PROPERTY` | the account before was authorized, so the report of the new one is asked for before its own authorization is known, and refused; if it is granted just then, nothing that an effect depends on changes any more and "Loading performance data..." (`BetaApp.tsx:314`) stays for ever |

Met while reading, without a property:

- `fetchRelayerStatus` (`cross-chain-relayer.ts:143-146`) reports the number of intents
  ever submitted as pending.
- An error after an order is placed is reported as not submitted
  (`cross-chain-relayer.ts:109`).
- `daemon/src/cycle.ts:49` prints "skipping execution" and goes on;
  `execution/src/cli.ts:63` prints that a dry run continues, though an expired session
  approves nothing.
- With `--cross-chain` the daemon relays each intent directly and again over the bridge,
  the second time outside session policy and ledger.
- Fills are matched to orders by position in two lists, one of which omits orders that
  failed: after a failure fills are filed under the wrong order (`FillOfItsOrder` is
  stated for the orders before it). Orders nobody heard of are reported as "partial" at
  their full size. A live relay without `--track-fills` reports simulated fills as
  matched. The report tracks all fills a second time.
- Opening the user channel may throw outside the `try` that promises a fallback to REST
  (`fill-tracker.ts:18`).
- `isOrderAllowed` (`contracts/ExecutionPolicy.sol:83`) is called by no code. Its
  comment has sizes in micro-USDC, while the limits it compares them with are deployed
  (`script/DeployExecutionPolicy.s.sol:12`) and read back (`on-chain.ts:55`) as dollars.
  The relayer takes neither of the contract's allow-lists into account:
  `isContractAllowedOnChain` has no caller either.
- No caller gives the drawdown and correlation guards their inputs, and none asks for
  `strictFreshness`, so a stale snapshot is stamped as new.
- A language model's rows may name a market that the guards refused, twice, or that does
  not exist (`CognitiveCycle` drops the unknown, as the code does).
- The weights of the allocation do not depend on the Kelly wagers; the edge of NO at
  `cognitive.ts:168` is not the sizer's.
- `package.json`'s `phase6:test` does not name `IntentBridgeTest`; the root README names
  documents that are not there; `deposit` of the fund client reports the whole balance
  as the shares received; disconnects of the failover are counted for life, not in a
  row.

## 8. Not modelled, and next

Not modelled: splitting texts into words, Bitquery queries, vault figures (requests to
others); figures of the markets' own API that are no numbers (a model's answer is the
one source of `NaN`); a session policy file that cannot be read, for which `loader.ts`
has a default that ends a day after the process' start; decryption and the making of
signatures (primitives taken to be sound); backtests (floating-point statistics);
wrappers of x402 and Safe; what the performance report says (`performance.ts`: half of
it constants); the audit panel, the forms' fields and messages of the pages; the older
portal page, which follows neither wallet nor chain; the dashboard, scripts,
infrastructure. `PROJECT.json` lists each with its reason.

In the order of importance:

1. Feed health, and sentiment in the long-lived store of `phase1-cli.ts`: its refreshes
   may overlap, an older one landing last, and each re-dates an entry whose price may be
   old.
2. `isOrderAllowed` beside the off-chain validator, once something calls it.
3. An abstract specification of a day's budget that `RelayPipeline` implements for a
   sole relayer, as `OrderOnce` is for `CrossChainRelay`.
4. `SoleBudgetPerFault` for several relayers that never overlap, should the code come to
   lock its ledger.
