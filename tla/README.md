# DeltaMon in TLA+

Formal models of DeltaMon: the USDC vault `DeltaMonVault`, the timelocks its
owner is bound by, the automation that turns idle USDC into staked MON and a
short, the keeper that marks and claims, and the stateful services around them.
TLC checks the models on small instances, TLAPS proves the theorems for
every value of the constants. Paths are relative to the repository root; a bare
line number in a module's comment belongs to the file the module is about.

    tlc -config vault_perp.cfg MCDeltaMonVault      # any run of PROJECT.json
    tlapm FlowEngineProofs.tla                      # any ...Proofs module

`PROJECT.json` holds the runs, the map from definitions to source lines, the
hazards with the properties that cover them, the mutants and the theorems. A
definition named `X_as_...` is a plausible bug of the definition `X` below it. No
specification uses it; it is there to show that a run's property would notice.

Contents: 1 the system, 2 the plan, 3 modules and code, 4 runs and bounds,
5 fairness, 6 proofs, 7 where code and documents disagree, 8 what is not modelled.

## 1. The system

### 1.1 On chain

**DeltaMonVault** (`packages/contracts/src/DeltaMonVault.sol`, deployed). An
ERC-4626 vault over USDC with a manual treasury.
*State*: shares and a cost basis per holder; idle USDC and the fees owed out of
it; MON as WMON, native, staked and unbonding, with one slot per validator and
8-bit withdraw id; AUSD; the perp book (who is cleared as a manager, what each
owes, the sum of it, the reported result and its date); the pause; the settings
and what waits behind a timelock.
*Operations*: `deposit`, `mint`, `redeem`, `withdraw`, `redeemInKind`, transfers;
four swaps; `stake`, `unstake`, `claimUnstaked` (anyone), `claimStakingRewards`;
`controlPerpManagers`, `sendFundPerpManager`, `perpManagerDeposit`,
`reportPerpPnl`; `withdrawFees`, pause, and the propose, apply and cancel calls of
the settings.
*Interactions*: an oracle (`monPrice`, may revert), a spot venue (pays at least
the floor or reverts), the staking precompile (its own book of requests), perp
managers (custodial: money leaves and comes back only if they send it).
*Hard*: no lock helps against a legal sequence of calls. The book's value sits
partly in tokens, partly in a reported number, and moves between the two; marks
go stale and books are emptied and reopened; withdraw ids wrap; the oracle can be
down when someone leaves; rounding happens on every call.
*Correct if*: nobody who acts takes value from who does not; fees are on profit
only; basis follows shares; an exit is never gated; a result is counted once and
only while it is confirmed; what the vault records as staked is owed to it.

**Settings and timelocks** (same file, 54-60 and 667-850). Tightening is
immediate, loosening waits, a venue always waits. *Correct if* a depositor who
looks at the contract cannot be surprised within the delay.

**Version 2** (`DeltaVault.sol`, `strategies/DeltaNeutralStrategy.sol`,
`adapters/`) and the earlier **SdMonVault.sol**: not deployed. *State*: share
price against a strategy's `totalAssets`; a hedge adapter whose notional is what
the keeper last reported, apart from the target that was last set. *Hard*:
acting twice on one stale report; equity that is reported but not yet freed.

**Adapters and oracles** (`KuruSpotAdapter`, `ChainlinkOracle`, `PythOracle`):
stateless once deployed; they are the venue and the feed of the vault's model.

### 1.2 Off chain (`apps/be/src`)

**Flow engine and transaction runner** (`services/flowEngine.ts`, `txRunner.ts`).
*State*: a document per run with seven steps (status, attempts, pinned nonce,
hash, result). *Operations*: one step per tick: plan, pin a nonce, write, send,
write the hash, confirm, read the result, write it; after a restart, resolve the
step that was in flight by its hash or by its nonce. *Interactions*: the vault and
Perpl's contracts through two wallets, Perpl's socket for the order. *Hard*: a
process may die between any two writes; transactions are late, dropped, reverted
or answered into nothing; others use the wallet. *Correct if* a step is executed
once, in order, is recorded as done only if it was, a run ends, and a run that is
done has staked and hedged what it was for.

**Automation runner and store** (`automationRunner.ts`, `automationSchedule.ts`,
`automationStore.ts`, `lib/mongo.ts`). *State*: the config document, the block
cursor, the hour of the last unbond, the feed. *Operations*: a tick every 20
seconds reads the config, scans blocks in chunks, puts deposits on the feed, opens
a run for a deposit or a time window, advances runs, watches the liquidation
buffer. *Hard*: every await is a place to be cut short, the world moves between
them, a scanned range is replayed, the head a node reports may fall back.
*Correct if* one run is open at a time, no trigger starts two, no deposit is
passed over unseen and a short close to liquidation is answered.

**Perpl session** (`perplSession.ts`, `perplOrders.ts`, `routes/perp.ts`).
*State*: the socket, whether it is signed in, a reconnect timer, the last request
id Perpl forwarded, the numbers drawn so far, the orders that wait for an answer.
*Operations*: sign in, reconnect, submit a batch (an entry and its triggers),
resolve an order by a status frame or a timeout. *Hard*: callbacks of a socket
that was replaced, late acknowledgements, ids drawn in one order and sent in
another. *Correct if* a caller is always answered and never told what is not so.

**Keeper** (`keeper.ts`, `keeperPlan.ts`, `perpBook.ts`). *State*: the tick in
progress, the alerts. *Operations*: every tick reads the vault in one multicall,
refreshes the perp mark when it is due, claims rewards and matured unbonds.
*Interactions*: the vault, Perpl's book from the socket or from a feed. *Hard*: the
book is read, planned on, simulated, sent and mined at five times; one reading that
fails takes others with it. *Correct if* the mark does not lapse while there is a
book, counts no more than there is, and every unbond is claimed.

**Accounting** (`accounting*.ts`). *State*: the rows, and per stream a cursor: a
page, the newest row of the sweep before, of this one, and the moment the stream is
complete to. *Operations*: read a page, save its rows, store the cursor. *Hard*: it
stops between any two of these and goes on later, while rows push in at the head.
*Correct if* no row is lost or made up and no chart claims more than is there.

**Vault index** (`vaultIndex.ts`). *State*: an object in memory per caller that
loaded one, a file, one scan. *Hard*: torn files, callers that load at a time,
failed windows. *Correct if* it never claims a block it did not take in.

**Sign-in** (`perpAuth.ts`, `routes/automation.ts`). *State*: challenges and
sessions in memory, copies of sessions in the database, the vault's owner, read behind
an await and cached for a minute. *Hard*: caches and a store with awaits in between.
*Correct if* a challenge opens one session, signed out is out, and who lost the vault
soon writes no config any more.

**Readings** (`hedge.ts`, `perpExposure.ts`, `perpPositionView.ts`, `vault.ts`,
`yield.ts`, `pyth.ts`, `activityEvents.ts`), **market reads**, **signing** and the
other **routes** hold no state that outlives a request.

### 1.3 Front end and shared code

`apps/fe` is views and wallets, with one stateful path, the **cross-chain deposit**
(`CrossChainDepositPanel.tsx`, `lib/crosschain/`, the routes under
`api/crosschain`). *State*: the session on the screen and two copies in
localStorage, at Aurora an execution per attempt, on the source chain transfers, at
the intermediary account what routes left. *Operations*: review, start, sign, send,
poll, recover, start another. *Hard*: a reload or a change of account between any
two awaits, a wallet whose answer is lost. *Correct if* no money goes out before
the signature that lets it be used, none twice, and none is forgotten.

`packages/shared` holds schemas, addresses and generated ABIs. The deployment
scripts run once.

### 1.4 How the parts meet

    depositors ──> DeltaMonVault <── owner, keeper, anyone (claimUnstaked)
                        ^  ^ Deposit logs
         txRunner ──────┘  └────── automation runner ── opens ──> run document
             ^                          │ ticks                      ^
             └──────── flow engine <────┘ ───────────────────────────┘
              keeper       └── Perpl session ──> Perpl <── accounting crawl
                └── reads, marks and claims from the vault

`FlowEngine` is the inside of a run: the vault and Perpl are what they hold.
`AutomationRunner` is the outside: a run is a document with a stage. Both stand
on the vault only through what a call needs and does, so the vault's model does
not know of them. `Keeper` is composed with the vault: it EXTENDS
`DeltaMonVault`, and what the keeper sends are that module's actions. What
`FlowEngine` assumes of the answer to an order (forwarded to the chain, refused, or
unknown) is what `OrderPlacement` promises and `PerplSession` implements. What the chain
then makes of a forwarded order nobody is told, and it is a fault of `FlowEngine`'s own
(`orderFails`). The other services share no state with these.

## 2. The plan

Built, most important first: `DeltaMonVault`, `VaultTimelocks`, `FlowEngine`,
`AutomationRunner`, `Keeper` (with the vault), `PerplSession` (which implements
`OrderPlacement`), `HistorySync` (which implements `HistoryLedger`),
`CrossChainDeposit`, `ConsoleAuth`, `VaultIndex`. All of them have proofs, in eight
modules: the two crawls share `CrawlProofs`, the sessions of a console and of Perpl
`SessionProofs`.

What would come next:

| module | models | would state |
| --- | --- | --- |
| `FlowEngine` | deposits and claims during a run, document writes that fail before they land | as it does now |
| `RunStages` | `FlowEngine` as an implementation of `AutomationRunner`'s stages, with a refinement mapping from the seven steps to the stage | a run opened is a run that ends as the runner sees it |
| `DeltaMonVault` | `setLimits`, the whitelist, the keeper's address; the fee and the ceiling moving with `VaultTimelocks` | as it does now |
| `TwoTabs` | `CrossChainDeposit` with two pages over one localStorage | what is left of `InFlightIsRemembered` |

The earlier vault designs (`DeltaVault` with its strategy and adapters,
`SdMonVault`) were planned and left out: section 8.

## 3. Modules and code

### DeltaMonVault

One action is one external call. The contract is `nonReentrant`, so a call is
atomic, and a call that reverts is a step that is not enabled. All actions carry
the name of the function; `PullAndMint`, `Settle`, `basisOf`, `feeOn` are
`_pullAndMint`, `_settle`, `_takeBasis` and the fee inside `_settle`. `OpenBook`
and `DockMark` are the two places where the perp mark changes hands with the
money. Variables have the contract's names; `usdc`, `ausd`, `wmon` and `native`
are the token balances the contract reads. Two variables observe:
`perpOpenedAt` (when the present book opened) and `callsLeft` (a bound).

External parts: `delegated` and `requests` are the precompile's books, which only
`Undelegate`, `Stake`, `ClaimUnstaked` and `EpochEnds` touch; `price` and
`oracleLive` move freely in `OracleMoves`; a venue pays the floor or the fair
amount (`SwapOutputs`), the two ends of what the check in `_swap` lets through.

`Priced` deserves a remark: the contract reads the oracle only when there is MON
to price, so an outage makes a valuation revert only then. The settings behind a
timelock are constants: `FeeBps`, `CeilingBps`, `SlippageBps`, `ParityBps`,
`PnlBandBps`, `ReportMaxAge`, `DepositCap`, `MinDeposit`. Receivers and allowances
are outside the vault's state.

### VaultTimelocks

The fee and the perp ceiling are settings of one limit, the risk limits one
setting of several, and the three families of functions share their logic:
`Propose` is `proposePerformanceFee`, `setMaxPerpAllocation` and `setRiskParams`,
`Apply` their applications. The venue has actions of its own. `Look` is a
depositor who reads the contract at some moment (`seen`); `announced` is the last
value in an event. Both observe only.

### FlowEngine

`flow` and `steps` are the run's document. `job` is the worker: `job.at` names the
await it stands at (`plan`, `send`, `record`, `confirm`, `settle`, `fill`,
`giveUp`), `down` while the process is dead. The chain is `tx` (a transaction per
step and attempt, in the mempool, mined, reverted or dropped), `confirmed` (the
nonce of each wallet) and `book` (what the vault, the manager and Perpl hold).
`BeginStep` to `Settle` are the writes and awaits of `runStep`; `OrderAccepted`,
`OrderFails` and `RecordShort` those of `runOpenShort`; `ResolveByHash` and
`ResolveByNonce` are `resolveInFlight`, after `Restart`.

`confirm` ends whatever the chain does: with a receipt, with a revert, or after 120
seconds without one. A transaction that was forgotten or replaced, or that
waits behind a nonce nobody has, gets none (`Unconfirmed`); one that is only late is
the fault `timeout`. An order that Perpl takes is recorded as done, and becomes a
short, or, with `orderFails`, part of `book.unfilled`.

What may go wrong is the constant `Faults`, so that each run says which faults it
assumes, and each theorem which ones it excludes. `MCFlowEngine` adds what lets TLC
take the five attempts a step really has: a bound on the retries over all steps
(`FewRetries`, a constraint of `flow_crash`, which checks invariants only).

### AutomationRunner

`job.at` names the await at which the tick stands; `job.cfg` is the config it read
once at its start. `Scan`, `FetchLogs`, `RecordLog`, `SaveCursor` are
`scanVaultEvents`; `ReadIdle`, `CheckActive`, `StartFlow` are the three awaits
from a trigger to a run, shared by a deposit and by `runPeriodic`; `ListFlows` and
`AdvanceFlow` are `tickFlows`; `WatchBuffer`, `MarkUnbond`, `Unbond` are
`watchLiquidationBuffer`. `CutShort` is a throw that reaches the tick's catch, a
crash, or an unbond that fails: in each case what was written stays and the tick
is over. `flows` is a function from trigger keys, which is what the unique index
on `triggerKey` makes of the collection. The world (`NewBlock`, `Redeem`,
`BufferMoves`, `HalfDayPasses`, `CooldownEnds`, `WriteConfig`) moves between any
two of these steps. `RecordLog` puts the line on the feed and evaluates the
trigger in one step, because nothing else reads or writes what they use.

### Keeper

EXTENDS `DeltaMonVault`. A tick is `ReadState` (one multicall; `ReadFails` when any
part of it reverts), `PlanMark` (`livePerpBook` and `planPerpMark`), `SendMark`
(simulate, then send), `Mined` or `ConfirmTimesOut`, `ClaimRewards`,
`ClaimUnbonded`. `tick.read` is what `readState` returned, `tick.mark` what was
planned from it. The reports are in a `mempool` and mined as
`DeltaMonVault!ReportPerpPnl`. `held` is what the managers hold, `view` the last
word on it, from the socket or from a feed with its own clock (`source`). The vault,
the managers and the market move between any two steps (`VaultMoves`,
`ManagersMove`, `MarketMoves`).

A run is about the book (`watched = {}`) or about unbonding (`watched` the
validators): the two steps of a tick share no state, and a product would only be
larger. `marked`, `seenAt` and the field `clean` observe: what the mark that counts
was read from, and whether anything moved since.

### PerplSession and OrderPlacement

`socket`, `connected`, `timer`, `lastForwarded`, `requestId`, `seq`, `awaiting` are
the session's fields. An action is one event with everything up to the next await.
A socket that was replaced goes on delivering: its handlers refer to the session and
not to the socket, which is why `ErrorEvent(s)` and `CloseEvent(s)` may clear a
successor (`Drop`). `up` and `down` are frames on their way; Perpl drops a frame
whose id is not above the last it forwarded (`PerplReads`). `Submit` builds a batch
(`buildOrderBatch` draws all ids at once) and sends its first frame; each next one
goes out when the one before is accepted (`Resolve`).

`OrderPlacement` is what the rest may rely on: an order is placed or refused once,
after it was asked for, and what the caller is told is so; "unanswered" promises
nothing. The mapping is the exchange's own sets, so the refinement says what the
socket's whole life cannot do.

### HistorySync and HistoryLedger

`feed` is the exchange, `cursor` and `saved` are the two collections, `sync` the
worker of each stream. `ReadPage`, `SaveRows`, `StoreCursor` are the three awaits of
`syncStream`; `NextState` is the cursor behind a page. `CutShort` is a throw or
`stop()`, with part of a bulk write done. Page tokens are opaque to the code, so
both kinds an exchange may use are modelled (`ByOffset`).

`HistoryLedger` has three variables: what happened, what is recorded, and the moment
it is complete to. `Covered` is `fundingThrough`, the least over the streams.

### ConsoleAuth

`challenges`, `sessions` are the maps of `perpAuth.ts`, `stored` the collection.
`request` holds what each request in flight captured before the await it stands at:
the allow rule, the write of a session, the lookup, the cache, the revoke, the
owner's read, the config's write. `sweep`, which every entry point begins with, is
part of each action. A restart empties the maps.

`vaultOwner` is three steps. `VaultOwner` takes the cached owner or asks the chain;
`AnswerOwner` is the node's answer, the owner of that moment; `TakeOwner` is the
await's return, which stamps the answer with the time of its arrival and overwrites
what another request has cached since. Four routes call it (`caller`: a challenge and a
verify of the automation, the read and the write of its config), and `Judge` is what
each does with the owner it got.

### VaultIndex

`index` holds the objects loaded from the file, one per caller, `current` the one
the map holds, `job` the scan. `Load` and `Install` are the two halves of
`vaultIndex()` around its await: two callers that come first both load, and the
later one installs. `Window` takes a window in or fails as a whole. `BeginSave` and
`EndSave` are the write, which a crash tears.

### CrossChainDeposit

`ui` is the panel's state and refs, `op` the async function in progress with what it
captured, `stored` and `recent` the two slots of localStorage. Aurora's executions
(`exec`), transfers (`txs`) and the intermediary's balance (`held`) are external.
`Restore` is the effect that runs on a load and on a change of account; `Save` is
`saveSession` with `setSession`. `overlapped` observes that a session was dropped before
it, or its recovery, was over: another's took its slot (`Crowds`), or a button let it go by
a status that is another's (`LetGo`). A prompt may be declined, a server call may refuse,
its answer may be lost, and an operation may fail as a whole.

### MCServices

The crawl, the sign-in, the index and the Perpl session share no state. A behaviour
of this module is one of them, its `subject`, with the others at rest: one run looks
at all four and no product is built. Each is subject to its own fairness only. The vault
begins with an owner who is no manager and changes hands once in a behaviour
(`OneHandover`).

## 4. Runs, bounds and what they show

Amounts are small integers. Rates have the denominator `BPS = 2`, so a fee, a
slippage or a band of one half is used where the contract has percents: rounding
errors of a real vault become visible with one-digit balances, and the algebra
does not depend on the denominator.

| run | states | question |
| --- | --- | --- |
| `vault_shares` | 490 thousand | Two holders, three calls of theirs, MON and AUSD bought and sold, two prices, a feed that fails. Does anyone lose to a deposit, mint, exit or transfer; are fees on profit only; can everyone leave; is an exit in kind fair? |
| `vault_perp` | 170 thousand | Two managers cleared, funded, removed, paying back in two tokens, reports by keeper and owner, marks that are old after one tick. Does the book balance and keep its value, is a result of this book, and never paid unconfirmed? |
| `timelocks` | 460 thousand | Two limits that move against each other, two venues, a delay of two and a clock of five: two full delays. Can a depositor who looked be surprised? |
| `flow_crash` | 1.7 million | Five attempts a step, three retries in all, a crash at every await, foreign transactions, dropped transactions, plans that throw, lost acknowledgements, refused sends, orders that fail on chain. Is a step executed twice, out of order, or recorded without having happened? Does a run miss its allocation? |
| `flow_ends` | 1.5 million | Timeouts, lost answers, reverts, dropped transactions, refused sends, failed reads, no crash. Does a run end? |
| `automation` | 2.2 million | Three blocks in chunks of two, one chunk a tick, three configs, one cut tick, a head that lags. One run at a time, no restart, nothing skipped, and is a dip of the buffer answered? |
| `keeper` | 310 thousand | Two managers, a market that moves by one, a socket or a lagging feed; two validators with two withdraw ids, so that ids wrap while both are in use, RPC errors and outages. Does the mark lapse or overstate; is every unbond recorded, paid in full and claimed? |
| `services` | 800 thousand | Two streams of three rows and of one, pages of one row, two pages a tick, a cut; two addresses, two requests, two tokens of one nonce, an owner who is read behind an await and changes once; six blocks in windows of four, two callers, two cuts; three sockets, two callers, two orders. |
| `crosschain` | 4.4 million | Two accounts, three executions, two sends of each, a reload or a change of account anywhere. Is money sent twice, before the signature, or forgotten? Is the vault call covered? |

Three runs end in a violation on purpose, see section 7.

*Why the bounds are enough.* `CallBudget` bounds depositors' calls, not the
treasury's: three calls are two to set a victim up and one to harm it, or a
deposit, a transfer and an exit; dilution or a fee on no profit needs no longer
chain because each is a property of one step from a reachable state. `BookLimit`
keeps balances finite; `VirtualShares = 8` keeps the same order between shares and
assets as the contract's offset. Two withdraw ids are the smallest space that
wraps with one id still in use. Two managers are needed for the mark and the debts
to be of different managers. `flow_crash` has the `MAX_ATTEMPTS = 5` of the code, and a
run of the pipeline may use up to three retries (`RetryBound`), on one step or on
several: a stale hash on record takes two of them to do harm. In `flow_ends` and
`flow_resume` two attempts with `MAX_ATTEMPTS = 2` are the first retry and the last.
`SpareUsdc` and `SpareMon` make a double execution feasible, so that the
checks cannot pass for lack of money. `ManualBound` lets another sender take a
nonce once. In the automation a chunk of two can hold two logs; one cut is enough to
replay a range, and the proofs do not depend on it.

In `keeper`, `ReportMaxAge = 1` and a clock of four let a mark be made, grow old and
be made again while a book is open. Two moves are one between the reading and the
plan and one between the plan and the block. `Faults`, `TroubledMoves` and
`TroubledTime` bound the runs in which something fails; those in which nothing fails
have a tick at least every `TickGap`, which is what "ticks come" means in
`MarkNeverLapses`. In `services`, three rows with a page of one make a sweep of two
ticks with a row on top of it; two tokens of one nonce are the least that could be
opened twice; a window of two chunks needs a second to skip one; three sockets are
one that failed, one that its late close clears, and one more. In `crosschain` an
execution for each account and one to start another are the least for a leftover
that is counted twice; an upset takes one of the three (`Upset`, `FirstFree`), which
keeps the states of a run with a reload from multiplying with those of three
executions. Where the proofs of section 6 state the same property, they need none
of these bounds.

Symmetry is used over holders, managers and accounts, in safety runs only.

*Deadlock* is checked in the runs of the vault, the timelocks and the automation. A
run of the pipeline really stops, done or failed, once the mempool is empty. A keeper
whose budgets are spent, a feed that has ended and a chain at its last block have
nothing left to do, which is an end of the bounds and not of the code. In
`crosschain` a panel that shows another account's session, after a change of account
in the middle of an operation, waits for a reload.

## 5. Fairness

`KeeperFairSpec` (`keeper`): the steps of a tick come back (`TickStep`, weak), sent
reports are mined, epochs end, an oracle that is down comes back, and `ReadState` is
strongly fair: the interval timer (`keeper.ts` 86) fires for ever and some
tick finds the oracle up. Nothing is assumed of the owner, the depositors, the
managers or the market.

`FlowEngine!FairSpec` (`flow_ends`): the worker goes on, and a transaction whose
turn it is gets mined. The automation ticks every 20 seconds
(`automationRunner.ts` 240-248), `tickFlows` advances every running run on each
tick, and every await of the engine ends (`confirm` has a timeout of 120 seconds,
Perpl's answer one of its own). Nothing is assumed of a restart, which is why
`flow_ends` has no crash: after one, a flow can stay running for good (section 7).

`AutomationRunner!FairSpec` (`automation`): ticks go on and none of their
awaits hangs, and hours pass. Nothing is assumed of the chain, the admin, the
market or the feed; cuts are bounded by `FailBound`, since a tick that is cut
every time never comes to the watcher.

`ServicesSpec` (`services`): for the crawl, ticks go on and the awaits of a sync
come back (`HistoryWork`); for the index, requests for the yield go on and so does
the scan they start (`IndexCall`, `IndexWork`); for the Perpl session, the timer of
an order that waits fires (`AckTimeout`, `perplSession.ts` 353-361). Nothing is
assumed of sockets, of Perpl, or of rows and blocks arriving. The sign-in has no
liveness and needs no fairness, and neither does the cross-chain deposit, whose every
step waits for a user.

## 6. Proofs

All proofs hold for every value of the constants, under the named assumptions of
the modules (`VaultAssumption`, `TimelockAssumption`, `FlowAssumption`, `RunnerAssumption`,
`KeeperAssumption`, `SessionAssumption`, `HistoryAssumption`, `IndexAssumption`,
`AuthAssumption`, `DepositAssumption`), which only say what kind of thing each constant
is, and three that say more. `NoLateAnswers` and `NoSecondSend` (FlowEngineProofs) are
explained below.
`TicksAreFrequent` (Keeper) says that two ticks fit into the age a report may have:
the keeper ticks once a minute (config.ts 26), a report counts for six hours
(DeltaMonVault.sol 143). Only `MarksDoNotLapse` uses it.

**DeltaMonVaultProofs.** `MarkInv` is inductive: the perp book's types, an empty
book has no mark, a mark that counts is not older than the open book. The types
belong to it because a report is dated now and a book opens now, so the second
date is never ahead of the first. `OpenBook`, `DockMark` and `ReportPerpPnl` are
the steps it is about; everything else leaves the perp book alone. It gives
`PerpTypes`, `EmptyBookIsUnmarked` and `MarkIsOfThisBook`. `UnbondInv`, the types
of the staking variables and `SlotsMirrorRequests`, is inductive as well:
`Unstake` finds its slot free in both books or reverts, a claim clears both. It
gives `SlotsMatch` and the action property `UnbondsArePaidInFull`, for any size of
the id space, so for 256. The keeper claims through the same vault, so the core of
the second is a lemma about any step of the vault (`StepsPayInFull`).

`TypeInvariant` covers every variable: no subtraction of the vault goes below zero.
That needs the two facts about the perp book above, and what the guards leave: a
vault pays from `wmon` only what it holds, and an exit takes no more than its share.

`BookIsBalanced` rests on sums over sets, which the model writes as folds. The library's
induction theorems cannot be instantiated here, but an induction over *sets of
numbers* can be done by hand: take the least number for which the claim fails,
which `WFMin` and `NatLessThanWellFounded` provide, and derive a contradiction. So
the lemmas show what a sum is when one element changes, and no more is needed.

The properties of shares and prices rest on rounded quotients of products. Z3 is of
little use there, and two lemmas carry all of it: `MulDivFloor` and
`MulDivCeiling` say between which products a quotient lies, and the rest is
comparing products with a common factor. They give `NobodyIsDiluted` (no operation
at a live price lowers what a share is worth), `FeeIsOnProfit` (a fee is at most its rate
on what the leaver's shares were worth above the basis that left with them), `UnconfirmedGainStays` (while
the mark is not confirmed nobody comes in, and a leaver is paid as if the book had made
nothing), `InKindIsFair` (an exit in kind costs those who stay nothing, as long as the idle
USDC covers the fees owed) and `BookValueIsConserved`. The last takes `costBasis` unchanged as its sign of "no
deposit and no exit", not the shares: a deposit so small that it mints nothing changes
the first and leaves the second.

`StakeIsBalanced` is the staking account: `stakedMon` is the sum of the delegations and
`unstakingMon` the sum over all slots of all validators, the same sums as above, one of
them nested. With `BookIsBalanced` it gives `NoTotalUnderflows`: the checked
subtractions of a claim, an unstake and a manager's return never revert, so no money is
stuck behind an accounting error.

`ExitsAreOpen` is what can be proved of `ExitNeverBlocked`. ENABLED is out of reach, but
the guards are not: `ExitGuards` shows that each of the three exits is a guard
(`MayRedeem`, `MayWithdraw`, `MayRedeemInKind`) and one assignment to each variable, so
that a state that meets the guard has an outcome of the call, and the theorem that all
that `maxRedeem` and `maxWithdraw` report, and anything less, meets it. It comes down to
three facts about rounding (`ThereAndBack`): a conversion there and back gains nothing,
the shares that at most a floor's worth of assets costs are at most those shares, and
what the idle USDC buys is no more than a balance worth more than it.

**VaultTimelocksProofs.** `NoSurprise` is not inductive: whether a raise can land
inside the delay depends on when it was announced. `TimelockInv` adds, for the
settings and for the venue, that what waits is what the depositor read, with the
same date, or falls due no earlier than a delay after the look. It gives
`LimitsNeverSurprise`, `NoRaiseBehindACut`, `VenueNeverSurprises`,
`TimelockTypes`.

**FlowEngineProofs.** Four invariants; the others contain the first.
`SeqInv`: the types, which status a step has at each await of the worker, and that
a step is untouched (in the document, on chain, in the worker's hands) until all
before it are done. It gives `FlowTypes` and `StepsRunInOrder` for any faults.
`DoneInv` adds that the worker holds a hash where it waits for or has seen a
receipt, and that a receipt it has seen stays; it gives `DoneMeansMined` for any
faults.

`OnceInv` adds what rules a second execution out, under `NoLateAnswers`: no `timeout`,
`lostResponse` or `readFails`, and with `crash` no `slowPool`; with any of these TLC
finds a mined step sent again (section 7). What is left can make a transaction
*fruitless*: it is reverted, forgotten or replaced, the step fails and is tried again,
and meanwhile the old hash stays on record. That does harm only if a restart reads it,
so a step is trusted (`Trusted`) if the process cannot crash or none of its transactions
is fruitless. Of any step: a transaction that can still be mined is the last attempt's,
has its wallet's next nonce, and is waited for or will be by who restarts (`LiveInv`), so
that nothing comes late; one that is mined has spent its nonce, and one that is
fruitless has a fault to thank (`FateInv`); a hash that is waited for is that of the
present attempt (`SentInv`). Of a trusted step: what is mined or can be is the last
attempt's, under the nonce on record, never while the worker is about to send
(`CountInv`); and the hash on record, while the process may crash, is the last
attempt's (`HashIsLast`). While it may not crash, every send of the document is in the
worker's hands (`WorkerKnows`).

It gives `MinedOnceOverCrashes`: under `NoLateAnswers` a trusted step is mined at most
once, which is `SentOnce`, the property the run checks. And it gives, for every step,
`SentAtMostOnce` and `NothingSentAgain` under `NoSecondSend`, which adds: with `crash`
no `revert`, `dropped` or `manual`, since with any of these three a crash lets a stale
hash speak for a later attempt (section 7). So no step at all is executed twice through
crashes anywhere with failing plans, refused sends, lost acknowledgements and orders
that fail, nor, while nothing crashes, through reverts, dropped transactions and other
senders with the retries they cause.

`AllocInv` adds to `DoneInv` the amounts. While nothing was executed twice, every
transaction of a step that moves money moves the share meant for it (`SharesRight`), the
book is what the mined ones moved (`BookRight`), the balance noted before a swap is the
one without it (`BeforeRight`), and a result that was read back is that share
(`ResultsRight`). What is planned from a result needs it to be there (`SourceInv`), and
the order of a first attempt is placed once, for what was staked, on the chain or in
vain (`ShortInv`). It gives `DoneIsHedged` for any shares, attempts and faults: the four
excuses of `AllocatedAndHedged` (a step executed twice, a result lost, an order placed
again, an order the chain refused after Perpl took it) are all it takes, also where the
run's subset of faults does not reach. Each of the four happens (section 7).

**AutomationRunnerProofs.** `RunInv` adds to `OneRunAtATime` that no run is open
when the worker stands before the insert, and that the list a tick works through
holds only open runs. Both say that what was read before an await is still true
behind it; they hold because only the tick opens and ends runs and ticks do not
overlap. It gives `OneRun` and `RunsStartOnce`. `ScanInv` says that the range
being worked through begins behind the cursor, ends at a block the chain has
reached, and that each of its deposits is on the feed or still in hand; it gives
`NoDepositIsSkipped` as long as the feed can be written.

**KeeperProofs.** The keeper runs the vault's own actions, so its invariant is about
both, and every step that is a step of the vault keeps what the vault's steps keep
(`VaultTakesAStep`). `KeeperInv` has four parts besides the types. *Reads are in
time*: what the tick has in hand was read no earlier than the last tick that read the
vault. *Marks are true*: a mark in the tick's hands, in the mempool or on record which
nothing has overtaken (no market move, no payment since its book was read) puts the
book at no more than the managers hold, or it is the band's and the admin was
told. *Ticks confirm*: a tick that passed its mark without failing left one that is less
than half its life old, a mark it found too old is replaced by the report on its way, and
nothing else is in the mempool. *Marks are of recent books*: what a tick reports
describes a book that was within `MaxBookAge` when the tick read the vault. Without
the second, `BookNeverOvervalued` is not inductive, for the report that would break it
was made earlier; without the third, `MarkNeverLapses` is not, because the tick that
should have refreshed the mark is past. It gives `MarksDoNotLapse`,
`BookIsNotOvervalued` and `FreshMarksAreRecent`, and, for the vault run by its keeper, `KeeperKeepsSlots` and `KeeperClaimsInFull`.

`KeeperRunsTheVault` is a refinement: every step of the keeper, its managers and the
mempool is a step of `DeltaMonVault` or a stutter. The keeper may report any result, so
the vault it implements is the one with `Pnls <- Int`; the other constants and all
variables are its own. Everything proved of the vault is proved for any `Pnls`, so it
carries over: `KeeperKeepsThePromises` takes ten theorems of `DeltaMonVaultProofs`
through the instance, among them `NoDilution`, `FeeOnlyOnProfit` and
`InKindFairWhileFeesCovered`, none of which a run of the keeper checks.

**SessionProofs.** `AnswersAreTrue` is a refinement: every step of the session is
a step of `OrderPlacement` or a stutter. `SessionInv` is what that takes: a frame on
its way was asked for, is on one socket at most and has no verdict yet; a status on
its way tells the verdict; batches share no number, and only the first frame of a
batch was sent; nothing was said of an order before its turn. No part of it is about
which socket is the session's or whether it is connected: answers are matched by
number, and this is why the late close events do no harm to the answers.
`NoTriggerBeforeItsEntry` is `BatchesApart`, read for one caller. `OneBatchIsNeverLate`
(`IdsStayAhead`) has an invariant on top of it, `IdsInv`: every number on its way was
drawn from the counter; what waits for an answer is the first frame of a batch; and while
batches do not overlap, that frame's number is ahead of every other on its way, and
Perpl's last one does not reach it before the order is placed.

Of the console, `AuthInv` adds to the properties that a nonce is in one place (on a
challenge, in one request's hands, or behind one token), that a request that works on
a token works on one that was minted, and what is known of the owner
(`OwnerWasKnown`): an answer on its way was read at most `ReadTime` ago, and if it names
an owner who is none any more, the vault changed hands after the reading; so a cached
owner lost the vault no earlier than `ReadTime` before the cache's date, whichever of
several overlapping answers came last. It gives `OneSessionPerChallenge`,
`SignedOutForGood` and the action property `OnlyOwnersWrite`.

**CrawlProofs.** `CrawlIsALedger` is a refinement to `HistoryLedger`, for any
streams, page sizes, pages a tick and cuts, and for page tokens of either kind.
`HistoryInv` says what a cursor stands for: the rows up to its anchor are recorded;
so is every row before the moment the stream is complete to; and while a sweep is
unfinished, so are the rows between the page it goes on from and its head, and rows
above the head came after the sweep began. Its parts are operators on the values of
a stream (`CursorTrue`, `JobTrue`), so that the lemmas about reading, saving and
storing a page speak of no state. `Covered` is the least of the streams: that there
is one comes from `WFMin`, the well-foundedness of `<` on the naturals (`LeastNatural`).
`ChartsMissNothing` says the same in the words of a chart.

`NoBlockIsSkipped` is about the index, for any sizes of chunks and windows and any number of
callers. `IndexInv` says of every index, in memory, on disk or being written, that it holds
every block up to the one it is synced to; and of the one scan that runs, that its range
begins there. The part that takes work is a window: chunks that are asked for side by side,
the last one cut off at the head, leave no gap up to the greatest end among them.

**CrossChainDepositProofs.** What lets a transfer go out is what the page believes.
`DepositInv` says when its beliefs are true: a session, on the screen, in hand or in
either slot of storage, keeps a hash only of a signed execution (`SessionsTrue`); what
runs was signed; and a status that says "signed" is right about the session on the
screen as long as that session is the connected account's. It gives
`SignatureComesFirst` and `KeptSessionsAreTrue`.

`TransferInv` adds how the four copies of a session agree. A session may be on the
screen, in the hands of a function that waits, in the one slot of storage and in the
slot of recent ones, and each may be older than the others. While no session was dropped
before it was over (`~overlapped`), the one that can still move money is the one in
storage (`SignedIsStored`); its hash is right (`HashRight`: every transfer the page
knows of, but that one, reverted), and so is the hash in hand; a screen that differs
from storage shows a session that is over, and its status offers nothing to send
(`ScreenIsStored`); what is in storage finds the money its calls were made for
(`Covered`). It gives `OneTransferPerExecution`, `TransfersAreRemembered` and
`CallsAreCovered`. Stating it showed that `NoSecondTransfer` did not hold beyond the
bounds of the run, and that `overlapped` missed two ways to drop a session
(section 7); both are mended, and the invariant was first checked by TLC on the run's bounds
and by random walks on larger ones.

*Left to TLC.* Liveness (`UnbondIsClaimed`, `FlowEnds`, `DipIsAnswered`,
`EveryRowIsRecorded`, `IndexCatchesUp`, `SubmitEnds`) and the ENABLED of
`ExitNeverBlocked` (`ExitsAreOpen` proves its guards) are out of the prover's reach; what the three runs that expect a
violation check is false. Every other property of a run is a theorem. The theorems
without a property of a run are steps on the way (the type invariants,
`EmptyBookIsUnmarked`, `NoRaiseBehindACut`, `KeptSessionsAreTrue`), say a property that a
run does check in other words (`ChartsMissNothing`) or under other conditions
(`SentAtMostOnce`, `NothingSentAgain`, `KeeperKeepsThePromises`), or go beyond the runs (`StakeIsBalanced`,
`NoTotalUnderflows`, `ExitsAreOpen`, `KeeperRunsTheVault`). TLC
found these four true on the bounds of the runs before they were proved.

## 7. Where code and documents disagree

Three runs end in a violation, each of one sentence of the repository:

- `vault_inkind_fees`: with fees owed above the idle USDC, an exit in kind takes
  full shares of WMON and AUSD and leaves the debt behind. VAULT.md 86-87: "so
  nobody who stays can lose by it". True while idle USDC covers the fees
  (`InKindFairWhileFeesCovered`).
- `flow_resume`: a step resolved by its hash has no result, later steps that read
  it skip themselves, and the run ends done without a short. `flowEngine.ts`
  26-27: "a restart resumes at the step that was in flight".
- `keeper_outage`: `readState` reads `monPrice` in a multicall that fails as a whole,
  so a tick during an outage is lost before it compares `oracleLive`, and the alerts
  stay those of the tick before. `keeper.ts` 58-59: "It also raises alerts for what
  only the admin can fix: no idle USDC left for exits, an oracle outage".

More, seen with the models and given no run of their own. The flow engine's, each
reproduced by the constants named:

- `Faults = {"readFails"}`, `AtMostOnce`: a read that fails after the receipt makes
  the engine send a mined step again. `flowEngine.ts` 28-29: "never sent again".
- `Faults = {"crash", "slowPool"}`, `AtMostOnce`: after a restart with the transaction
  still in the mempool the nonce counts as unused and the step is sent again under
  the next one. `txRunner.ts` 6, 12-13: "exactly once", "re-sending with the same
  nonce".
- `Faults = {"timeout"}`, `AtMostOnce`: a receipt that comes after the timeout, the
  retry pins the next nonce, both are mined.
- `Faults = {"lostResponse"}`, `AtMostOnce`: the broadcast reaches the node, its answer
  or the write of the hash fails, the step counts as failed and is sent again.
- `Faults = {"crash", "dropped"}`, or `"revert"` or `"manual"` with the crash,
  `MAX_ATTEMPTS = AttemptBound = 3`, `AtMostOnce`: the hash of an attempt that was
  forgotten, reverted or replaced is still in the document when the next attempt
  crashes before writing its own; the restart judges that one by it, finds it failed
  though it is mined, and the step is sent a third time. `SentOnce` excuses a step with
  such an attempt.
- `Faults = {"planFails"}`: a plan that throws leaves the step pending, and only
  failed steps count against the limit, so the retries are unlimited
  ("up to a limit", `flowEngine.ts` 28).
- `Faults = {"ackLost"}`, `HedgedWhenDone`: an order that was taken and whose answer is
  lost is placed again.
- `Faults = {"orderFails"}`, `HedgedWhenDone`: Perpl's answer means that the order was
  forwarded (`perplSession.ts` 19). One that then fails on chain is only logged
  (256-264), the step is recorded as done (`flowEngine.ts` 548-556) and the run ends
  done without a short.

The Perpl session's and the services':

- Two batches at a time draw their request ids when they are built and send them
  later; a trigger may then go out with an id Perpl has passed, and is refused. The
  property `IdsStayAhead` excuses it (`overlapped`): with one batch at a time it does
  not happen.
- The close event of a socket that failed clears its successor and opens a third
  (`perplSession.ts` 196-204). Orders that wait on the second are answered "did not
  acknowledge" although they may be filled: true, as "unanswered" promises nothing,
  but the caller may order again.
- A lookup that read the stored session before a sign-out caches it again after
  (`perpAuth.ts` 200-224). The session then lives until it expires or the process
  restarts. `SignedOutStaysOut` speaks of sessions that nobody was looking up.
- The owner is read, awaited and cached for a minute as of the arrival
  (`routes/automation.ts` 33-47): the cache may be older than its date by the time of a
  read, and of two reads that overlap the older may come last and put an old owner back.
  Who loses the vault may write the config for the minute and the time of one read:
  `ConfigIsTheOwners` allows `OwnerTtl + ReadTime`, and with `OwnerTtl` alone TLC finds
  it violated.
- The cross-chain panel has one slot of localStorage for all accounts, and a second
  account's session takes it over while the first's money is on its way.
- `clearSession` leaves the status of the last recovery in place, so that a new
  session may be let go of by it (`overlapped`).
- A session so taken over may be on a second screen or in the slot of recent ones, in a
  copy that does not know of the last transfer, and "View details" brings it back: after
  some forty steps of two accounts the panel offers to send again. `NoSecondTransfer`
  excuses it (`overlapped`); the run's bounds are too small to get there.
- A page that goes away between the wallet's broadcast and the save of the hash does
  not know of the transfer: it offers to send again (`lostHash`).
- The quote's expiry is checked at the click and not at the prompt: a transfer may be
  signed after it.

Of the rest:

- A crash between the write of `needs-review` and `finishFlow` (`flowEngine.ts`
  258-262) leaves the flow running: 195 returns on every tick and no run starts.
- VAULT.md 88-89: "Deposits stay shut until the feed returns". With no MON in the
  vault nothing reads the feed, and a deposit goes through.
- `README.md` 36 describes a queue and 36 hours; `DeltaMonVault.sol` 35-36 and
  VAULT.md 71-74 say there is none. The contract's lines 30-32 still call the delay
  "longer than the redemption deadline".
- `packages/shared/src/schemas.ts` 122: "Nothing is signed while this is false".
  The tick reads the config once; a switch-off during a tick takes effect at the
  next, after a run may have been opened and a step signed (`WriteConfig` while
  `job.cfg` keeps the old document).
- `AutomationPanel.tsx` 211: "Runs on each deposit, for that deposit's USDC". A run
  allocates all idle USDC, and a deposit seen while a run is open starts none:
  `CheckActive` goes on and `SaveCursor` passes the block.
- `recordActivity` (`automationStore.ts` 84-87) only logs a failed write. The
  cursor moves on and the line is lost (`feedFails`; without it
  `NoDepositIsSkipped`).

## 8. What is not modelled

*In DeltaMonVault*: `setLimits`, `setKeeper`, `setDepositors`, ownership,
allowances, receivers, events. *In FlowEngine*: a receipt of a replaced
transaction (viem's `waitForTransactionReceipt` may answer with the receipt of the
transaction that took the nonce, and `confirm`, `txRunner.ts` 77-79, does not compare
hashes: a step would then be done by somebody else's transaction, which `DoneIsDone`
does not see), a manager without gas (300-305), a document write that fails before
it lands, several runs at once (`OneRunAtATime` excludes them), rewards and claims that
reach the vault during a run, the cut of the order to Perpl's size decimals, how much of
a forwarded order is filled (all of it or, with `orderFails`, nothing).
*In AutomationRunner*: the timer itself, a missing
vault address or admin wallet, several positions (the worst buffer is `dip`), a
stored config that does not parse, events other than deposits, two deposits in one
block (they differ in the log index only). One process is assumed, as DEPLOY.md
79-81 demands; the unique key is what stands between two.

*In Keeper*: the dry run, a missing address, a key that is not the keeper's (such a
keeper changes nothing), and the two steps of a tick in one run (section 3). *In
PerplSession*: balances, positions, accounts, `stop()`. *In HistorySync*: the
snapshots and projections, which are arithmetic over rows. *In ConsoleAuth*: the
signature's check, which stands for its address; a node that lags, and an answer that
takes longer than `ReadTime` (viem gives an HTTP request ten seconds; a lag would add to
it). *In VaultIndex*: what a log adds to
the sets. *In CrossChainDeposit*: two tabs over one storage, polls of one execution
that overlap, the catalogue, balances and gas checks.

*Not modelled at all.* `DeltaVault.sol`, `DeltaNeutralStrategy.sol` and the two adapters
written for them: "designed, not wired" (docs/STRATEGY.md 23), "kept for reference"
(packages/contracts/README.md 11); their adapters are stubs on both sides, since
`AprioriStakingAdapter.unstake` sends shares to an adapter without a claim and
`PerplHedgeAdapter` forwards no collateral (its TODO), so that what the design promises
is not there to be checked. What can be read off it as a hazard is listed without a
property. `SdMonVault.sol`, the vault before the perp book, whose share arithmetic
`DeltaMonVault` keeps. `KuruSpotAdapter` and the oracles, which the vault's model sees as
a venue that pays at least the floor and a feed that answers or does not. Formatting and
signing (`perplAuth.ts`, most of `perplOrders.ts`), stateless readings and projections,
routes that only read, views, deployment scripts.

By lines most of the implementation is of this kind: generated ABIs (more than a
quarter of all lines), React views and their layout, design pages, schemas. The map
covers the files with state, and of those the functions that change it; a share
beyond that could only be had by stretching definitions over code they do not
translate.
