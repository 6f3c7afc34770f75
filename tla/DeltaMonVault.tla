---------------------------- MODULE DeltaMonVault ----------------------------
(***************************************************************************)
(* The depositor vault of DeltaMonVault.sol: shares and cost basis, idle   *)
(* USDC and the fee owed out of it, MON wrapped / native / staked /        *)
(* unbonding, AUSD, and the perp book held by custodial managers.          *)
(*                                                                         *)
(* One action is one external call: the contract is nonReentrant, so a     *)
(* call is atomic, and a call that reverts is a step that is not enabled.  *)
(* The settings behind a timelock are constants here; VaultTimelocks.tla   *)
(* is about how they change.  The caller's own purse, allowances and the   *)
(* receiver of a payment are outside the vault's state and left out.       *)
(***************************************************************************)
EXTENDS Integers, FiniteSets, FiniteSetsExt

CONSTANTS
    Holders,            \* addresses that deposit
    Self,               \* the vault's own address, a possible transfer target
    Managers,           \* addresses that may be cleared as perp managers
    Validators,         \* validators whose commission is inside the cap
    WithdrawIds,        \* size of the u8 withdraw-id space (256 in the code)
    VirtualShares,      \* 10 ** SHARE_DECIMALS_OFFSET
    BPS,                \* the denominator of every rate (10_000 in the code)
    FeeBps, SlippageBps, ParityBps, PnlBandBps, CeilingBps,
    ReportMaxAge, DepositCap, MinDeposit

CONSTANTS               \* the inputs a run offers, and its bounds
    DepositAmounts, MintAmounts, MonSwaps, AusdSwaps, MonAmounts, PerpTokens, PerpAmounts, Pnls,
    Rewards, Prices, FeedStates,
    BookLimit,          \* no balance may pass it
    MaxTime,            \* the last value of the clock
    CallBudget          \* how many calls depositors make in a run

ASSUME VaultAssumption ==
    /\ Self \notin Holders
    /\ IsFiniteSet(Holders) /\ IsFiniteSet(Managers) /\ IsFiniteSet(Validators)
    /\ WithdrawIds \in Nat \ {0}
    /\ VirtualShares \in Nat \ {0} /\ BPS \in Nat \ {0}
    /\ {FeeBps, SlippageBps, ParityBps, PnlBandBps, CeilingBps} \subseteq 0..BPS
    /\ {ReportMaxAge, DepositCap, MinDeposit, BookLimit, MaxTime, CallBudget} \subseteq Nat
    /\ DepositAmounts \subseteq Nat /\ MintAmounts \subseteq Nat
    /\ MonSwaps \cup AusdSwaps \subseteq Nat /\ MonAmounts \subseteq Nat \ {0}
    /\ PerpTokens \subseteq {"usdc", "ausd"} /\ PerpAmounts \subseteq Nat /\ Pnls \subseteq Int
    /\ Rewards \subseteq Nat /\ Prices \subseteq Nat \ {0}
    /\ FeedStates \subseteq BOOLEAN

VARIABLES
    balanceOf,              \* sdMON per account, the vault's own included
    costBasis,              \* what each account paid in
    usdc, ausd, wmon, native,               \* token balances of the vault
    accruedFees,
    stakedMon, unstakingMon, pendingUnstake, nextWithdrawId,
    delegated, requests,                    \* the staking precompile's books
    isPerpManager, perpManagerOutstanding, perpManagerDeployed,
    perpReportedPnl, perpReportedAt,
    paused,
    price, oracleLive,                      \* what MON is worth; can it be read
    now,
    perpOpenedAt,           \* observation only: when the present book opened
    callsLeft               \* bound only: depositor calls still allowed

shareVars  == <<balanceOf, costBasis>>
monVars    == <<wmon, native>>
stakeVars  == <<stakedMon, unstakingMon, pendingUnstake, nextWithdrawId,
                delegated, requests>>
perpVars   == <<isPerpManager, perpManagerOutstanding, perpManagerDeployed,
                perpReportedPnl, perpReportedAt, perpOpenedAt>>
marketVars == <<price, oracleLive, now>>
vars == <<shareVars, usdc, ausd, monVars, accruedFees, stakeVars, perpVars,
          paused, marketVars, callsLeft>>

Accounts == Holders \cup {Self}
Slots    == 0 .. WithdrawIds - 1

-----------------------------------------------------------------------------
(***************************************************************************)
(* Arithmetic and valuation                                                *)
(***************************************************************************)
MulDiv(a, b, c)   == (a * b) \div c
MulDivUp(a, b, c) == (a * b + c - 1) \div c
PosPart(n)        == IF n > 0 THEN n ELSE 0
Smaller(a, b)     == IF a <= b THEN a ELSE b
SumOver(f, S)     == MapThenSumSet(LAMBDA x : f[x], S)

totalSupply == SumOver(balanceOf, Accounts)
totalMon    == wmon + native + stakedMon + unstakingMon

(* Definitions named _as_... are never used by the specification: each is   *)
(* the definition below it with a plausible bug, to show that a property   *)
(* of a run can tell the two apart.                                        *)
availableLiquidity_as_unreserved == usdc

availableLiquidity == PosPart(usdc - accruedFees)

perpReportIsStale ==
    /\ perpManagerDeployed # 0
    /\ perpReportedAt = 0 \/ now > perpReportedAt + ReportMaxAge

perpEquity_as_reported ==
    IF perpManagerDeployed = 0 THEN 0 ELSE PosPart(perpManagerDeployed + perpReportedPnl)

(* A stale gain is dropped, a stale loss still counts, the sum is floored. *)
perpEquity ==
    LET pnl == IF perpReportIsStale /\ perpReportedPnl > 0 THEN 0
                                                          ELSE perpReportedPnl
    IN  IF perpManagerDeployed = 0 THEN 0 ELSE PosPart(perpManagerDeployed + pnl)

grossAssets == usdc + totalMon * price + ausd + perpEquity
totalAssets == PosPart(grossAssets - accruedFees)

(* monToAssets reads the oracle only when there is MON to price, so only   *)
(* then does an outage make every valuation revert.                        *)
Priced == oracleLive \/ totalMon = 0

convertToShares(assets) == MulDiv(assets, totalSupply + VirtualShares, totalAssets + 1)
convertToAssets(shares) == MulDiv(shares, totalAssets + 1, totalSupply + VirtualShares)
previewMint(shares)     == MulDivUp(shares, totalAssets + 1, totalSupply + VirtualShares)
previewWithdraw(assets) == MulDivUp(assets, totalSupply + VirtualShares, totalAssets + 1)

maxDeposit == IF paused THEN 0 ELSE PosPart(DepositCap - totalAssets)
maxMint    == IF maxDeposit = 0 THEN 0 ELSE convertToShares(maxDeposit)
maxRedeem(h) ==
    IF convertToAssets(balanceOf[h]) <= availableLiquidity
    THEN balanceOf[h]
    ELSE convertToShares(availableLiquidity)
maxWithdraw(h) == convertToAssets(maxRedeem(h))

-----------------------------------------------------------------------------
Init ==
    /\ balanceOf = [a \in Accounts |-> 0]
    /\ costBasis = [a \in Accounts |-> 0]
    /\ usdc = 0 /\ ausd = 0 /\ wmon = 0 /\ native = 0
    /\ accruedFees = 0
    /\ stakedMon = 0 /\ unstakingMon = 0
    /\ pendingUnstake = [v \in Validators |-> [i \in Slots |-> 0]]
    /\ nextWithdrawId = [v \in Validators |-> 0]
    /\ delegated = [v \in Validators |-> 0]
    /\ requests = [v \in Validators |-> [i \in Slots |-> [amount |-> 0, ready |-> FALSE]]]
    /\ isPerpManager = [m \in Managers |-> FALSE]
    /\ perpManagerOutstanding = [m \in Managers |-> 0]
    /\ perpManagerDeployed = 0
    /\ perpReportedPnl = 0 /\ perpReportedAt = 0
    /\ perpOpenedAt = 0
    /\ paused = FALSE
    /\ price \in Prices /\ oracleLive = TRUE
    /\ now = 1
    /\ callsLeft = CallBudget

-----------------------------------------------------------------------------
(***************************************************************************)
(* Depositors                                                              *)
(***************************************************************************)

(* _pullAndMint, after deposit has priced the assets or mint the shares.   *)
PullAndMint(h, assets, shares) ==
    /\ assets >= MinDeposit
    /\ usdc + assets <= BookLimit
    /\ usdc' = usdc + assets
    /\ costBasis' = [costBasis EXCEPT ![h] = @ + assets]
    /\ balanceOf' = [balanceOf EXCEPT ![h] = @ + shares]
    /\ UNCHANGED <<ausd, monVars, accruedFees, stakeVars, perpVars, paused, marketVars>>

Deposit(h, assets) ==
    /\ ~perpReportIsStale
    /\ Priced
    /\ assets <= maxDeposit
    /\ PullAndMint(h, assets, convertToShares(assets))

Mint(h, shares) ==
    /\ ~perpReportIsStale
    /\ Priced
    /\ shares <= maxMint
    /\ PullAndMint(h, previewMint(shares), shares)

basisOf(h, shares) ==
    IF balanceOf[h] = 0 THEN 0 ELSE MulDiv(costBasis[h], shares, balanceOf[h])

feeOn_as_on_gross(gross, basis) == MulDiv(gross, FeeBps, BPS)

feeOn(gross, basis) ==
    IF gross > basis THEN MulDiv(gross - basis, FeeBps, BPS) ELSE 0

Settle_as_paid_gross(h, shares) ==
    LET gross == convertToAssets(shares)
        basis == basisOf(h, shares)
    IN  /\ shares <= balanceOf[h]
        /\ gross <= availableLiquidity
        /\ costBasis' = [costBasis EXCEPT ![h] = @ - basis]
        /\ balanceOf' = [balanceOf EXCEPT ![h] = @ - shares]
        /\ accruedFees' = accruedFees + feeOn(gross, basis)
        /\ usdc' = usdc - gross
        /\ UNCHANGED <<ausd, monVars, stakeVars, perpVars, paused, marketVars>>

(* _takeBasis, _burn and _settle: what redeem and withdraw have in common. *)
Settle(h, shares) ==
    LET gross == convertToAssets(shares)
        basis == basisOf(h, shares)
        fee   == feeOn(gross, basis)
    IN  /\ shares <= balanceOf[h]
        /\ gross <= availableLiquidity
        /\ costBasis' = [costBasis EXCEPT ![h] = @ - basis]
        /\ balanceOf' = [balanceOf EXCEPT ![h] = @ - shares]
        /\ accruedFees' = accruedFees + fee
        /\ usdc' = usdc - (gross - fee)
        /\ UNCHANGED <<ausd, monVars, stakeVars, perpVars, paused, marketVars>>

Redeem_as_pausable(h, shares) ==
    ~paused /\ Priced /\ shares <= maxRedeem(h) /\ Settle(h, shares)

Redeem(h, shares) ==
    /\ Priced
    /\ shares <= maxRedeem(h)
    /\ Settle(h, shares)

Withdraw(h, assets) ==
    /\ Priced
    /\ assets <= maxWithdraw(h)
    /\ Settle(h, previewWithdraw(assets))

(* Native MON is wrapped first, so it is shared like the rest.             *)
RedeemInKind(h, shares) ==
    LET share(held) == MulDiv(held, shares, totalSupply)
    IN  /\ ~oracleLive
        /\ shares \in 1 .. balanceOf[h]
        /\ usdc' = usdc - share(availableLiquidity)
        /\ wmon' = wmon + native - share(wmon + native)
        /\ native' = 0
        /\ ausd' = ausd - share(ausd)
        /\ costBasis' = [costBasis EXCEPT ![h] = @ - basisOf(h, shares)]
        /\ balanceOf' = [balanceOf EXCEPT ![h] = @ - shares]
        /\ UNCHANGED <<accruedFees, stakeVars, perpVars, paused, marketVars>>

(* The basis moves with the shares, unless they go to the vault itself.    *)
basisMoved(from, to, shares) == IF to = Self THEN 0 ELSE basisOf(from, shares)

Transfer(from, to, shares) ==
    LET moved == basisMoved(from, to, shares)
    IN  /\ from # to
        /\ shares \in 1 .. balanceOf[from]
        /\ balanceOf' = [balanceOf EXCEPT ![from] = @ - shares, ![to] = @ + shares]
        /\ costBasis' = [costBasis EXCEPT ![from] = @ - moved, ![to] = @ + moved]
        /\ UNCHANGED <<usdc, ausd, monVars, accruedFees, stakeVars, perpVars,
                       paused, marketVars>>

-----------------------------------------------------------------------------
(***************************************************************************)
(* The owner's swaps.  The venue is external: it pays the floor or the     *)
(* oracle's price; below the floor the call reverts.  Buying is shut while *)
(* paused, selling is not.                                                 *)
(***************************************************************************)
assetsToMon(assets) == assets \div price

SwapOutputs(fair, slippage) == {MulDiv(fair, BPS - slippage, BPS), fair}

SwapUsdcForMon(amountIn) ==
    /\ ~paused
    /\ oracleLive \/ amountIn = 0
    /\ amountIn <= usdc
    /\ \E out \in SwapOutputs(assetsToMon(amountIn), SlippageBps) :
           /\ totalMon + out <= BookLimit
           /\ usdc' = usdc - amountIn
           /\ wmon' = wmon + out
    /\ UNCHANGED <<shareVars, ausd, native, accruedFees, stakeVars, perpVars,
                   paused, marketVars>>

SwapMonForUsdc(amountIn) ==
    /\ oracleLive \/ amountIn = 0
    /\ amountIn <= wmon
    /\ \E out \in SwapOutputs(amountIn * price, SlippageBps) :
           /\ usdc + out <= BookLimit
           /\ usdc' = usdc + out
           /\ wmon' = wmon - amountIn
    /\ UNCHANGED <<shareVars, ausd, native, accruedFees, stakeVars, perpVars,
                   paused, marketVars>>

SwapUsdcForAusd(amountIn) ==
    /\ ~paused
    /\ amountIn <= usdc
    /\ \E out \in SwapOutputs(amountIn, ParityBps) :
           /\ ausd + out <= BookLimit
           /\ usdc' = usdc - amountIn
           /\ ausd' = ausd + out
    /\ UNCHANGED <<shareVars, monVars, accruedFees, stakeVars, perpVars,
                   paused, marketVars>>

SwapAusdForUsdc(amountIn) ==
    /\ amountIn <= ausd
    /\ \E out \in SwapOutputs(amountIn, ParityBps) :
           /\ usdc + out <= BookLimit
           /\ usdc' = usdc + out
           /\ ausd' = ausd - amountIn
    /\ UNCHANGED <<shareVars, monVars, accruedFees, stakeVars, perpVars,
                   paused, marketVars>>

-----------------------------------------------------------------------------
(***************************************************************************)
(* Staking.  The precompile keeps what is delegated per validator and one  *)
(* withdrawal request per validator and id; a request can be withdrawn     *)
(* once an epoch has passed.                                               *)
(***************************************************************************)

(* Native MON is spent first, the rest is unwrapped.                       *)
Stake(v, amount) ==
    LET unwrapped == PosPart(amount - native)
    IN  /\ ~paused
        /\ unwrapped <= wmon
        /\ wmon' = wmon - unwrapped
        /\ native' = native + unwrapped - amount
        /\ stakedMon' = stakedMon + amount
        /\ delegated' = [delegated EXCEPT ![v] = @ + amount]
        /\ UNCHANGED <<unstakingMon, pendingUnstake, nextWithdrawId, requests>>
        /\ UNCHANGED <<shareVars, usdc, ausd, accruedFees, perpVars, paused, marketVars>>

(* External: the precompile's side of undelegate.                          *)
Undelegate(v, id, amount) ==
    /\ amount <= delegated[v]
    /\ requests[v][id].amount = 0
    /\ delegated' = [delegated EXCEPT ![v] = @ - amount]
    /\ requests' = [requests EXCEPT ![v][id] = [amount |-> amount, ready |-> FALSE]]

(* uint8 arithmetic, unchecked on purpose: 255 is followed by 0.           *)
nextId(id) == (id + 1) % WithdrawIds

Unstake(v, amount) ==
    LET id == nextWithdrawId[v]
    IN  /\ pendingUnstake[v][id] = 0
        /\ amount <= stakedMon
        /\ nextWithdrawId' = [nextWithdrawId EXCEPT ![v] = nextId(id)]
        /\ stakedMon' = stakedMon - amount
        /\ unstakingMon' = unstakingMon + amount
        /\ pendingUnstake' = [pendingUnstake EXCEPT ![v][id] = amount]
        /\ Undelegate(v, id, amount)
        /\ UNCHANGED <<shareVars, usdc, ausd, monVars, accruedFees, perpVars,
                       paused, marketVars>>

ClearUnstake_as_latest_slot(v, id, recorded) ==
    /\ recorded <= unstakingMon
    /\ pendingUnstake' = [pendingUnstake EXCEPT ![v][nextWithdrawId[v]] = 0]
    /\ unstakingMon' = unstakingMon - recorded

ClearUnstake_as_slot_kept(v, id, recorded) ==
    /\ recorded <= unstakingMon
    /\ unstakingMon' = unstakingMon - recorded
    /\ UNCHANGED pendingUnstake

(* The vault's record of an unbond that has been paid.                     *)
ClearUnstake(v, id, recorded) ==
    /\ recorded <= unstakingMon
    /\ pendingUnstake' = [pendingUnstake EXCEPT ![v][id] = 0]
    /\ unstakingMon' = unstakingMon - recorded

(* The precompile pays and forgets the request, the vault wraps the MON.   *)
ClaimUnstaked(v, id) ==
    LET received == requests[v][id].amount
    IN  /\ pendingUnstake[v][id] # 0
        /\ received # 0 /\ requests[v][id].ready
        /\ requests' = [requests EXCEPT ![v][id] = [amount |-> 0, ready |-> FALSE]]
        /\ ClearUnstake(v, id, pendingUnstake[v][id])
        /\ wmon' = wmon + received
        /\ UNCHANGED <<shareVars, usdc, ausd, native, accruedFees, stakedMon,
                       nextWithdrawId, delegated, perpVars, paused, marketVars>>

ClaimStakingRewards(v, reward) ==
    /\ delegated[v] > 0
    /\ totalMon + reward <= BookLimit
    /\ wmon' = wmon + reward
    /\ UNCHANGED <<shareVars, usdc, ausd, native, accruedFees, stakeVars, perpVars,
                   paused, marketVars>>

(* External: an epoch ends and every request made before it matures.       *)
EpochEnds ==
    /\ requests' = [v \in Validators |-> [i \in Slots |->
                       [requests[v][i] EXCEPT !.ready = requests[v][i].amount # 0]]]
    /\ UNCHANGED <<shareVars, usdc, ausd, monVars, accruedFees, stakedMon, unstakingMon,
                   pendingUnstake, nextWithdrawId, delegated, perpVars, paused, marketVars>>

(* receive(): anyone may send the vault native MON.                        *)
ReceiveNative(amount) ==
    /\ totalMon + amount <= BookLimit
    /\ native' = native + amount
    /\ UNCHANGED <<shareVars, usdc, ausd, wmon, accruedFees, stakeVars, perpVars,
                   paused, marketVars>>

-----------------------------------------------------------------------------
(***************************************************************************)
(* The perp book                                                           *)
(***************************************************************************)
ControlPerpManagers_as_writing_off(m, allowed) ==
    /\ isPerpManager' = [isPerpManager EXCEPT ![m] = allowed]
    /\ perpManagerOutstanding' =
           [perpManagerOutstanding EXCEPT ![m] = IF allowed THEN @ ELSE 0]
    /\ UNCHANGED <<perpManagerDeployed, perpReportedPnl, perpReportedAt, perpOpenedAt>>
    /\ UNCHANGED <<shareVars, usdc, ausd, monVars, accruedFees, stakeVars, paused, marketVars>>

ControlPerpManagers(m, allowed) ==
    /\ isPerpManager' = [isPerpManager EXCEPT ![m] = allowed]
    /\ UNCHANGED <<perpManagerOutstanding, perpManagerDeployed, perpReportedPnl,
                   perpReportedAt, perpOpenedAt>>
    /\ UNCHANGED <<shareVars, usdc, ausd, monVars, accruedFees, stakeVars, paused, marketVars>>

OpenBook_as_clock_kept ==
    IF perpManagerDeployed = 0
    THEN perpReportedPnl' = 0 /\ perpOpenedAt' = now /\ UNCHANGED perpReportedAt
    ELSE UNCHANGED <<perpReportedPnl, perpReportedAt, perpOpenedAt>>

(* An empty book starts from a zero mark and a fresh clock.                *)
OpenBook ==
    IF perpManagerDeployed = 0
    THEN perpReportedPnl' = 0 /\ perpReportedAt' = now /\ perpOpenedAt' = now
    ELSE UNCHANGED <<perpReportedPnl, perpReportedAt, perpOpenedAt>>

(* The ceiling is measured after the value has left.                       *)
SendFundPerpManager(m, token, amount) ==
    /\ ~paused
    /\ isPerpManager[m]
    /\ IF token = "usdc" THEN amount <= usdc /\ usdc' = usdc - amount /\ ausd' = ausd
                         ELSE amount <= ausd /\ ausd' = ausd - amount /\ usdc' = usdc
    /\ OpenBook
    /\ perpManagerOutstanding' = [perpManagerOutstanding EXCEPT ![m] = @ + amount]
    /\ perpManagerDeployed' = perpManagerDeployed + amount
    /\ UNCHANGED <<shareVars, monVars, accruedFees, stakeVars, isPerpManager,
                   paused, marketVars>>
    /\ Priced
    /\ perpManagerDeployed' <= MulDiv(totalAssets', CeilingBps, BPS)

DockMark_as_gain_kept(left, profit) ==
    /\ perpReportedPnl' = IF left = 0 THEN 0 ELSE perpReportedPnl
    /\ perpReportedAt' = IF left # 0 /\ profit > 0 THEN 0 ELSE perpReportedAt

(* What a return does to the mark.  Profit that came back above the        *)
(* manager's own balance leaves the mark, which is stale until the next    *)
(* report; the return that empties the book clears the mark altogether.    *)
DockMark(left, profit) ==
    \/ left = 0 /\ perpReportedPnl' = 0 /\ UNCHANGED perpReportedAt
    \/ /\ left # 0 /\ profit > 0
       /\ perpReportedPnl' = perpReportedPnl - profit
       /\ perpReportedAt' = 0
    \/ left # 0 /\ profit = 0 /\ UNCHANGED <<perpReportedPnl, perpReportedAt>>

creditedTo(amount, outstanding) == Smaller(amount, outstanding)

(* A return of capital, from a manager or from a former one that owes.     *)
PerpManagerDeposit(m, token, amount) ==
    LET outstanding == perpManagerOutstanding[m]
        credited    == creditedTo(amount, outstanding)
        left        == perpManagerDeployed - credited
    IN  /\ isPerpManager[m] \/ outstanding # 0
        /\ credited <= perpManagerDeployed
        /\ usdc + ausd + amount <= BookLimit
        /\ IF token = "usdc" THEN usdc' = usdc + amount /\ ausd' = ausd
                             ELSE ausd' = ausd + amount /\ usdc' = usdc
        /\ perpManagerOutstanding' = [perpManagerOutstanding EXCEPT ![m] = outstanding - credited]
        /\ perpManagerDeployed' = left
        /\ DockMark(left, amount - credited)
        /\ UNCHANGED <<shareVars, monVars, accruedFees, stakeVars, isPerpManager,
                       perpOpenedAt, paused, marketVars>>

(* The keeper reports inside the band; the owner may mark a loss down to   *)
(* the whole book.                                                         *)
ReportPerpPnl(byOwner, pnl) ==
    LET band == MulDiv(perpManagerDeployed, PnlBandBps, BPS)
    IN  /\ IF pnl < 0 THEN -pnl <= (IF byOwner THEN perpManagerDeployed ELSE band)
                      ELSE pnl <= band
        /\ perpReportedPnl' = pnl
        /\ perpReportedAt' = now
        /\ UNCHANGED <<isPerpManager, perpManagerOutstanding, perpManagerDeployed, perpOpenedAt>>
        /\ UNCHANGED <<shareVars, usdc, ausd, monVars, accruedFees, stakeVars, paused, marketVars>>

-----------------------------------------------------------------------------
WithdrawFees(amount) ==
    /\ amount <= accruedFees /\ amount <= usdc
    /\ accruedFees' = accruedFees - amount
    /\ usdc' = usdc - amount
    /\ UNCHANGED <<shareVars, ausd, monVars, stakeVars, perpVars, paused, marketVars>>

SetPaused(flag) ==
    /\ paused # flag
    /\ paused' = flag
    /\ UNCHANGED <<shareVars, usdc, ausd, monVars, accruedFees, stakeVars, perpVars, marketVars>>

(* External: the feed answers with a new price, or stops answering.        *)
OracleMoves(p, live) ==
    /\ price' = p /\ oracleLive' = live
    /\ UNCHANGED <<shareVars, usdc, ausd, monVars, accruedFees, stakeVars, perpVars,
                   paused, now>>

Tick ==
    /\ now < MaxTime
    /\ now' = now + 1
    /\ UNCHANGED <<shareVars, usdc, ausd, monVars, accruedFees, stakeVars, perpVars,
                   paused, price, oracleLive>>

-----------------------------------------------------------------------------
(* A holder moves everything, half, or what can be paid.                   *)
Portions(h) == {balanceOf[h], balanceOf[h] \div 2, maxRedeem(h)}

ShareNext ==
    \E h \in Holders :
        \/ \E a \in DepositAmounts : Deposit(h, a) \/ Withdraw(h, a)
        \/ \E s \in MintAmounts : Mint(h, s)
        \/ \E s \in Portions(h) :
              \/ Redeem(h, s) \/ RedeemInKind(h, s)
              \/ \E to \in Accounts : Transfer(h, to, s)

SwapNext ==
    \/ \E a \in MonSwaps : SwapUsdcForMon(a) \/ SwapMonForUsdc(a)
    \/ \E a \in AusdSwaps : SwapUsdcForAusd(a) \/ SwapAusdForUsdc(a)

StakeNext ==
    \/ \E v \in Validators :
          \/ \E a \in MonAmounts : Stake(v, a) \/ Unstake(v, a)
          \/ \E i \in Slots : ClaimUnstaked(v, i)
          \/ \E r \in Rewards : ClaimStakingRewards(v, r)
    \/ EpochEnds
    \/ \E r \in Rewards : ReceiveNative(r)

PerpNext ==
    \/ \E m \in Managers :
          \/ \E allowed \in BOOLEAN : ControlPerpManagers(m, allowed)
          \/ \E t \in PerpTokens, a \in PerpAmounts :
                SendFundPerpManager(m, t, a) \/ PerpManagerDeposit(m, t, a)
    \/ \E byOwner \in BOOLEAN, pnl \in Pnls : ReportPerpPnl(byOwner, pnl)

OwnerNext ==
    \/ accruedFees > 0 /\ WithdrawFees(accruedFees)
    \/ \E flag \in BOOLEAN : SetPaused(flag)

EnvNext == Tick \/ \E p \in Prices, live \in FeedStates : OracleMoves(p, live)

Next ==
    \/ ShareNext /\ callsLeft > 0 /\ callsLeft' = callsLeft - 1
    \/ /\ SwapNext \/ StakeNext \/ PerpNext \/ OwnerNext \/ EnvNext
       /\ UNCHANGED callsLeft

Spec == Init /\ [][Next]_vars

-----------------------------------------------------------------------------
(***************************************************************************)
(* Properties                                                              *)
(***************************************************************************)
StakeTypeOK ==
    /\ stakedMon \in Nat /\ unstakingMon \in Nat
    /\ pendingUnstake \in [Validators -> [Slots -> Nat]]
    /\ nextWithdrawId \in [Validators -> Slots]
    /\ delegated \in [Validators -> Nat]
    /\ requests \in [Validators -> [Slots -> [amount : Nat, ready : BOOLEAN]]]

PerpTypeOK ==
    /\ isPerpManager \in [Managers -> BOOLEAN]
    /\ perpManagerOutstanding \in [Managers -> Nat]
    /\ perpManagerDeployed \in Nat /\ perpReportedPnl \in Int
    /\ now \in Nat \ {0}
    /\ perpReportedAt \in 0 .. now /\ perpOpenedAt \in 0 .. now

(* perpManagerDeployed is the sum of what every manager owes, current or   *)
(* removed: a removal never writes a debt off (571-575).                   *)
BookBalanced == perpManagerDeployed = SumOver(perpManagerOutstanding, Managers)

(* An empty book carries no result, so the next deposit, or the next book, *)
(* is never priced on a leftover one (261-266, 609-611, 639).              *)
EmptyBookHasNoMark == perpManagerDeployed = 0 => perpReportedPnl = 0

(* A mark that counts was made while the present book was open: a report   *)
(* left over from the previous book never comes back as a fresh one        *)
(* (609-611).                                                              *)
MarkBelongsToThisBook ==
    perpManagerDeployed > 0 => \/ perpReportedAt = 0
                               \/ perpReportedAt >= perpOpenedAt

(* What left for the managers and what came back nets out: no send and no  *)
(* return changes the value of the book, so a realised gain is counted     *)
(* once, wherever it sits (641-648).  The return that empties the book     *)
(* settles the mark instead.                                               *)
BookValueConserved ==
    [][(perpManagerOutstanding' # perpManagerOutstanding \/ ausd' + usdc' > ausd + usdc)
       /\ UNCHANGED <<costBasis, wmon>> /\ perpManagerDeployed' > 0
       => usdc' + ausd' + perpManagerDeployed' + perpReportedPnl'
            = usdc + ausd + perpManagerDeployed + perpReportedPnl]_vars

(* What the vault recorded under a withdraw id is what the precompile will *)
(* pay for it, also after the ids have wrapped: the claim of a slot always *)
(* pays the amount that is taken off unstakingMon (511-539).               *)
SlotsMirrorRequests ==
    \A v \in Validators, i \in Slots : pendingUnstake[v][i] = requests[v][i].amount

(* An unbond leaves the vault's record in one way only: the precompile was *)
(* done with it and the whole recorded amount arrived as WMON (526-539).   *)
(* No later unbond, under an id that came round again, replaces it.        *)
UnbondPaidInFull ==
    [][\A v \in Validators, i \in Slots :
          pendingUnstake[v][i] # 0 /\ pendingUnstake'[v][i] # pendingUnstake[v][i]
          => /\ requests[v][i].ready
             /\ pendingUnstake'[v][i] = 0
             /\ wmon' = wmon + pendingUnstake[v][i]]_vars

(* An unbond the vault recorded is paid out in the end (526-539).          *)
UnbondIsClaimed ==
    \A v \in Validators, i \in Slots :
        pendingUnstake[v][i] # 0 ~> pendingUnstake[v][i] = 0

(* Nobody who deposits, mints, redeems or withdraws at the live price      *)
(* takes value from the holders who do nothing: the price per share, the   *)
(* virtual share counted, never falls in such a step.  While the book is   *)
(* worth less than the fees it owes, totalAssets is floored at zero and a  *)
(* new deposit first makes the fees whole (314-319): those states are out. *)
NoDilution ==
    [][totalSupply' # totalSupply /\ oracleLive /\ accruedFees <= grossAssets
       => (totalAssets' + 1) * (totalSupply + VirtualShares)
            >= (totalAssets + 1) * (totalSupply' + VirtualShares)]_vars

(* While the mark is not confirmed (too old, or a manager returned more    *)
(* than it was sent) nobody comes in, and a leaver is paid as if the book  *)
(* had made nothing: an unconfirmed gain never leaves the vault (267-269,  *)
(* 692-697).                                                               *)
bookWithoutGain ==
    PosPart(usdc + totalMon * price + ausd + perpManagerDeployed - accruedFees)

UnconfirmedGainNeverPaid ==
    [][totalSupply' # totalSupply /\ perpReportIsStale /\ oracleLive
       => /\ totalSupply' < totalSupply
          /\ (usdc - usdc') * (totalSupply + VirtualShares)
               <= (totalSupply - totalSupply') * (bookWithoutGain + 1)]_vars

(* A fee is charged on profit only: never more than the rate on what the   *)
(* leaver's shares were worth above the basis that left with them, and     *)
(* never out of anyone else's share (881-899).                             *)
FeeOnlyOnProfit ==
    [][accruedFees' > accruedFees
       => \E h \in Holders :
            /\ balanceOf'[h] < balanceOf[h]
            /\ (accruedFees' - accruedFees) * BPS
                 <= FeeBps * ((totalAssets - totalAssets') - (costBasis[h] - costBasis'[h]))]_vars

(* Exits are never gated: not by a pause, not by a stale mark (692-694).   *)
(* What maxRedeem and maxWithdraw report can be taken at once, and while   *)
(* the oracle is down the whole balance can leave in kind (416-420).       *)
ExitNeverBlocked ==
    \A h \in Holders : balanceOf[h] > 0 =>
        /\ Priced => ENABLED Redeem(h, maxRedeem(h)) /\ ENABLED Withdraw(h, maxWithdraw(h))
        /\ ~oracleLive => ENABLED RedeemInKind(h, balanceOf[h])

(* VAULT.md 85-88: leaving in kind never costs those who stay.  Measured   *)
(* at the price the oracle cannot report, per share, while MON is held (so *)
(* that in kind is the only exit).                                         *)
StayersKeepTheirShare ==
    totalAssets' * totalSupply >= totalAssets * totalSupply'

InKindExit == ~oracleLive /\ totalMon > 0 /\ totalSupply' < totalSupply

InKindStayersNeverLose == [][InKindExit => StayersKeepTheirShare]_vars

(* The same, as long as the idle USDC covers the fees owed out of it.      *)
InKindFairWhileFeesCovered ==
    [][InKindExit /\ accruedFees <= usdc => StayersKeepTheirShare]_vars
=============================================================================
