------------------------------- MODULE Keeper -------------------------------
(***************************************************************************)
(* The keeper of DeltaMonVault (keeper.ts 94-356, keeperPlan.ts): a tick   *)
(* that reads the vault, marks the perp book, claims rewards and claims    *)
(* matured unbonds, with the vault, its managers and the market going on   *)
(* between any two of its awaits.  Composed with DeltaMonVault: every call *)
(* the keeper sends is an action of that module.                           *)
(*                                                                         *)
(* External: what the managers hold, what the backend last heard of it,    *)
(* and the mempool.  A line number without a file is keeper.ts.            *)
(***************************************************************************)
EXTENDS DeltaMonVault, Sequences

CONSTANTS
    MinChangeBps, MinRemark, MaxBookAge,    \* PERP_MARK_..., PERP_BOOK_MAX_AGE_SEC
    FutureTolerance,
    TickGap,            \* in a healthy run, how much time passes without a whole tick
    Faults,             \* bound: RPC errors, restarts and unread books of a troubled run
    MoveBudget,         \* bound: payments and market moves while nothing fails
    TroubledMoves, TroubledTime         \* bounds: the same, and the clock, in a troubled run

ASSUME KeeperAssumption ==
    {MinChangeBps, MinRemark, MaxBookAge, FutureTolerance, TickGap, Faults, MoveBudget,
     TroubledMoves, TroubledTime} \subseteq Nat

(* Ticks are frequent against the life of a mark: by default one a minute  *)
(* against six hours (config.ts 26, DeltaMonVault.sol 143).                *)
ASSUME TicksAreFrequent == 2 * TickGap <= ReportMaxAge + 1

VARIABLES
    tick,               \* this.running, and what the tick has read
    alerts, lost,       \* status.alerts; was the last tick lost to the oracle
    watched,            \* VALIDATOR_IDS; empty where a run is about the book
    source,             \* does the book come from the socket or from PERP_BOOK_URL
    held,               \* what the managers hold, on Perpl and off it
    view,               \* the last word the backend, or the feed, has on that
    mempool,            \* reports sent and not mined yet, by nonce
    marked,             \* observation: what the present mark rests on
    seenAt,             \* observation: when the last whole tick read the vault
    troubled, faults,   \* may things fail in this run; bound: how often still
    movesLeft           \* bound only

keeperVars == <<tick, alerts, lost, watched, source, held, view, mempool, marked, seenAt,
                troubled, faults, movesLeft>>
allVars    == <<vars, keeperVars>>

NoRead  == [deployed |-> 0, pnl |-> 0, at |-> 0, now |-> 0]
NoMark  == [pnl |-> 0, clean |-> TRUE, basis |-> 0, loss |-> FALSE]
Resting == [at |-> "idle", read |-> NoRead, mark |-> NoMark, left |-> {}, slots |-> {},
            alerts |-> {}, failed |-> FALSE]

(* The book as it is; the socket's word bears no time of its own.          *)
Current     == [equity |-> held, at |-> IF source = "feed" THEN now ELSE 0, clean |-> TRUE]
OpeningMark == [NoMark EXCEPT !.basis = Current.at]

KeeperInit ==
    /\ Init
    /\ tick = Resting /\ alerts = {} /\ lost = FALSE
    /\ watched \in {{}, Validators}
    /\ troubled \in {TRUE, watched # {}} /\ faults = IF troubled THEN Faults ELSE 0
    /\ source \in IF watched = {} /\ ~troubled THEN {"socket", "feed"} ELSE {"socket"}
    /\ held = 0 /\ view = Current
    /\ mempool = <<>>
    /\ marked = OpeningMark
    /\ seenAt = now
    /\ movesLeft = IF troubled THEN TroubledMoves ELSE MoveBudget

Fault == faults > 0 /\ faults' = faults - 1

-----------------------------------------------------------------------------
(***************************************************************************)
(* planPerpMark                                                            *)
(***************************************************************************)
NoBook == [equity |-> -1, asOf |-> 0]

Clamp_as_gains_only(raw, band) == PosPart(Smaller(raw, band))
Clamp(raw, band) == IF raw < -band THEN -band ELSE Smaller(raw, band)

Due_as_when_stale(age) == age > ReportMaxAge
Due(age) == age > ReportMaxAge \/ age * 2 >= ReportMaxAge

Usable_as_any_age(bookAge) == bookAge >= -FutureTolerance
Usable(bookAge) == bookAge <= MaxBookAge /\ bookAge >= -FutureTolerance

PlanPerpMark(read, book) ==
    LET age    == read.now - read.at
        raw    == book.equity - read.deployed
        band   == MulDiv(read.deployed, PnlBandBps, BPS)
        pnl    == Clamp(raw, band)
        usable == book # NoBook /\ Usable(read.now - book.asOf)
        moved  == IF pnl > read.pnl THEN pnl - read.pnl ELSE read.pnl - pnl
    IN  [usable |-> usable, pnl |-> pnl, loss |-> usable /\ raw < -band,
         report |-> usable /\ \/ Due(age)
                              \/ /\ age >= MinRemark
                                 /\ moved > MulDiv(read.deployed, MinChangeBps, BPS)]

-----------------------------------------------------------------------------
(* What a tick raises before its steps; the multicall has answered, so     *)
(* oracleIsLive was true.                                                  *)
ReadAlerts == {x \in {"oracle"} : ~oracleLive}

(* readState.  One multicall that must succeed as a whole, and monPrice is *)
(* part of it: while the oracle is down the tick is lost, here.            *)
ReadState ==
    /\ tick.at = "idle" /\ oracleLive
    /\ tick' = [Resting EXCEPT
                  !.at = "mark", !.alerts = ReadAlerts,
                  !.read = [deployed |-> perpManagerDeployed, pnl |-> perpReportedPnl,
                            at |-> perpReportedAt, now |-> now]]
    /\ UNCHANGED <<vars, alerts, lost, watched, source, held, view, mempool, marked, seenAt,
                   troubled, faults, movesLeft>>

(* The tick that meets an outage says so nowhere but in the log: the       *)
(* alerts are those of the tick before.  An RPC error is lost the same way.*)
ReadFails ==
    /\ tick.at = "idle"
    /\ \/ ~oracleLive /\ lost' = TRUE /\ UNCHANGED faults
       \/ Fault /\ lost' = FALSE
    /\ UNCHANGED <<vars, tick, alerts, watched, source, held, view, mempool, marked, seenAt,
                   troubled, movesLeft>>

(* On to the next step, with what it and the end of the tick still need.   *)
Go(t, at) ==
    tick' = [Resting EXCEPT !.at = at, !.read.now = t.read.now, !.left = watched,
                            !.alerts = t.alerts, !.failed = t.failed,
                            !.mark = IF at = "send" THEN t.mark ELSE NoMark]

Ended(t) ==
    /\ alerts' = t.alerts /\ lost' = FALSE /\ tick' = Resting
    /\ seenAt' = IF t.failed THEN seenAt ELSE t.read.now

(* The book is read, from the socket as of this moment or from the feed as *)
(* of its own clock, and the plan is made of it and of what readState saw. *)
PlanMark ==
    /\ tick.at = "mark"
    /\ \/ /\ tick.read.deployed = 0
          /\ Go(tick, "rewards") /\ UNCHANGED faults
       \/ /\ tick.read.deployed # 0
          /\ \E book \in {[equity |-> view.equity,
                           asOf |-> IF source = "socket" THEN now ELSE view.at], NoBook} :
                /\ IF book = NoBook THEN Fault ELSE UNCHANGED faults
                /\ LET plan == PlanPerpMark(tick.read, book)
                       t    == [tick EXCEPT
                                  !.mark = [pnl |-> plan.pnl, clean |-> @.clean /\ view.clean,
                                            basis |-> view.at, loss |-> plan.loss],
                                  !.alerts = @ \cup {x \in {"loss"} : plan.loss},
                                  !.failed = ~plan.usable]
                   IN  Go(t, IF plan.report THEN "send" ELSE "rewards")
    /\ UNCHANGED <<vars, alerts, lost, watched, source, held, view, mempool, marked, seenAt, troubled,
                   movesLeft>>

InBand(pnl) ==
    LET band == MulDiv(perpManagerDeployed, PnlBandBps, BPS) IN pnl <= band /\ -pnl <= band

(* Simulated first, on the vault as it is by now; only then sent.          *)
SendMark ==
    /\ tick.at = "send"
    /\ \/ /\ InBand(tick.mark.pnl)
          /\ mempool' = Append(mempool, tick.mark)
          /\ Go(tick, "confirm") /\ UNCHANGED faults
       \/ /\ ~InBand(tick.mark.pnl) \/ faults > 0
          /\ IF InBand(tick.mark.pnl) THEN Fault ELSE UNCHANGED faults
          /\ Go([tick EXCEPT !.failed = TRUE], "rewards") /\ UNCHANGED mempool
    /\ UNCHANGED <<vars, alerts, lost, watched, source, held, view, marked, seenAt, troubled,
                   movesLeft>>

(* External: the next report is mined.  On chain it may revert after all.  *)
Mined ==
    /\ mempool # <<>>
    /\ LET tx == Head(mempool)
       IN  IF InBand(tx.pnl)
           THEN /\ ReportPerpPnl(FALSE, tx.pnl)
                /\ marked' = [tx EXCEPT !.pnl = 0]
           ELSE UNCHANGED <<vars, marked>>
    /\ mempool' = Tail(mempool)
    /\ tick' = IF tick.at = "confirm" /\ Len(mempool) = 1
               THEN [tick EXCEPT !.at = "rewards", !.failed = @ \/ ~InBand(Head(mempool).pnl)]
               ELSE tick
    /\ UNCHANGED <<callsLeft, alerts, lost, watched, source, held, view, seenAt, troubled, faults,
                   movesLeft>>

(* waitForTransactionReceipt gives up; the report may still be mined.      *)
ConfirmTimesOut ==
    /\ tick.at = "confirm" /\ Fault
    /\ tick' = [tick EXCEPT !.at = "rewards", !.failed = TRUE]
    /\ UNCHANGED <<vars, alerts, lost, watched, source, held, view, mempool, marked, seenAt, troubled,
                   movesLeft>>

(* The first error ends the step: the validators behind it wait.           *)
ClaimRewards ==
    /\ tick.at = "rewards"
    /\ \/ /\ tick.left = {}
          /\ Go(tick, "unbonded") /\ UNCHANGED <<vars, faults>>
       \/ \E v \in tick.left :
             /\ tick' = [tick EXCEPT !.left = @ \ {v}]
             /\ UNCHANGED <<callsLeft, faults>>
             /\ UNCHANGED vars \/ \E r \in Rewards : ClaimStakingRewards(v, r)
       \/ Fault /\ tick.left # {} /\ Go(tick, "unbonded") /\ UNCHANGED vars
    /\ UNCHANGED <<alerts, lost, watched, source, held, view, mempool, marked, seenAt, troubled,
                   movesLeft>>

Unready_as_end_of_step(t, p) == [t EXCEPT !.left = {}, !.slots = {}]
Unready(t, p) == [t EXCEPT !.slots = @ \ {p}]

(* All slots of a validator are read at once, then claimed one after the   *)
(* other; a revert (still unbonding) goes on to the next slot, any other   *)
(* error ends the step, which is the last of the tick.                     *)
ClaimUnbonded ==
    /\ tick.at = "unbonded"
    /\ \/ /\ tick.slots = {} /\ tick.left = {}
          /\ Ended(tick) /\ UNCHANGED <<vars, faults>>
       \/ /\ tick.slots = {}
          /\ \E v \in tick.left :
                tick' = [tick EXCEPT !.left = @ \ {v},
                                     !.slots = {<<v, i>> : i \in {j \in Slots : pendingUnstake[v][j] # 0}}]
          /\ UNCHANGED <<vars, faults, alerts, lost, seenAt>>
       \/ /\ \E p \in tick.slots :
                \/ /\ ClaimUnstaked(p[1], p[2])
                   /\ tick' = [tick EXCEPT !.slots = @ \ {p}]
                \/ /\ ~requests[p[1]][p[2]].ready
                   /\ tick' = Unready(tick, p)
                   /\ UNCHANGED vars
          /\ UNCHANGED <<callsLeft, faults, alerts, lost, seenAt>>
       \/ Fault /\ tick.left \cup tick.slots # {} /\ Ended(tick) /\ UNCHANGED vars
    /\ UNCHANGED <<watched, source, held, view, mempool, marked, troubled, movesLeft>>

(* The backend restarts: nothing of a tick is kept, sent reports go on.    *)
Restart ==
    /\ tick.at # "idle" /\ Fault
    /\ tick' = Resting /\ alerts' = {} /\ lost' = FALSE
    /\ UNCHANGED <<vars, watched, source, held, view, mempool, marked, seenAt, troubled,
                   movesLeft>>

-----------------------------------------------------------------------------
(* Observation: money or the market moved, so what was read of the book    *)
(* before is not the book any more.                                        *)
Disturbed ==
    /\ tick' = IF tick.at \in {"mark", "send"} THEN [tick EXCEPT !.mark.clean = FALSE] ELSE tick
    /\ view' = [view EXCEPT !.clean = FALSE]
    /\ mempool' = [i \in DOMAIN mempool |-> [mempool[i] EXCEPT !.clean = FALSE]]

Move == movesLeft > 0 /\ movesLeft' = movesLeft - 1

(* External: the book gains or loses.                                      *)
MarketMoves ==
    /\ watched = {} /\ perpManagerDeployed > 0
    /\ held' \in {held - 1, held + 1} \cap 0 .. BookLimit + 1
    /\ Disturbed /\ Move
    /\ marked' = [marked EXCEPT !.clean = FALSE]
    /\ UNCHANGED <<vars, alerts, lost, watched, source, seenAt, troubled, faults>>

(* External: a frame of Perpl, or a new document of the feed.              *)
ViewRefreshed ==
    /\ watched = {} /\ view # Current
    /\ view' = Current
    /\ UNCHANGED <<vars, tick, alerts, lost, watched, source, held, mempool, marked, seenAt,
                   troubled, faults, movesLeft>>

(* Managers hold what left the vault and return what they hold; a book     *)
(* that opens starts from a mark of nothing, which is true of it.          *)
ManagersMove ==
    /\ watched = {} /\ UNCHANGED callsLeft
    /\ \E m \in Managers :
          \/ ~isPerpManager[m] /\ ControlPerpManagers(m, TRUE)
          \/ \E t \in PerpTokens, a \in PerpAmounts :
                SendFundPerpManager(m, t, a) \/ PerpManagerDeposit(m, t, a)
    /\ held' = held + (usdc + ausd) - (usdc' + ausd') /\ held' >= 0
    /\ IF held' = held THEN UNCHANGED <<tick, view, mempool, movesLeft>> ELSE Disturbed /\ Move
    /\ marked' = IF perpManagerDeployed = 0 /\ perpManagerDeployed' # 0
                 THEN OpeningMark ELSE marked
    /\ UNCHANGED <<alerts, lost, watched, source, seenAt, troubled, faults>>

VaultMoves ==
    /\ \/ watched = {} /\ ShareNext /\ callsLeft > 0 /\ callsLeft' = callsLeft - 1
       \/ watched # {} /\ (SwapNext \/ StakeNext) /\ UNCHANGED callsLeft
       \/ /\ watched # {} /\ troubled /\ UNCHANGED callsLeft
          /\ \E p \in Prices, live \in FeedStates : live # oracleLive /\ OracleMoves(p, live)
    /\ UNCHANGED keeperVars

(* While nothing fails, whole ticks come at least every TickGap: ticks     *)
(* that found a book, and whose report went through.                       *)
TimePasses ==
    /\ watched = {} /\ Tick /\ UNCHANGED callsLeft
    /\ IF troubled THEN now' <= TroubledTime ELSE now' <= seenAt + TickGap
    /\ UNCHANGED keeperVars

OracleReturns == ~oracleLive /\ VaultMoves /\ oracleLive'

TickStep == PlanMark \/ SendMark \/ ClaimRewards \/ ClaimUnbonded

KeeperNext ==
    \/ ReadState \/ ReadFails \/ TickStep \/ Mined \/ ConfirmTimesOut \/ Restart
    \/ MarketMoves \/ ViewRefreshed \/ ManagersMove \/ VaultMoves \/ TimePasses

KeeperSpec == KeeperInit /\ [][KeeperNext]_allVars

(* The interval timer fires for ever and an answer of the chain comes in   *)
(* the end; epochs end; an oracle that is down comes back, and some tick   *)
(* finds it up.                                                            *)
KeeperFairSpec ==
    /\ KeeperSpec
    /\ SF_allVars(ReadState)
    /\ WF_allVars(TickStep) /\ WF_allVars(Mined)
    /\ WF_allVars(EpochEnds /\ UNCHANGED <<callsLeft, keeperVars>>)
    /\ WF_allVars(OracleReturns)

-----------------------------------------------------------------------------
(***************************************************************************)
(* Properties                                                              *)
(***************************************************************************)
(* Refreshing at half the limit keeps the mark from lapsing: while ticks   *)
(* come and the book can be read, deposits are never shut by a mark that   *)
(* grew too old, whatever the managers and the market do in between        *)
(* (keeperPlan.ts 79-81).                                                  *)
MarkNeverLapses == ~troubled /\ perpReportedAt # 0 => ~perpReportIsStale

(* The vault never counts more than the managers hold, by a mark nothing   *)
(* has overtaken: no market move and no payment between the reading of the *)
(* book and the mining of the report, none of the market since.  What is   *)
(* left is the loss past the band, and of that the admin was told (58-67). *)
BookNeverOvervalued ==
    marked.clean /\ perpEquity > held => marked.loss

(* A mark that lets deposits in rests on a book read not much longer ago   *)
(* than the two limits add up to, though the feed may be old when it is    *)
(* read and the report late when it is mined (keeperPlan.ts 57-66, 79-81). *)
FreshMarkIsRecent ==
    ~troubled /\ source = "feed" /\ perpManagerDeployed > 0 /\ ~perpReportIsStale
        => now - marked.basis <= ReportMaxAge + MaxBookAge + TickGap

(* keeper.ts 58-59 and 127-131: an outage of the oracle is among the       *)
(* alerts of a tick that ran while it lasted.                              *)
OutageIsAlerted == lost => "oracle" \in alerts
=============================================================================
