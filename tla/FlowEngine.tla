------------------------------ MODULE FlowEngine ------------------------------
(***************************************************************************)
(* One run of the allocation pipeline (flowEngine.ts, txRunner.ts): idle   *)
(* USDC in, staked MON and a short out.  The flow document is durable; the *)
(* worker walks its steps one at a time, with an await, and so a possible  *)
(* crash, between any two of its writes; the chain and Perpl move on their *)
(* own.                                                                    *)
(*                                                                         *)
(* A step broadcasts at most once per attempt, so the pair of step and     *)
(* attempt names a transaction and stands for its hash.  What can go wrong *)
(* around the engine is a set, Faults, so that a run says exactly what it  *)
(* assumes.                                                                *)
(***************************************************************************)
EXTENDS Integers

CONSTANTS
    MAX_ATTEMPTS,
    MonShare, AusdShare,    \* the split of the run's USDC, in MON and AUSD units
    SpareUsdc, SpareMon,    \* what the vault holds besides
    Faults,                 \* what the environment may do, out of FaultKinds
    AttemptBound,           \* bound: attempts of a step
    ManualBound             \* bound: the nonce up to which others use the admin wallet

FaultKinds == {
    "crash",        \* the process dies and restarts
    "slowPool",     \* it may restart while a transaction is still in the mempool
    "dropped",      \* the mempool forgets a transaction
    "manual",       \* someone else sends from the admin wallet
    "revert",       \* a transaction that simulated well reverts once mined
    "timeout",      \* a transaction is mined later than the 120 seconds of confirm
    "lostResponse", \* broadcast, but the answer, or the write of the hash, fails
    "readFails",    \* the read after the receipt fails
    "sendFails",    \* refused before anything is broadcast or ordered
    "planFails",    \* a read before the broadcast fails
    "ackLost",      \* Perpl takes the order, its answer never arrives
    "orderFails" }  \* Perpl takes the order, the chain refuses it afterwards

ASSUME FlowAssumption ==
    /\ MAX_ATTEMPTS \in Nat \ {0} /\ AttemptBound \in Nat \ {0}
    /\ {MonShare, AusdShare, SpareUsdc, SpareMon, ManualBound} \subseteq Nat
    /\ Faults \subseteq FaultKinds

(* STEP_NAMES, by position.                                                *)
swapUsdcForMon == 1
swapUsdcForAusd == 2
stake == 3
fundPerpManager == 4
approvePerplCollateral == 5
depositToPerpl == 6
openShort == 7

Steps      == 1 .. openShort
ChainSteps == 1 .. depositToPerpl
Attempts   == 1 .. AttemptBound
Wallets    == {"admin", "manager"}

signerFor(i) ==
    IF i \in {approvePerplCollateral, depositToPerpl} THEN "manager" ELSE "admin"

VARIABLES
    flow,           \* the document's status
    steps,          \* the document's steps
    job,            \* the worker: where it is and what it remembers
    tx,             \* the transaction of each step and attempt
    confirmed,      \* the confirmed nonce of each wallet
    book            \* what the vault, the manager and Perpl hold, by Holdings

docVars   == <<flow, steps>>
chainVars == <<tx, confirmed, book>>
vars      == <<docVars, job, chainVars>>

Idle == [at |-> "idle", step |-> 1, amount |-> 0, before |-> 0]
NoTx == [status |-> "none", nonce |-> 0, amount |-> 0]

Init ==
    /\ flow = "running"
    /\ steps = [i \in Steps |-> [status |-> "pending", attempts |-> 0, nonce |-> 0,
                                 txHash |-> 0, result |-> 0, skipped |-> FALSE]]
    /\ job = Idle
    /\ tx = [i \in ChainSteps |-> [a \in Attempts |-> NoTx]]
    /\ confirmed = [w \in Wallets |-> 0]
    /\ book = [usdc |-> MonShare + AusdShare + SpareUsdc, mon |-> SpareMon, ausd |-> 0,
               staked |-> 0, held |-> 0, allowance |-> 0, collateral |-> 0, short |-> 0, unfilled |-> 0]

-----------------------------------------------------------------------------
(***************************************************************************)
(* The chain                                                               *)
(***************************************************************************)

(* Definitions named _as_... are never used by the specification: each is   *)
(* the definition below it with a plausible bug.                            *)
(* What a step's call needs, and what it does.                             *)
Feasible(i, amount) ==
    /\ i \in {swapUsdcForMon, swapUsdcForAusd} => amount <= book.usdc
    /\ i = stake           => amount <= book.mon
    /\ i = fundPerpManager => amount <= book.ausd
    /\ i = depositToPerpl  => amount <= book.held /\ amount <= book.allowance

Move(from, to, amount) == [book EXCEPT ![from] = @ - amount, ![to] = @ + amount]

Effect(i, amount) ==
    CASE i = swapUsdcForMon         -> Move("usdc", "mon", amount)
      [] i = swapUsdcForAusd        -> Move("usdc", "ausd", amount)
      [] i = stake                  -> Move("mon", "staked", amount)
      [] i = fundPerpManager        -> Move("ausd", "held", amount)
      [] i = approvePerplCollateral -> [book EXCEPT !.allowance = amount]
      [] i = depositToPerpl         -> [Move("held", "collateral", amount)
                                           EXCEPT !.allowance = @ - amount]

(* In the mempool, and its nonce not yet taken by another.                 *)
Live(i, a) == tx[i][a].status = "pool" /\ tx[i][a].nonce >= confirmed[signerFor(i)]

PoolIsEmpty == \A i \in ChainSteps, a \in Attempts : ~Live(i, a)

(* The node's pending count is n: the first nonce no transaction of w has. *)
NonceTaken(w, n) ==
    \E i \in ChainSteps, a \in Attempts :
        signerFor(i) = w /\ tx[i][a].status = "pool" /\ tx[i][a].nonce = n

PendingCount(w, n) ==
    /\ ~NonceTaken(w, n)
    /\ \A k \in confirmed[w] .. n - 1 : NonceTaken(w, k)

(* Nothing is missing in front of it.                                      *)
Mineable(i, a) ==
    /\ Live(i, a)
    /\ \A k \in confirmed[signerFor(i)] .. tx[i][a].nonce - 1 : NonceTaken(signerFor(i), k)

(* It never will be mined: reverted, forgotten, or replaced by another.    *)
Fruitless(i, a) == tx[i][a].status \notin {"none", "mined"} /\ ~Live(i, a)

Mine(i, a) ==
    LET t == tx[i][a]
        w == signerFor(i)
    IN  /\ Live(i, a) /\ t.nonce = confirmed[w]
        /\ confirmed' = [confirmed EXCEPT ![w] = @ + 1]
        /\ \/ /\ Feasible(i, t.amount)
              /\ tx' = [tx EXCEPT ![i][a].status = "mined"]
              /\ book' = Effect(i, t.amount)
           \/ /\ "revert" \in Faults \/ ~Feasible(i, t.amount)
              /\ tx' = [tx EXCEPT ![i][a].status = "reverted"]
              /\ UNCHANGED book
        /\ UNCHANGED <<docVars, job>>

Drop(i, a) ==
    /\ "dropped" \in Faults
    /\ Live(i, a)
    /\ tx' = [tx EXCEPT ![i][a].status = "dropped"]
    /\ UNCHANGED <<docVars, job, confirmed, book>>

(* A manual or keeper transaction of the admin wallet takes its next nonce.*)
ManualSend ==
    /\ "manual" \in Faults
    /\ confirmed["admin"] < ManualBound
    /\ confirmed' = [confirmed EXCEPT !["admin"] = @ + 1]
    /\ UNCHANGED <<docVars, job, tx, book>>

-----------------------------------------------------------------------------
(***************************************************************************)
(* The worker: advance and runStep                                         *)
(***************************************************************************)
unfinished_as_not_failed == {i \in Steps : steps[i].status \notin {"done", "failed"}}

unfinished == {i \in Steps : steps[i].status # "done"}

(* The step a tick is about: the first that is not done.                   *)
Current(i) == i \in unfinished /\ \A j \in unfinished : i <= j

Ticking == flow = "running" /\ job.at = "idle"

At(place) == flow = "running" /\ job.at = place

FinishFlow ==
    /\ Ticking /\ unfinished = {}
    /\ flow' = "done"
    /\ UNCHANGED <<steps, job, chainVars>>

BeginStep_as_eager(i) ==
    /\ Ticking /\ Current(i)
    /\ steps[i].status \in {"pending", "sending", "failed"}
    /\ steps[i].attempts < AttemptBound
    /\ steps' = [steps EXCEPT ![i].status = "pending", ![i].attempts = @ + 1]
    /\ job' = [Idle EXCEPT !.at = "plan", !.step = i]
    /\ UNCHANGED <<flow, chainVars>>

(* The attempt is counted before anything is tried.                        *)
BeginStep(i) ==
    /\ Ticking /\ Current(i)
    /\ \/ steps[i].status = "pending"
       \/ steps[i].status = "failed" /\ steps[i].attempts < MAX_ATTEMPTS
    /\ steps[i].attempts < AttemptBound
    /\ steps' = [steps EXCEPT ![i].status = "pending", ![i].attempts = @ + 1]
    /\ job' = [Idle EXCEPT !.at = "plan", !.step = i]
    /\ UNCHANGED <<flow, chainVars>>

(* What the step would move: an earlier step's result, or what the manager *)
(* holds.  Nothing to move, or enough allowance, and the step is skipped.  *)
planned(i) ==
    CASE i = swapUsdcForMon  -> MonShare
      [] i = swapUsdcForAusd -> AusdShare
      [] i = stake           -> steps[swapUsdcForMon].result
      [] i = fundPerpManager -> steps[swapUsdcForAusd].result
      [] i = approvePerplCollateral ->
            IF book.allowance >= book.held THEN 0 ELSE book.held
      [] i = depositToPerpl  -> book.held
      [] i = openShort       -> steps[stake].result

balanceBefore(i) ==
    CASE i = swapUsdcForMon  -> book.mon
      [] i = swapUsdcForAusd -> book.ausd
      [] OTHER               -> 0

Skip(i) ==
    /\ At("plan") /\ job.step = i
    /\ planned(i) = 0
    /\ steps' = [steps EXCEPT ![i].status = "done", ![i].skipped = TRUE]
    /\ job' = Idle
    /\ UNCHANGED <<flow, chainVars>>

(* planStep throws out of runStep: the step stays pending.                 *)
PlanFails ==
    /\ "planFails" \in Faults
    /\ At("plan") /\ job.step # openShort
    /\ job' = Idle
    /\ UNCHANGED <<docVars, chainVars>>

(* Nothing outside reads the document, so planStep, pinNonce and the write *)
(* of the nonce are one step: the chain may still move before the send.    *)
PinNonce(i) ==
    /\ At("plan") /\ job.step = i /\ i # openShort
    /\ planned(i) > 0
    /\ \E n \in confirmed[signerFor(i)] .. confirmed[signerFor(i)] + 6 * AttemptBound :
           /\ PendingCount(signerFor(i), n)
           /\ steps' = [steps EXCEPT ![i].status = "sending", ![i].nonce = n]
    /\ job' = [job EXCEPT !.at = "send", !.amount = planned(i), !.before = balanceBefore(i)]
    /\ UNCHANGED <<flow, chainVars>>

(* The catch of runStep and of runOpenShort: one more tick, or the end.    *)
Fail(i) ==
    /\ steps' = [steps EXCEPT ![i].status = "failed"]
    /\ job' = IF steps[i].attempts >= MAX_ATTEMPTS THEN [Idle EXCEPT !.at = "giveUp"] ELSE Idle
    /\ UNCHANGED flow

GiveUp_as_left_running ==
    /\ At("giveUp")
    /\ job' = Idle
    /\ UNCHANGED <<docVars, chainVars>>

(* finishFlow(failed), or the same on a later tick.                        *)
GiveUp ==
    /\ \/ At("giveUp")
       \/ Ticking /\ \E i \in Steps : /\ Current(i) /\ steps[i].status = "failed"
                                      /\ steps[i].attempts >= MAX_ATTEMPTS
    /\ flow' = "failed"
    /\ job' = Idle
    /\ UNCHANGED <<steps, chainVars>>

(* sendPinned: simulate, then broadcast with the pinned nonce.             *)
SendRefused(i) ==
    /\ At("send") /\ job.step = i
    /\ \/ "sendFails" \in Faults
       \/ ~Feasible(i, job.amount)
       \/ steps[i].nonce < confirmed[signerFor(i)]
    /\ Fail(i)
    /\ UNCHANGED chainVars

Broadcast(i) ==
    /\ At("send") /\ job.step = i
    /\ Feasible(i, job.amount)
    /\ steps[i].nonce >= confirmed[signerFor(i)]
    /\ tx' = [tx EXCEPT ![i][steps[i].attempts] =
                 [status |-> "pool", nonce |-> steps[i].nonce, amount |-> job.amount]]
    /\ \/ job' = [job EXCEPT !.at = "record"] /\ UNCHANGED docVars
       \/ "lostResponse" \in Faults /\ Fail(i)
    /\ UNCHANGED <<confirmed, book>>

RecordHash(i) ==
    /\ At("record") /\ job.step = i
    /\ steps' = [steps EXCEPT ![i].status = "sent", ![i].txHash = steps[i].attempts]
    /\ job' = [job EXCEPT !.at = "confirm"]
    /\ UNCHANGED <<flow, chainVars>>

Confirmed(i) == tx[i][steps[i].txHash].status = "mined"

(* confirm throws on a revert, and after 120 seconds without a receipt:    *)
(* always when none can come, because the transaction was forgotten, was   *)
(* replaced or waits behind a nonce that nobody has.                       *)
Unconfirmed(i) ==
    \/ ~Confirmed(i) /\ ~Mineable(i, steps[i].txHash)
    \/ "timeout" \in Faults

Confirm(i) ==
    /\ At("confirm") /\ job.step = i
    /\ \/ Confirmed(i) /\ job' = [job EXCEPT !.at = "settle"] /\ UNCHANGED docVars
       \/ Unconfirmed(i) /\ Fail(i)
    /\ UNCHANGED chainVars

settled_as_balance(i) ==
    CASE i = swapUsdcForMon  -> book.mon
      [] i = swapUsdcForAusd -> book.ausd
      [] OTHER               -> job.amount

(* plan.settle reads back what was bought; the other steps know already.   *)
settled(i) ==
    CASE i = swapUsdcForMon  -> book.mon - job.before
      [] i = swapUsdcForAusd -> book.ausd - job.before
      [] OTHER               -> job.amount

Settle(i) ==
    /\ At("settle") /\ job.step = i
    /\ \/ /\ steps' = [steps EXCEPT ![i].status = "done", ![i].result = settled(i)]
          /\ job' = Idle
          /\ UNCHANGED flow
       \/ "readFails" \in Faults /\ Fail(i)
    /\ UNCHANGED chainVars

-----------------------------------------------------------------------------
(***************************************************************************)
(* runOpenShort.  Perpl takes the order whether or not its answer arrives  *)
(* within the eight seconds of PerplSession.submit, and what it took the   *)
(* chain may still refuse: that comes in a frame that is only logged       *)
(* (perplSession.ts 256-264), so the step is recorded as done all the same.*)
(***************************************************************************)
Ordering == At("plan") /\ job.step = openShort /\ planned(openShort) > 0

Forwarded(into) == book' = [book EXCEPT ![into] = @ + planned(openShort)]

(* What becomes of an order that Perpl took.                               *)
Taken ==
    \/ Forwarded("short")
    \/ "orderFails" \in Faults /\ Forwarded("unfilled")

OrderAccepted ==
    /\ Ordering /\ Taken
    /\ job' = [job EXCEPT !.at = "fill"]
    /\ UNCHANGED <<docVars, tx, confirmed>>

OrderFails ==
    /\ Ordering
    /\ \/ "sendFails" \in Faults /\ UNCHANGED book
       \/ "ackLost" \in Faults /\ Taken
    /\ Fail(openShort)
    /\ UNCHANGED <<tx, confirmed>>

RecordShort ==
    /\ At("fill")
    /\ steps' = [steps EXCEPT ![openShort].status = "done"]
    /\ job' = Idle
    /\ UNCHANGED <<flow, chainVars>>

-----------------------------------------------------------------------------
(***************************************************************************)
(* A restart, and resolveInFlight for the step that was caught mid-send    *)
(***************************************************************************)
Crash ==
    /\ "crash" \in Faults
    /\ flow = "running" /\ job.at # "down"
    /\ job' = [Idle EXCEPT !.at = "down"]
    /\ UNCHANGED <<docVars, chainVars>>

Restart ==
    /\ At("down")
    /\ "slowPool" \in Faults \/ PoolIsEmpty
    /\ job' = Idle
    /\ UNCHANGED <<docVars, chainVars>>

InFlight(i) == Ticking /\ Current(i) /\ steps[i].status \in {"sending", "sent"}

(* The hash decides: a step it confirms is done, with no result.           *)
ResolveByHash(i) ==
    /\ InFlight(i) /\ steps[i].txHash # 0
    /\ \/ Confirmed(i) /\ steps' = [steps EXCEPT ![i].status = "done"]
       \/ Unconfirmed(i) /\ steps' = [steps EXCEPT ![i].status = "failed"]
    /\ UNCHANGED <<flow, job, chainVars>>

(* checkNonce: a nonce still unused means the send never landed; one that  *)
(* is spent is for a person to look at, and the flow ends in a next write. *)
NonceSpent(i) == confirmed[signerFor(i)] > steps[i].nonce

ResolveByNonce_as_assumed_ours(i) ==
    /\ InFlight(i) /\ steps[i].txHash = 0
    /\ steps' = [steps EXCEPT ![i].status = IF NonceSpent(i) THEN "done" ELSE "pending"]
    /\ UNCHANGED <<flow, job, chainVars>>

ResolveByNonce(i) ==
    /\ InFlight(i) /\ steps[i].txHash = 0
    /\ \/ ~NonceSpent(i) /\ steps' = [steps EXCEPT ![i].status = "pending"] /\ UNCHANGED job
       \/ /\ NonceSpent(i)
          /\ steps' = [steps EXCEPT ![i].status = "needs-review"]
          /\ job' = [Idle EXCEPT !.at = "giveUp"]
    /\ UNCHANGED <<flow, chainVars>>

-----------------------------------------------------------------------------
StepNext(i) ==
    \/ BeginStep(i) \/ Skip(i)
    \/ ResolveByHash(i) \/ ResolveByNonce(i)
    \/ PinNonce(i) \/ SendRefused(i) \/ Broadcast(i) \/ RecordHash(i)
    \/ Confirm(i) \/ Settle(i)

WorkerNext ==
    \/ \E i \in Steps : StepNext(i)
    \/ PlanFails
    \/ OrderAccepted \/ OrderFails \/ RecordShort
    \/ FinishFlow \/ GiveUp

MineNext == \E i \in ChainSteps, a \in Attempts : Mine(i, a)
DropNext == \E i \in ChainSteps, a \in Attempts : Drop(i, a)

Next == WorkerNext \/ MineNext \/ DropNext \/ ManualSend \/ Crash \/ Restart

Spec == Init /\ [][Next]_vars

(* The runner ticks every 20 seconds and every await ends; blocks come.    *)
FairSpec == Spec /\ WF_vars(WorkerNext) /\ WF_vars(MineNext)

-----------------------------------------------------------------------------
(***************************************************************************)
(* Properties                                                              *)
(***************************************************************************)
StepStatus == {"pending", "sending", "sent", "done", "failed", "needs-review"}
Places == {"idle", "plan", "send", "record", "confirm", "settle", "fill", "giveUp", "down"}
TxStatus == {"none", "pool", "mined", "reverted", "dropped"}

Holdings == {"usdc", "mon", "ausd", "staked", "held", "allowance", "collateral", "short",
             "unfilled"}

(* Every variable has its type.                                            *)
TypeOK ==
    /\ flow \in {"running", "done", "failed"}
    /\ steps \in [Steps -> [status : StepStatus, attempts : 0 .. AttemptBound, nonce : Nat,
                            txHash : 0 .. AttemptBound, result : Int, skipped : BOOLEAN]]
    /\ job \in [at : Places, step : Steps, amount : Nat, before : Nat]
    /\ tx \in [ChainSteps -> [Attempts -> [status : TxStatus, nonce : Nat, amount : Nat]]]
    /\ confirmed \in [Wallets -> Nat]
    /\ book \in [Holdings -> Nat]

Executed(i) == {a \in Attempts : tx[i][a].status = "mined"}

(* "Steps run strictly in order" (26): no transaction of a step, and no    *)
(* order, exists before every step ahead of it is done.                    *)
StepsInOrder ==
    \A i \in Steps :
        (IF i = openShort THEN book.short + book.unfilled > 0 ELSE \E a \in Attempts : tx[i][a] # NoTx)
        => \A j \in 1 .. i - 1 : steps[j].status = "done"

(* What is recorded as done was done: the step's transaction is mined.     *)
DoneIsDone ==
    \A i \in ChainSteps :
        steps[i].status = "done" /\ ~steps[i].skipped => Executed(i) # {}

(* txRunner.ts 5: one transaction, exactly once, across restarts.          *)
OnlyOnce(i) == \A a, b \in Executed(i) : a = b

AtMostOnce == \A i \in ChainSteps : OnlyOnce(i)

(* The same over crashes, for a step none of whose transactions was        *)
(* reverted, forgotten or replaced: such a one leaves its hash on record,  *)
(* and a restart would judge the next attempt by it.                       *)
SentOnce ==
    \A i \in ChainSteps : (\A a \in Attempts : ~Fruitless(i, a)) => OnlyOnce(i)

(* flowEngine.ts 28-29: a step that has already spent its nonce is never   *)
(* sent again.  A reverted attempt is retried on purpose and not meant.    *)
NeverResent ==
    [][\A i \in ChainSteps, a \in Attempts :
          tx[i][a] = NoTx /\ tx'[i][a] # NoTx => Executed(i) = {}]_vars

(* Nothing was executed twice, no result was lost, one order was placed,   *)
(* and the chain did not refuse it.                                        *)
Unambiguous ==
    /\ AtMostOnce
    /\ \A i \in {swapUsdcForMon, swapUsdcForAusd, stake} : steps[i].result > 0
    /\ steps[openShort].attempts = 1 /\ book.unfilled = 0

(* flowEngine.ts 13-21: when a run is done its USDC share is staked, the   *)
(* rest is collateral and the short is as large as the stake.  Whatever    *)
(* goes wrong, the ways to miss it are the four that Unambiguous rules     *)
(* out: no retry, skip or resume misallocates by itself.                   *)
AllocatedAndHedged ==
    flow = "done" /\ Unambiguous => /\ book.staked = MonShare
                                    /\ book.collateral = AusdShare
                                    /\ book.short = MonShare

(* flowEngine.ts 21: short the same amount of MON that was staked.         *)
HedgedWhenDone == flow = "done" => book.short = book.staked

(* A run ends, done or failed: while it is running no other can start      *)
(* (automationRunner.ts 109).                                              *)
FlowEnds == <>(flow # "running")
=============================================================================
