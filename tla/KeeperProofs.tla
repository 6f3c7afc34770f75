---------------------------- MODULE KeeperProofs ----------------------------
(***************************************************************************)
(* Proofs about Keeper.tla, for any managers, validators, rates, limits    *)
(* and budgets of faults: what the mark of the perp book is worth while    *)
(* the keeper, the managers, the market and the vault go on between any    *)
(* two of its awaits.                                                      *)
(*                                                                         *)
(* The vault under the keeper takes steps of DeltaMonVault, so that its    *)
(* invariants carry over.  What the keeper adds is an invariant on the     *)
(* reports under way: a plan, a report in the mempool and the mark itself  *)
(* are worth no more than the managers hold unless something overtook      *)
(* them, and a tick that did not fail leaves a mark that is young enough.  *)
(***************************************************************************)
EXTENDS Keeper, DeltaMonVaultProofs, SequenceTheorems

(***************************************************************************)
(* Types                                                                   *)
(***************************************************************************)
Stages == {"idle", "mark", "send", "confirm", "rewards", "unbonded"}

ReadType == [deployed : Nat, pnl : Int, at : Nat, now : Nat]
MarkType == [pnl : Int, clean : BOOLEAN, basis : Nat, loss : BOOLEAN]
ViewType == [equity : Nat, at : Nat, clean : BOOLEAN]
TickType == [at : Stages, read : ReadType, mark : MarkType, left : SUBSET Validators,
             slots : SUBSET (Validators \X Slots), alerts : SUBSET {"oracle", "loss"},
             failed : BOOLEAN]

KeeperTypes ==
    /\ tick \in TickType
    /\ watched \in SUBSET Validators /\ source \in {"socket", "feed"}
    /\ held \in Nat /\ view \in ViewType
    /\ mempool \in Seq(MarkType) /\ marked \in MarkType
    /\ seenAt \in Nat /\ troubled \in BOOLEAN /\ faults \in Nat

(* A mark that nothing has overtaken is no more than the managers hold, or *)
(* it is the band's, and of the loss past it the admin was told.           *)
Holds(m) == m.clean => m.loss \/ perpManagerDeployed + m.pnl <= held

(* What a tick has read, what was made of it and what was reported.        *)
ReadsInTime ==
    /\ seenAt <= now
    /\ tick.at # "idle" => seenAt <= tick.read.now /\ tick.read.now <= now

MarksAreTrue ==
    /\ view.clean => view.equity = held
    /\ tick.at = "mark" /\ tick.mark.clean => tick.read.deployed = perpManagerDeployed
    /\ tick.at = "send" => Holds(tick.mark)
    /\ \A i \in DOMAIN mempool : Holds(mempool[i])
    /\ perpManagerDeployed > 0 => Holds([marked EXCEPT !.pnl = perpReportedPnl])

(* A mark in force at the time t was less than half its life old.          *)
Marked       == perpManagerDeployed > 0 /\ perpReportedAt # 0
Confirmed(t) == Marked => t <= perpReportedAt \/ (t - perpReportedAt) * 2 < ReportMaxAge

(* While nothing fails: a tick that reached its last steps without failing *)
(* has confirmed the mark as of the time it read the vault.                *)
TicksConfirm ==
    ~troubled =>
        /\ faults = 0
        /\ now <= seenAt + TickGap
        /\ Len(mempool) = IF tick.at = "confirm" THEN 1 ELSE 0
        /\ Confirmed(seenAt)
        /\ tick.at = "mark" /\ Marked =>
              \/ tick.read.now <= perpReportedAt
              \/ tick.read.deployed # 0 /\ perpReportedAt = tick.read.at
        /\ tick.at \in {"rewards", "unbonded"} /\ ~tick.failed => Confirmed(tick.read.now)

(* A mark made of the feed is of a book that was read in time.             *)
MarksAreOfRecentBooks ==
    ~troubled /\ source = "feed" =>
        /\ Marked => perpReportedAt <= marked.basis + MaxBookAge + TickGap
        /\ tick.at = "send" => tick.read.now <= tick.mark.basis + MaxBookAge
        /\ tick.at = "confirm" => \A i \in DOMAIN mempool :
              tick.read.now <= mempool[i].basis + MaxBookAge

KeeperInv ==
    /\ TypeInv /\ KeeperTypes
    /\ ReadsInTime /\ MarksAreTrue /\ TicksConfirm /\ MarksAreOfRecentBooks

-----------------------------------------------------------------------------
(***************************************************************************)
(* The vault under the keeper                                              *)
(***************************************************************************)
LEMMA Bounds ==
    /\ {MinChangeBps, MinRemark, MaxBookAge, FutureTolerance, TickGap, ReportMaxAge} \subseteq Nat
    /\ {Faults, MoveBudget} \subseteq Nat /\ PnlBandBps \in Nat
    /\ PerpAmounts \subseteq Nat /\ BPS \in Nat \ {0}
  BY KeeperAssumption, VaultAssumption DEF KeeperAssumption, VaultAssumption

LEMMA BandIsNat == ASSUME NEW d \in Nat PROVE MulDiv(d, PnlBandBps, BPS) \in Nat
  <1>1. d * PnlBandBps \in Nat
    BY Bounds, ProductOfNats
  <1> QED BY <1>1, Bounds DEF MulDiv

(* A step of the keeper's system is one of the vault, or the keeper's      *)
(* report, which the vault takes only inside the band.                     *)
Reported == \E pnl \in Int : ReportPerpPnl(FALSE, pnl) /\ UNCHANGED callsLeft

LEMMA MinedFacts ==
    ASSUME KeeperInv, Mined
    PROVE  /\ mempool # <<>> /\ mempool[1] \in MarkType /\ 1 \in DOMAIN mempool
           /\ mempool' = Tail(mempool) /\ mempool' \in Seq(MarkType)
           /\ Len(mempool) \in Nat /\ Len(mempool') = Len(mempool) - 1
           /\ \A i \in DOMAIN mempool' : i + 1 \in DOMAIN mempool /\ mempool'[i] = mempool[i + 1]
           /\ \/ /\ InBand(mempool[1].pnl) /\ ReportPerpPnl(FALSE, mempool[1].pnl)
                 /\ marked' = [mempool[1] EXCEPT !.pnl = 0]
              \/ ~InBand(mempool[1].pnl) /\ UNCHANGED <<vars, marked>>
           /\ \/ /\ tick.at = "confirm" /\ Len(mempool) = 1
                 /\ tick' = [tick EXCEPT !.at = "rewards", !.failed = @ \/ ~InBand(mempool[1].pnl)]
              \/ ~(tick.at = "confirm" /\ Len(mempool) = 1) /\ tick' = tick
           /\ UNCHANGED <<callsLeft, watched, source, held, view, seenAt, troubled, faults>>
  <1>1. mempool \in Seq(MarkType) /\ mempool # <<>> /\ mempool' = Tail(mempool)
    BY DEF Mined, KeeperInv, KeeperTypes
  <1>2. /\ Len(mempool) \in Nat \ {0} /\ DOMAIN mempool = 1 .. Len(mempool)
        /\ Head(mempool) = mempool[1] /\ mempool[1] \in MarkType
    BY <1>1, EmptySeq, LenProperties, HeadTailProperties
  <1>3. /\ Tail(mempool) \in Seq(MarkType) /\ Len(Tail(mempool)) = Len(mempool) - 1
        /\ \A i \in 1 .. Len(Tail(mempool)) : Tail(mempool)[i] = mempool[i + 1]
    BY <1>1, HeadTailProperties
  <1>4. DOMAIN Tail(mempool) = 1 .. Len(Tail(mempool))
    BY <1>3, LenProperties
  <1>5. \A i \in DOMAIN mempool' : i + 1 \in DOMAIN mempool /\ mempool'[i] = mempool[i + 1]
    BY <1>1, <1>2, <1>3, <1>4
  <1> HIDE DEF InBand
  <1>6. /\ \/ /\ InBand(mempool[1].pnl) /\ ReportPerpPnl(FALSE, mempool[1].pnl)
              /\ marked' = [mempool[1] EXCEPT !.pnl = 0]
           \/ ~InBand(mempool[1].pnl) /\ UNCHANGED <<vars, marked>>
        /\ \/ /\ tick.at = "confirm" /\ Len(mempool) = 1
              /\ tick' = [tick EXCEPT !.at = "rewards", !.failed = @ \/ ~InBand(mempool[1].pnl)]
           \/ ~(tick.at = "confirm" /\ Len(mempool) = 1) /\ tick' = tick
    BY <1>2 DEF Mined
  <1>7. UNCHANGED <<callsLeft, watched, source, held, view, seenAt, troubled, faults>>
    BY DEF Mined
  <1>8. /\ Len(mempool) \in Nat /\ Len(mempool') = Len(mempool) - 1 /\ mempool' \in Seq(MarkType)
        /\ 1 \in DOMAIN mempool
    BY <1>1, <1>2, <1>3
  <1> QED BY <1>1, <1>2, <1>5, <1>6, <1>7, <1>8, Zenon

LEMMA VaultTakesAStep ==
    ASSUME KeeperInv, [KeeperNext]_allVars
    PROVE  [Next]_vars \/ Reported
  <1>1. CASE ReadState \/ ReadFails \/ PlanMark \/ SendMark \/ ConfirmTimesOut \/ Restart
                \/ MarketMoves \/ ViewRefreshed
    BY <1>1 DEF ReadState, ReadFails, PlanMark, SendMark, ConfirmTimesOut, Restart, MarketMoves,
                ViewRefreshed
  <1>2. CASE Mined
    <2>1. mempool[1].pnl \in Int
      BY <1>2, MinedFacts DEF MarkType
    <2> QED BY <1>2, <2>1, MinedFacts DEF Reported
  <1>3. CASE ClaimRewards
    <2>1. tick.left \subseteq Validators
      BY DEF KeeperInv, KeeperTypes, TickType
    <2>2. \/ UNCHANGED vars
          \/ UNCHANGED callsLeft /\ \E v \in tick.left, r \in Rewards : ClaimStakingRewards(v, r)
      BY <1>3 DEF ClaimRewards
    <2>3. UNCHANGED vars \/ (UNCHANGED callsLeft /\ StakeNext)
      BY <2>1, <2>2 DEF StakeNext
    <2> QED BY <2>3 DEF Next
  <1>4. CASE ClaimUnbonded
    <2>1. tick.slots \subseteq Validators \X Slots
      BY DEF KeeperInv, KeeperTypes, TickType
    <2>2. \/ UNCHANGED vars
          \/ UNCHANGED callsLeft /\ \E p \in tick.slots : ClaimUnstaked(p[1], p[2])
      BY <1>4 DEF ClaimUnbonded
    <2>3. \A p \in tick.slots : p[1] \in Validators /\ p[2] \in Slots
      BY <2>1
    <2>4. UNCHANGED vars \/ (UNCHANGED callsLeft /\ StakeNext)
      BY <2>2, <2>3 DEF StakeNext
    <2> QED BY <2>4 DEF Next
  <1>5. CASE ManagersMove
    <2>1. PerpNext /\ UNCHANGED callsLeft
      BY <1>5 DEF ManagersMove, PerpNext
    <2> QED BY <2>1 DEF Next
  <1>6. CASE VaultMoves
    <2>1. \/ ShareNext /\ callsLeft > 0 /\ callsLeft' = callsLeft - 1
          \/ (SwapNext \/ StakeNext) /\ UNCHANGED callsLeft
          \/ UNCHANGED callsLeft /\ \E p \in Prices, live \in FeedStates : OracleMoves(p, live)
      BY <1>6 DEF VaultMoves
    <2> QED BY <2>1 DEF Next, EnvNext
  <1>7. CASE TimePasses
    BY <1>7 DEF TimePasses, Next, EnvNext
  <1>8. CASE UNCHANGED allVars
    BY <1>8 DEF allVars
  <1> QED BY <1>1, <1>2, <1>3, <1>4, <1>5, <1>6, <1>7, <1>8 DEF KeeperNext, TickStep

LEMMA ReportKeepsTypes == ASSUME TypeInv, Reported PROVE TypeInv'
  <1>1. PICK pnl \in Int : ReportPerpPnl(FALSE, pnl)
    BY DEF Reported
  <1>2. MarkInv'
    BY <1>1, ReportKeepsMarkInv DEF TypeInv
  <1>3. UNCHANGED booksFrame /\ UNCHANGED stakeVars
    BY <1>1 DEF ReportPerpPnl, booksFrame, marketVars
  <1>4. UnbondInv'
    BY <1>3 DEF TypeInv, UnbondInv, stakeVars, StakeTypeOK, SlotsMirrorRequests
  <1>5. BooksTypeOK'
    BY <1>3 DEF TypeInv, BooksTypeOK, booksFrame, shareVars, monVars
  <1> QED BY <1>2, <1>4, <1>5 DEF TypeInv

LEMMA VaultTypesKept == ASSUME KeeperInv, [KeeperNext]_allVars PROVE TypeInv'
  BY VaultTakesAStep, TypeInvStep, ReportKeepsTypes DEF KeeperInv

-----------------------------------------------------------------------------
(***************************************************************************)
(* The tick                                                                *)
(***************************************************************************)
KeeperParts == KeeperTypes /\ ReadsInTime /\ MarksAreTrue /\ TicksConfirm /\ MarksAreOfRecentBooks

LEMMA RestingTick == Resting \in TickType /\ NoMark \in MarkType /\ Resting.at = "idle"
  BY DEF Resting, TickType, Stages, ReadType, MarkType, NoRead, NoMark

LEMMA GoFacts ==
    ASSUME NEW t \in TickType, NEW at \in Stages, Go(t, at), watched \subseteq Validators
    PROVE  /\ tick' \in TickType /\ tick'.at = at
           /\ tick'.read.now = t.read.now /\ tick'.failed = t.failed
           /\ at = "send" => tick'.mark = t.mark
  <1>1. /\ t.read.now \in Nat /\ t.mark \in MarkType
        /\ t.alerts \in SUBSET {"oracle", "loss"} /\ t.failed \in BOOLEAN
    BY DEF TickType, ReadType
  <1>2. tick' = [at |-> at, read |-> [NoRead EXCEPT !.now = t.read.now],
                 mark |-> IF at = "send" THEN t.mark ELSE NoMark, left |-> watched, slots |-> {},
                 alerts |-> t.alerts, failed |-> t.failed]
    BY DEF Go, Resting
  <1>3. [NoRead EXCEPT !.now = t.read.now] \in ReadType
    BY <1>1 DEF NoRead, ReadType
  <1>4. [NoRead EXCEPT !.now = t.read.now].now = t.read.now
    BY DEF NoRead
  <1>5. tick' \in TickType
    BY <1>1, <1>2, <1>3, RestingTick DEF TickType
  <1> QED BY <1>2, <1>4, <1>5

LEMMA KeeperNumbers ==
    ASSUME KeeperInv
    PROVE  /\ perpManagerDeployed \in Nat /\ perpReportedPnl \in Int /\ now \in Nat \ {0}
           /\ perpReportedAt \in Nat /\ perpReportedAt <= now
           /\ held \in Nat /\ seenAt \in Nat /\ view.at \in Nat /\ view.equity \in Nat
           /\ tick.read.now \in Nat /\ tick.read.at \in Nat
           /\ tick.read.deployed \in Nat /\ tick.read.pnl \in Int
           /\ tick.mark.basis \in Nat /\ tick.mark.pnl \in Int /\ marked.basis \in Nat
           /\ tick \in TickType /\ watched \subseteq Validators
  BY DEF KeeperInv, TypeInv, MarkInv, PerpTypeOK, KeeperTypes, TickType, ReadType, MarkType, ViewType

(* A step of the tick towards its end: nothing of the book is in its hands *)
(* any more.                                                               *)
LEMMA TickMovesOn ==
    ASSUME KeeperInv, tick' \in TickType, tick'.at \in {"idle", "rewards", "unbonded"},
           UNCHANGED <<perpFrame, watched, source, held, view, mempool, marked, troubled>>,
           faults' \in Nat, faults' <= faults,
           tick'.at # "idle" => /\ tick.at # "idle" /\ seenAt' = seenAt
                                /\ tick'.read.now = tick.read.now,
           seenAt' = seenAt \/ (tick.at # "idle" /\ seenAt' = tick.read.now),
           ~troubled =>
              /\ tick.at # "confirm"
              /\ Confirmed(seenAt')
              /\ tick'.at # "idle" /\ ~tick'.failed => Confirmed(tick.read.now)
    PROVE  KeeperParts'
  <1>1. seenAt' \in Nat /\ seenAt <= seenAt' /\ seenAt' <= now /\ now' = now /\ now \in Nat
    BY KeeperNumbers DEF KeeperInv, ReadsInTime, perpFrame
  <1>2. UNCHANGED <<perpManagerDeployed, perpReportedPnl, perpReportedAt>>
    BY DEF perpFrame, perpVars
  <1>3. KeeperTypes'
    BY <1>1 DEF KeeperInv, KeeperTypes
  <1>4. ReadsInTime'
    BY <1>1 DEF KeeperInv, ReadsInTime
  <1>5. MarksAreTrue'
    BY <1>2 DEF KeeperInv, MarksAreTrue, Holds
  <1>6. ASSUME ~troubled
        PROVE  /\ faults' = 0 /\ now' <= seenAt' + TickGap /\ Len(mempool') = 0
               /\ tick'.at # "confirm" /\ tick'.at # "mark"
    <2>1. faults = 0 /\ now <= seenAt + TickGap /\ Len(mempool) = 0
      BY <1>6 DEF KeeperInv, TicksConfirm
    <2>2. faults' = 0
      BY <2>1
    <2>3. now' <= seenAt' + TickGap
      BY <1>1, <2>1, KeeperNumbers, Bounds
    <2> QED BY <2>1, <2>2, <2>3
  <1>7. TicksConfirm'
    <2>1. ~troubled => Confirmed(seenAt)'
      BY <1>2 DEF Confirmed, Marked
    <2>2. ~troubled => (tick'.at \in {"rewards", "unbonded"} /\ ~tick'.failed => Confirmed(tick.read.now)')
      BY <1>2 DEF Confirmed, Marked
    <2> QED BY <1>6, <2>1, <2>2 DEF TicksConfirm
  <1>8. MarksAreOfRecentBooks'
    BY <1>2 DEF KeeperInv, MarksAreOfRecentBooks, Marked
  <1> QED BY <1>3, <1>4, <1>5, <1>7, <1>8 DEF KeeperParts

LEMMA ReadStateIsSafe == ASSUME KeeperInv, ReadState PROVE KeeperParts'
  <1>1. /\ tick' = [Resting EXCEPT
                      !.at = "mark", !.alerts = ReadAlerts,
                      !.read = [deployed |-> perpManagerDeployed, pnl |-> perpReportedPnl,
                                at |-> perpReportedAt, now |-> now]]
        /\ tick.at = "idle"
        /\ UNCHANGED <<perpManagerDeployed, perpReportedPnl, perpReportedAt, now>>
        /\ UNCHANGED <<watched, source, held, view, mempool, marked, seenAt, troubled, faults>>
    BY DEF ReadState, vars, perpVars, marketVars
  <1>2. /\ tick'.at = "mark" /\ tick'.read.deployed = perpManagerDeployed
        /\ tick'.read.at = perpReportedAt /\ tick'.read.now = now
        /\ tick' \in TickType
    BY <1>1, KeeperNumbers, RestingTick DEF Resting, TickType, Stages, ReadType, ReadAlerts
  <1>3. KeeperTypes'
    BY <1>1, <1>2 DEF KeeperInv, KeeperTypes
  <1>4. ReadsInTime'
    BY <1>1, <1>2, KeeperNumbers DEF KeeperInv, ReadsInTime
  <1>5. MarksAreTrue'
    BY <1>1, <1>2 DEF KeeperInv, MarksAreTrue, Holds
  <1>6. TicksConfirm'
    <2>1. Marked' => \/ tick'.read.now <= perpReportedAt'
                     \/ tick'.read.deployed # 0 /\ perpReportedAt' = tick'.read.at
      BY <1>1, <1>2, KeeperNumbers DEF Marked
    <2> QED BY <1>1, <1>2, <2>1 DEF KeeperInv, TicksConfirm, Confirmed, Marked
  <1>7. MarksAreOfRecentBooks'
    BY <1>1, <1>2 DEF KeeperInv, MarksAreOfRecentBooks, Marked
  <1> QED BY <1>3, <1>4, <1>5, <1>6, <1>7 DEF KeeperParts

(* A plan that lets the mark be is of one that is young; one that reports  *)
(* is no more than the book that was read.                                 *)
LEMMA PlanFacts ==
    ASSUME NEW read \in ReadType, NEW book, book.equity \in Int, book.asOf \in Nat,
           NEW plan, plan = PlanPerpMark(read, book)
    PROVE  /\ plan.pnl \in Int /\ plan.usable \in BOOLEAN /\ plan.loss \in BOOLEAN
           /\ plan.report \in BOOLEAN
           /\ plan.report => plan.usable
           /\ plan.usable => book # NoBook /\ read.now <= book.asOf + MaxBookAge
           /\ plan.usable => plan.loss \/ read.deployed + plan.pnl <= book.equity
           /\ plan.usable /\ ~plan.report => (read.now - read.at) * 2 < ReportMaxAge
  <1> DEFINE age  == read.now - read.at
             raw  == book.equity - read.deployed
             band == MulDiv(read.deployed, PnlBandBps, BPS)
             pnl  == Clamp(raw, band)
             usable == book # NoBook /\ Usable(read.now - book.asOf)
             moved  == IF pnl > read.pnl THEN pnl - read.pnl ELSE read.pnl - pnl
             news   == age >= MinRemark /\ moved > MulDiv(read.deployed, MinChangeBps, BPS)
  <1>1. /\ read.deployed \in Nat /\ read.now \in Nat /\ read.at \in Nat /\ read.pnl \in Int
    BY DEF ReadType
  <1>2. band \in Nat /\ raw \in Int /\ age \in Int
    BY <1>1, BandIsNat
  <1>3. plan = [usable |-> usable, pnl |-> pnl, loss |-> usable /\ raw < -band,
                report |-> usable /\ (Due(age) \/ news)]
    BY DEF PlanPerpMark
  <1>4. usable => read.now <= book.asOf + MaxBookAge
    BY <1>1, Bounds DEF Usable
  <1>5. ~Due(age) => age * 2 < ReportMaxAge
    BY <1>2, Bounds DEF Due
  <1>6. pnl \in Int /\ (raw < -band \/ pnl <= raw)
    <2> HIDE DEF raw, band
    <2> QED BY <1>2 DEF Clamp, Smaller
  <1>7. raw < -band \/ read.deployed + pnl <= book.equity
    <2> HIDE DEF pnl, band
    <2> QED BY <1>1, <1>6
  <1> HIDE DEF pnl, band, news, raw
  <1>8. /\ plan.usable = usable /\ plan.pnl = pnl
        /\ plan.loss = (usable /\ raw < -band) /\ plan.report = (usable /\ (Due(age) \/ news))
    BY <1>3
  <1>9. plan.usable \in BOOLEAN /\ plan.loss \in BOOLEAN /\ plan.report \in BOOLEAN
    BY <1>8
  <1> HIDE DEF usable, age
  <1>10. plan.usable => book # NoBook
    BY <1>8 DEF usable
  <1>11. plan.usable => plan.loss \/ read.deployed + plan.pnl <= book.equity
    BY <1>7, <1>8
  <1>12. plan.usable /\ ~plan.report => (read.now - read.at) * 2 < ReportMaxAge
    BY <1>5, <1>8 DEF age
  <1>13. plan.report => plan.usable
    BY <1>8
  <1> QED BY <1>4, <1>6, <1>8, <1>9, <1>10, <1>11, <1>12, <1>13

LEMMA PlanMarkIsSafe == ASSUME KeeperInv, PlanMark PROVE KeeperParts'
  <1>1. /\ tick.at = "mark"
        /\ UNCHANGED <<perpFrame, watched, source, held, view, mempool, marked, seenAt, troubled>>
    BY DEF PlanMark, vars, perpFrame, marketVars
  <1>2. /\ tick \in TickType /\ tick.read \in ReadType /\ tick.mark \in MarkType
        /\ watched \subseteq Validators /\ faults \in Nat /\ view \in ViewType
        /\ "rewards" \in Stages /\ "send" \in Stages
    BY DEF KeeperInv, KeeperTypes, TickType, Stages
  <1>3. ~troubled => Confirmed(seenAt)
    BY DEF KeeperInv, TicksConfirm
  <1>4. ~troubled /\ Marked =>
           \/ tick.read.now <= perpReportedAt
           \/ tick.read.deployed # 0 /\ perpReportedAt = tick.read.at
    BY <1>1 DEF KeeperInv, TicksConfirm
  <1>5. CASE tick.read.deployed = 0 /\ Go(tick, "rewards") /\ UNCHANGED faults
    <2>1. /\ tick' \in TickType /\ tick'.at = "rewards" /\ tick'.read.now = tick.read.now
      BY <1>2, <1>5, GoFacts
    <2>2. ~troubled => Confirmed(tick.read.now)
      BY <1>4, <1>5 DEF Confirmed
    <2> QED BY <1>1, <1>2, <1>3, <1>5, <2>1, <2>2, TickMovesOn
  <1>6. CASE tick.read.deployed # 0
    <2>book. PICK book \in {[equity |-> view.equity,
                          asOf |-> IF source = "socket" THEN now ELSE view.at], NoBook} :
             /\ IF book = NoBook THEN Fault ELSE UNCHANGED faults
             /\ LET plan == PlanPerpMark(tick.read, book)
                    t    == [tick EXCEPT
                               !.mark = [pnl |-> plan.pnl, clean |-> @.clean /\ view.clean,
                                         basis |-> view.at, loss |-> plan.loss],
                               !.alerts = @ \cup {x \in {"loss"} : plan.loss},
                               !.failed = ~plan.usable]
                IN  Go(t, IF plan.report THEN "send" ELSE "rewards")
      BY <1>6, Zenon DEF PlanMark
    <2>plan. PICK plan : plan = PlanPerpMark(tick.read, book)
      OBVIOUS
    <2>t. PICK t : t = [tick EXCEPT
                          !.mark = [pnl |-> plan.pnl, clean |-> @.clean /\ view.clean,
                                    basis |-> view.at, loss |-> plan.loss],
                          !.alerts = @ \cup {x \in {"loss"} : plan.loss},
                          !.failed = ~plan.usable]
      OBVIOUS
    <2>go. Go(t, IF plan.report THEN "send" ELSE "rewards")
      BY <2>book, <2>plan, <2>t, Zenon
    <2>cost. IF book = NoBook THEN Fault ELSE UNCHANGED faults
      BY <2>book
    <2>in. book \in {[equity |-> view.equity,
                     asOf |-> IF source = "socket" THEN now ELSE view.at], NoBook}
      BY <2>book
    <2>1. book.equity \in Int /\ book.asOf \in Nat
      BY <2>in, KeeperNumbers DEF NoBook
    <2>2. /\ plan.pnl \in Int /\ plan.usable \in BOOLEAN /\ plan.loss \in BOOLEAN
          /\ plan.report \in BOOLEAN
          /\ plan.report => plan.usable
          /\ plan.usable => book # NoBook /\ tick.read.now <= book.asOf + MaxBookAge
          /\ plan.usable => plan.loss \/ tick.read.deployed + plan.pnl <= book.equity
          /\ plan.usable /\ ~plan.report => (tick.read.now - tick.read.at) * 2 < ReportMaxAge
      BY <1>2, <2>plan, <2>1, PlanFacts
    <2> DEFINE mark == [pnl |-> plan.pnl, clean |-> tick.mark.clean /\ view.clean,
                        basis |-> view.at, loss |-> plan.loss]
    <2>3. mark \in MarkType
      BY <1>2, <2>2, KeeperNumbers DEF MarkType, ViewType
    <2>4. /\ t \in TickType /\ t.read.now = tick.read.now /\ t.failed = ~plan.usable
          /\ t.mark = mark
      <3>1. t = [tick EXCEPT !.mark = mark, !.alerts = tick.alerts \cup {x \in {"loss"} : plan.loss},
                             !.failed = ~plan.usable]
        BY <2>t
      <3>2. tick.alerts \cup {x \in {"loss"} : plan.loss} \in SUBSET {"oracle", "loss"}
        BY <1>2 DEF TickType
      <3> HIDE DEF mark
      <3> QED BY <1>2, <2>2, <2>3, <3>1, <3>2 DEF TickType
    <2>5. faults' \in Nat /\ faults' <= faults
      BY <1>2, <2>cost DEF Fault
    <2>6. ~troubled => faults = 0
      BY DEF KeeperInv, TicksConfirm
    <2>7. CASE ~plan.report
      <3>1. Go(t, "rewards")
        BY <2>go, <2>7
      <3>2. /\ tick' \in TickType /\ tick'.at = "rewards" /\ tick'.read.now = tick.read.now
            /\ tick'.failed = ~plan.usable
        BY <1>2, <2>4, <3>1, GoFacts
      <3>3. ASSUME ~troubled, plan.usable PROVE Confirmed(tick.read.now)
        <4>1. (tick.read.now - tick.read.at) * 2 < ReportMaxAge
          BY <2>2, <2>7, <3>3
        <4> QED BY <1>4, <3>3, <4>1 DEF Confirmed
      <3> QED BY <1>1, <1>3, <2>2, <2>5, <3>2, <3>3, TickMovesOn
    <2>8. CASE plan.report
      <3>1. Go(t, "send")
        BY <2>go, <2>8
      <3> HIDE DEF mark
      <3>2. /\ tick' \in TickType /\ tick'.at = "send" /\ tick'.read.now = tick.read.now
            /\ tick'.mark = mark
        BY <1>2, <2>4, <3>1, GoFacts
      <3>3. /\ book # NoBook /\ tick.read.now <= book.asOf + MaxBookAge
            /\ plan.loss \/ tick.read.deployed + plan.pnl <= book.equity
        BY <2>2, <2>8
      <3>4. book = [equity |-> view.equity, asOf |-> IF source = "socket" THEN now ELSE view.at]
        BY <2>in, <3>3
      <3>5. KeeperTypes'
        BY <1>1, <2>5, <3>2 DEF KeeperInv, KeeperTypes, perpFrame
      <3>6. ReadsInTime'
        BY <1>1, <3>2 DEF KeeperInv, ReadsInTime, perpFrame
      <3>7. UNCHANGED <<perpManagerDeployed, perpReportedPnl, perpReportedAt, now>>
        BY <1>1 DEF perpFrame, perpVars
      <3>8. Holds(mark)
        <4> SUFFICES ASSUME mark.clean PROVE mark.loss \/ perpManagerDeployed + mark.pnl <= held
          BY DEF Holds
        <4>1. view.equity = held /\ tick.read.deployed = perpManagerDeployed
          BY <1>1 DEF mark, KeeperInv, MarksAreTrue
        <4> QED BY <3>3, <3>4, <4>1 DEF mark
      <3>9. MarksAreTrue'
        BY <1>1, <3>2, <3>7, <3>8 DEF KeeperInv, MarksAreTrue, Holds
      <3>10. TicksConfirm'
        <4>1. ~troubled => faults' = 0
          BY <2>5, <2>6, <1>2
        <4> QED BY <1>1, <3>2, <3>7, <4>1 DEF KeeperInv, TicksConfirm, Confirmed, Marked
      <3>11. MarksAreOfRecentBooks'
        <4>1. source = "feed" => tick'.read.now <= tick'.mark.basis + MaxBookAge
          BY <3>2, <3>3, <3>4 DEF mark
        <4> QED BY <1>1, <3>2, <3>7, <4>1 DEF KeeperInv, MarksAreOfRecentBooks, Marked
      <3> QED BY <3>5, <3>6, <3>9, <3>10, <3>11 DEF KeeperParts
    <2> QED BY <2>7, <2>8
  <1>7. CASE tick.read.deployed = 0
    BY <1>5, <1>7 DEF PlanMark
  <1> QED BY <1>6, <1>7

LEMMA SendMarkIsSafe == ASSUME KeeperInv, SendMark PROVE KeeperParts'
  <1>1. /\ tick.at = "send"
        /\ UNCHANGED <<perpFrame, watched, source, held, view, marked, seenAt, troubled>>
    BY DEF SendMark, vars, perpFrame, marketVars
  <1>2. /\ tick \in TickType /\ watched \subseteq Validators /\ faults \in Nat
        /\ tick.mark \in MarkType /\ mempool \in Seq(MarkType)
        /\ "rewards" \in Stages /\ "confirm" \in Stages
    BY DEF KeeperInv, KeeperTypes, TickType, Stages
  <1>3. ~troubled => Confirmed(seenAt) /\ faults = 0 /\ Len(mempool) = 0
    BY <1>1 DEF KeeperInv, TicksConfirm
  <1>4. CASE /\ InBand(tick.mark.pnl) /\ mempool' = Append(mempool, tick.mark)
             /\ Go(tick, "confirm") /\ UNCHANGED faults
    <2>1. /\ mempool' \in Seq(MarkType) /\ Len(mempool') = Len(mempool) + 1 /\ Len(mempool) \in Nat
          /\ DOMAIN mempool' = 1 .. Len(mempool')
          /\ \A i \in DOMAIN mempool' : \/ i \in DOMAIN mempool /\ mempool'[i] = mempool[i]
                                        \/ i = Len(mempool) + 1 /\ mempool'[i] = tick.mark
      BY <1>2, <1>4, AppendProperties, LenProperties
    <2>2. /\ tick' \in TickType /\ tick'.at = "confirm" /\ tick'.read.now = tick.read.now
      BY <1>2, <1>4, GoFacts
    <2>3. UNCHANGED <<perpManagerDeployed, perpReportedPnl, perpReportedAt, now>>
      BY <1>1 DEF perpFrame, perpVars
    <2>4. KeeperTypes'
      BY <1>1, <1>4, <2>1, <2>2 DEF KeeperInv, KeeperTypes
    <2>5. ReadsInTime'
      BY <1>1, <2>2, <2>3 DEF KeeperInv, ReadsInTime
    <2>6. MarksAreTrue'
      <3>1. \A i \in DOMAIN mempool' : Holds(mempool'[i])
        BY <1>1, <2>1 DEF KeeperInv, MarksAreTrue
      <3> QED BY <1>1, <2>2, <2>3, <3>1 DEF KeeperInv, MarksAreTrue, Holds
    <2>7. TicksConfirm'
      BY <1>1, <1>3, <1>4, <2>1, <2>2, <2>3 DEF KeeperInv, TicksConfirm, Confirmed, Marked
    <2>8. MarksAreOfRecentBooks'
      <3>1. ASSUME ~troubled, source = "feed", NEW i \in DOMAIN mempool'
            PROVE  tick'.read.now <= mempool'[i].basis + MaxBookAge
        <4>1. i \notin DOMAIN mempool
          BY <1>2, <1>3, <3>1, LenProperties
        <4>2. mempool'[i] = tick.mark
          BY <2>1, <4>1
        <4> QED BY <1>1, <2>2, <3>1, <4>2 DEF KeeperInv, MarksAreOfRecentBooks
      <3> QED BY <1>1, <2>2, <2>3, <3>1 DEF KeeperInv, MarksAreOfRecentBooks, Marked
    <2> QED BY <2>4, <2>5, <2>6, <2>7, <2>8 DEF KeeperParts
  <1>5. CASE /\ faults' \in {faults, faults - 1} /\ (faults' # faults => faults > 0)
             /\ Go([tick EXCEPT !.failed = TRUE], "rewards") /\ UNCHANGED mempool
    <2>1. [tick EXCEPT !.failed = TRUE] \in TickType /\ [tick EXCEPT !.failed = TRUE].failed = TRUE
          /\ [tick EXCEPT !.failed = TRUE].read.now = tick.read.now
      BY <1>2 DEF TickType
    <2>2. /\ tick' \in TickType /\ tick'.at = "rewards" /\ tick'.read.now = tick.read.now
          /\ tick'.failed = TRUE
      BY <1>2, <1>5, <2>1, GoFacts
    <2>3. faults' \in Nat /\ faults' <= faults
      BY <1>2, <1>5
    <2> QED BY <1>1, <1>3, <1>5, <2>2, <2>3, TickMovesOn
  <1>6. \/ /\ InBand(tick.mark.pnl) /\ mempool' = Append(mempool, tick.mark)
           /\ Go(tick, "confirm") /\ UNCHANGED faults
        \/ /\ faults' \in {faults, faults - 1} /\ (faults' # faults => faults > 0)
           /\ Go([tick EXCEPT !.failed = TRUE], "rewards") /\ UNCHANGED mempool
    <2> HIDE DEF InBand
    <2> QED BY DEF SendMark, Fault
  <1> QED BY <1>4, <1>5, <1>6

(* Steps that only take the tick on: timeouts, claims, a restart.          *)
LEMMA TickStepsAreSafe ==
    ASSUME KeeperInv, ReadFails \/ ConfirmTimesOut \/ ClaimRewards \/ ClaimUnbonded \/ Restart
    PROVE  KeeperParts'
  <1>1. /\ tick \in TickType /\ watched \subseteq Validators /\ faults \in Nat
        /\ tick.left \subseteq Validators /\ tick.slots \subseteq Validators \X Slots
        /\ "unbonded" \in Stages
    BY DEF KeeperInv, KeeperTypes, TickType, Stages
  <1>2. ~troubled => Confirmed(seenAt) /\ faults = 0
    BY DEF KeeperInv, TicksConfirm
  <1>3. ~troubled /\ tick.at \in {"rewards", "unbonded"} /\ ~tick.failed => Confirmed(tick.read.now)
    BY DEF KeeperInv, TicksConfirm
  <1>4. CASE ReadFails
    <2>1. /\ tick.at = "idle" /\ UNCHANGED <<perpFrame, watched, source, held, view, mempool, marked, troubled>>
          /\ tick' = tick /\ seenAt' = seenAt /\ faults' \in Nat /\ faults' <= faults
      BY <1>1, <1>4 DEF ReadFails, Fault, vars, perpFrame, marketVars
    <2> QED BY <1>1, <1>2, <2>1, TickMovesOn
  <1>5. CASE ConfirmTimesOut
    <2>1. /\ UNCHANGED <<perpFrame, watched, source, held, view, mempool, marked, troubled>>
          /\ tick.at = "confirm" /\ tick' = [tick EXCEPT !.at = "rewards", !.failed = TRUE]
          /\ seenAt' = seenAt /\ faults' \in Nat /\ faults' <= faults /\ faults > 0
      BY <1>1, <1>5 DEF ConfirmTimesOut, Fault, vars, perpFrame, marketVars
    <2>2. tick' \in TickType /\ tick'.at = "rewards" /\ tick'.read.now = tick.read.now
      BY <1>1, <2>1 DEF TickType, Stages
    <2>3. troubled
      BY <1>2, <2>1
    <2> QED BY <2>1, <2>2, <2>3, TickMovesOn
  <1>6. CASE Restart
    <2>1. /\ UNCHANGED <<perpFrame, watched, source, held, view, mempool, marked, troubled>>
          /\ tick.at # "idle" /\ tick' = Resting
          /\ seenAt' = seenAt /\ faults' \in Nat /\ faults' <= faults /\ faults > 0
      BY <1>1, <1>6 DEF Restart, Fault, vars, perpFrame, marketVars
    <2>2. tick' \in TickType /\ tick'.at = "idle"
      BY <2>1, RestingTick
    <2>3. troubled
      BY <1>2, <2>1
    <2> QED BY <2>1, <2>2, <2>3, TickMovesOn
  <1>7. CASE ClaimRewards
    <2>1. /\ UNCHANGED <<watched, source, held, view, mempool, marked, troubled, seenAt>>
          /\ tick.at = "rewards" /\ faults' \in Nat /\ faults' <= faults
          /\ \/ Go(tick, "unbonded")
             \/ \E v \in tick.left : tick' = [tick EXCEPT !.left = @ \ {v}]
      BY <1>1, <1>7 DEF ClaimRewards, Fault
    <2>2. UNCHANGED perpFrame
      BY <1>7 DEF ClaimRewards, ClaimStakingRewards, vars, perpFrame, marketVars
    <2>3. /\ tick' \in TickType /\ tick'.at \in {"rewards", "unbonded"}
          /\ tick'.read.now = tick.read.now /\ tick'.failed = tick.failed
      <3>1. CASE Go(tick, "unbonded")
        BY <1>1, <3>1, GoFacts
      <3>2. CASE \E v \in tick.left : tick' = [tick EXCEPT !.left = @ \ {v}]
        BY <1>1, <2>1, <3>2 DEF TickType
      <3> QED BY <2>1, <3>1, <3>2
    <2> QED BY <1>2, <1>3, <2>1, <2>2, <2>3, TickMovesOn
  <1>8. CASE ClaimUnbonded
    <2>1. /\ UNCHANGED <<watched, source, held, view, mempool, marked, troubled>>
          /\ tick.at = "unbonded" /\ faults' \in Nat /\ faults' <= faults
      <3>1. UNCHANGED faults \/ Fault
        BY <1>8, Zenon DEF ClaimUnbonded
      <3>2. UNCHANGED <<watched, source, held, view, mempool, marked, troubled>> /\ tick.at = "unbonded"
        BY <1>8, Zenon DEF ClaimUnbonded
      <3> QED BY <1>1, <3>1, <3>2 DEF Fault
    <2>2. UNCHANGED perpFrame
      <3>1. UNCHANGED vars \/ \E p \in tick.slots : ClaimUnstaked(p[1], p[2])
        BY <1>8 DEF ClaimUnbonded
      <3> QED BY <3>1 DEF ClaimUnstaked, vars, perpFrame, marketVars
    <2>3. \/ Ended(tick)
          \/ /\ UNCHANGED seenAt
             /\ \E left \in SUBSET Validators, slots \in SUBSET (Validators \X Slots) :
                   tick' = [tick EXCEPT !.left = left, !.slots = slots]
      <3>1. CASE \E v \in tick.left :
                tick' = [tick EXCEPT !.left = @ \ {v},
                                     !.slots = {<<v, i>> : i \in {j \in Slots : pendingUnstake[v][j] # 0}}]
        <4>1. PICK v \in tick.left :
                tick' = [tick EXCEPT !.left = @ \ {v},
                                     !.slots = {<<v, i>> : i \in {j \in Slots : pendingUnstake[v][j] # 0}}]
          BY <3>1
        <4>2. /\ tick.left \ {v} \in SUBSET Validators
              /\ {<<v, i>> : i \in {j \in Slots : pendingUnstake[v][j] # 0}} \in SUBSET (Validators \X Slots)
          BY <1>1
        <4>3. UNCHANGED seenAt \/ Ended(tick)
          BY <1>8 DEF ClaimUnbonded
        <4> QED BY <4>1, <4>2, <4>3
      <3>2. CASE \E p \in tick.slots : tick' = [tick EXCEPT !.slots = @ \ {p}]
        <4>1. PICK p \in tick.slots : tick' = [tick EXCEPT !.slots = @ \ {p}]
          BY <3>2
        <4>2. tick' = [tick EXCEPT !.left = tick.left, !.slots = tick.slots \ {p}]
          BY <1>1, <4>1 DEF TickType
        <4>3. tick.left \in SUBSET Validators /\ tick.slots \ {p} \in SUBSET (Validators \X Slots)
          BY <1>1
        <4>4. UNCHANGED seenAt \/ Ended(tick)
          BY <1>8 DEF ClaimUnbonded
        <4> QED BY <4>2, <4>3, <4>4
      <3> QED BY <1>8, <3>1, <3>2 DEF ClaimUnbonded, Unready
    <2>4. CASE Ended(tick)
      <3>1. tick' = Resting /\ seenAt' = (IF tick.failed THEN seenAt ELSE tick.read.now)
        BY <2>4 DEF Ended
      <3>2. tick' \in TickType /\ tick'.at = "idle"
        BY <3>1, RestingTick
      <3>3. ~troubled => Confirmed(seenAt')
        BY <1>2, <1>3, <2>1, <3>1
      <3>4. seenAt' = seenAt \/ (tick.at # "idle" /\ seenAt' = tick.read.now)
        BY <2>1, <3>1
      <3> QED BY <2>1, <2>2, <3>2, <3>3, <3>4, TickMovesOn
    <2>5. CASE /\ UNCHANGED seenAt
               /\ \E left \in SUBSET Validators, slots \in SUBSET (Validators \X Slots) :
                     tick' = [tick EXCEPT !.left = left, !.slots = slots]
      <3>1. /\ tick' \in TickType /\ tick'.at = "unbonded" /\ tick'.read.now = tick.read.now
            /\ tick'.failed = tick.failed
        BY <1>1, <2>1, <2>5 DEF TickType
      <3> QED BY <1>2, <1>3, <2>1, <2>2, <2>5, <3>1, TickMovesOn
    <2> QED BY <2>3, <2>4, <2>5
  <1> QED BY <1>4, <1>5, <1>6, <1>7, <1>8

-----------------------------------------------------------------------------
(***************************************************************************)
(* The report that is mined                                                *)
(***************************************************************************)
LEMMA MinedIsSafe == ASSUME KeeperInv, Mined PROVE KeeperParts'
  <1>tx. PICK tx \in MarkType : tx = mempool[1]
    BY MinedFacts
  <1>out. PICK refused \in BOOLEAN : refused = ~InBand(tx.pnl)
    OBVIOUS
  <1>1. /\ mempool[1] = tx /\ 1 \in DOMAIN mempool
        /\ mempool' \in Seq(MarkType)
        /\ Len(mempool) \in Nat /\ Len(mempool') = Len(mempool) - 1
        /\ \A i \in DOMAIN mempool' : i + 1 \in DOMAIN mempool /\ mempool'[i] = mempool[i + 1]
        /\ UNCHANGED <<watched, source, held, view, seenAt, troubled, faults>>
    BY <1>tx, MinedFacts
  <1>2. \/ /\ tick.at = "confirm" /\ Len(mempool) = 1
           /\ tick' = [tick EXCEPT !.at = "rewards", !.failed = @ \/ refused]
        \/ ~(tick.at = "confirm" /\ Len(mempool) = 1) /\ tick' = tick
    <2> HIDE DEF InBand
    <2> QED BY <1>tx, <1>out, MinedFacts
  <1>3. \/ ~refused /\ ReportPerpPnl(FALSE, tx.pnl) /\ marked' = [tx EXCEPT !.pnl = 0]
        \/ refused /\ UNCHANGED <<vars, marked>>
    <2> HIDE DEF InBand
    <2> QED BY <1>tx, <1>out, MinedFacts
  <1>4. UNCHANGED <<perpManagerDeployed, now>>
    <2>1. CASE ReportPerpPnl(FALSE, tx.pnl)
      BY <2>1 DEF ReportPerpPnl, marketVars
    <2>2. CASE UNCHANGED vars
      BY <2>2 DEF vars, perpVars, marketVars
    <2> QED BY <1>3, <2>1, <2>2
  <1>5. /\ tick' \in TickType /\ tick'.read = tick.read /\ tick'.mark = tick.mark
        /\ tick' = tick \/ (tick.at = "confirm" /\ tick'.at = "rewards")
    <2>2. (tick.failed \/ refused) \in BOOLEAN /\ "rewards" \in Stages /\ tick \in TickType
      BY KeeperNumbers DEF TickType, Stages
    <2>3. CASE tick' = tick
      <3>1. tick \in TickType
        BY KeeperNumbers
      <3> QED BY <2>3, <3>1, Zenon
    <2>4. CASE tick.at = "confirm" /\ tick' = [tick EXCEPT !.at = "rewards", !.failed = tick.failed \/ refused]
      BY <2>2, <2>4 DEF TickType
    <2> QED BY <1>2, <2>3, <2>4
  <1>6. marked' \in MarkType
    <2>1. [tx EXCEPT !.pnl = 0] \in MarkType
      BY <1>tx DEF MarkType
    <2> QED BY <1>3, <2>1 DEF KeeperInv, KeeperTypes
  <1>7. KeeperTypes'
    BY <1>1, <1>5, <1>6 DEF KeeperInv, KeeperTypes
  <1>8. ReadsInTime'
    BY <1>1, <1>4, <1>5 DEF KeeperInv, ReadsInTime
  <1>9. MarksAreTrue'
    <2>1. perpManagerDeployed > 0 => Holds([marked EXCEPT !.pnl = perpReportedPnl])'
      <3>1. CASE ReportPerpPnl(FALSE, tx.pnl) /\ marked' = [tx EXCEPT !.pnl = 0]
        <4>1. perpReportedPnl' = tx.pnl
          BY <3>1 DEF ReportPerpPnl
        <4>2. [marked' EXCEPT !.pnl = perpReportedPnl'] = tx
            BY <1>tx, <3>1, <4>1 DEF MarkType
        <4>3. Holds(tx)
          BY <1>1 DEF KeeperInv, MarksAreTrue
        <4> QED BY <1>1, <1>4, <4>2, <4>3 DEF Holds
      <3>2. CASE UNCHANGED <<vars, marked>>
        <4>1. perpReportedPnl' = perpReportedPnl
          BY <3>2 DEF vars, perpVars
        <4> QED BY <1>1, <1>4, <3>2, <4>1 DEF KeeperInv, MarksAreTrue, Holds
      <3> QED BY <1>3, <3>1, <3>2
    <2>2. \A i \in DOMAIN mempool' : Holds(mempool'[i])
      BY <1>1 DEF KeeperInv, MarksAreTrue
    <2> QED BY <1>1, <1>4, <1>5, <2>1, <2>2 DEF KeeperInv, MarksAreTrue, Holds
  <1>10. ASSUME ~troubled
         PROVE  /\ tick.at = "confirm" /\ Len(mempool) = 1 /\ tick'.at = "rewards" /\ Len(mempool') = 0
                /\ tick'.failed = (tick.failed \/ refused)
                /\ seenAt <= tick.read.now /\ tick.read.now <= now /\ now <= seenAt + TickGap
                /\ faults = 0 /\ Confirmed(seenAt)
    <2>1. Len(mempool) = (IF tick.at = "confirm" THEN 1 ELSE 0) /\ now <= seenAt + TickGap
          /\ faults = 0 /\ Confirmed(seenAt)
      BY <1>10 DEF KeeperInv, TicksConfirm
    <2>2. Len(mempool) # 0
      BY <1>1, LenProperties DEF KeeperInv, KeeperTypes
    <2>3. tick.at = "confirm" /\ Len(mempool) = 1
      BY <2>1, <2>2
    <2>4. seenAt <= tick.read.now /\ tick.read.now <= now
      BY <2>3 DEF KeeperInv, ReadsInTime
    <2>5. tick'.at = "rewards" /\ tick'.failed = (tick.failed \/ refused)
      BY <1>2, <2>3, KeeperNumbers DEF TickType
    <2> QED BY <1>1, <2>1, <2>3, <2>4, <2>5
  <1>20. ASSUME ~troubled
         PROVE  seenAt <= tick.read.now /\ tick.read.now <= now /\ now <= seenAt + TickGap
    BY <1>10, <1>20
  <1>11. CASE ~refused /\ ReportPerpPnl(FALSE, tx.pnl) /\ marked' = [tx EXCEPT !.pnl = 0]
    <2>1. perpReportedAt' = now
      BY <1>11 DEF ReportPerpPnl
    <2>2. TicksConfirm'
      <3>1. ~troubled => Confirmed(seenAt)' /\ Confirmed(tick.read.now)'
        <4>1. tick'.read.now = tick.read.now /\ seenAt' = seenAt
          BY <1>1, <1>5
        <4> QED BY <1>20, <2>1, <4>1, KeeperNumbers DEF Confirmed
      <3>2. ~troubled => /\ faults' = 0 /\ now' <= seenAt' + TickGap
                         /\ Len(mempool') = 0 /\ tick'.at = "rewards"
        <4>1. faults' = faults /\ now' = now /\ seenAt' = seenAt
          BY <1>1, <1>4
        <4> QED BY <1>10, <1>20, <4>1
      <3>3. troubled' = troubled
        BY <1>1
      <3> QED BY <3>1, <3>2, <3>3 DEF TicksConfirm
    <2>3. MarksAreOfRecentBooks'
      <3>1. marked'.basis = tx.basis /\ tx.basis \in Nat
        BY <1>11 DEF MarkType
      <3>2. ~troubled /\ source = "feed" => tick.read.now <= tx.basis + MaxBookAge
        BY <1>1, <1>10 DEF KeeperInv, MarksAreOfRecentBooks
      <3>3. ~troubled /\ source = "feed" => perpReportedAt' <= marked'.basis + MaxBookAge + TickGap
        BY <1>20, <2>1, <3>1, <3>2, KeeperNumbers, Bounds
      <3> QED BY <1>1, <1>10, <3>3 DEF MarksAreOfRecentBooks
    <2> QED BY <1>7, <1>8, <1>9, <2>2, <2>3 DEF KeeperParts
  <1>12. CASE refused /\ UNCHANGED <<vars, marked>>
    <2>1. UNCHANGED <<perpManagerDeployed, perpReportedAt, marked>>
      BY <1>12 DEF vars, perpVars
    <2>2. TicksConfirm'
      <3>1. ~troubled => Confirmed(seenAt)' /\ tick'.failed = TRUE
        BY <1>1, <1>10, <1>12, <2>1 DEF Confirmed, Marked
      <3> QED BY <1>1, <1>4, <1>10, <3>1 DEF TicksConfirm
    <2>3. MarksAreOfRecentBooks'
      BY <1>1, <1>10, <2>1 DEF KeeperInv, MarksAreOfRecentBooks, Marked
    <2> QED BY <1>7, <1>8, <1>9, <2>2, <2>3 DEF KeeperParts
  <1> QED BY <1>3, <1>11, <1>12

-----------------------------------------------------------------------------
(***************************************************************************)
(* The market and the managers                                             *)
(***************************************************************************)
LEMMA DisturbedFacts ==
    ASSUME KeeperInv, Disturbed
    PROVE  /\ tick' \in TickType /\ tick'.at = tick.at /\ tick'.read = tick.read
           /\ tick'.failed = tick.failed /\ tick'.mark.basis = tick.mark.basis
           /\ tick.at \in {"mark", "send"} => ~tick'.mark.clean
           /\ view' \in ViewType /\ ~view'.clean
           /\ mempool' \in Seq(MarkType) /\ Len(mempool') = Len(mempool)
           /\ DOMAIN mempool' = DOMAIN mempool
           /\ \A i \in DOMAIN mempool : ~mempool'[i].clean /\ mempool'[i].basis = mempool[i].basis
  <1>1. tick \in TickType /\ view \in ViewType /\ mempool \in Seq(MarkType)
    BY DEF KeeperInv, KeeperTypes
  <1>2. /\ tick' \in TickType /\ tick'.at = tick.at /\ tick'.read = tick.read
        /\ tick'.failed = tick.failed /\ tick'.mark.basis = tick.mark.basis
        /\ tick.at \in {"mark", "send"} => ~tick'.mark.clean
    <2>1. CASE tick.at \in {"mark", "send"}
      <3>1. tick' = [tick EXCEPT !.mark = [tick.mark EXCEPT !.clean = FALSE]]
        BY <1>1, <2>1 DEF Disturbed, TickType, MarkType
      <3>2. tick.mark \in MarkType /\ [tick.mark EXCEPT !.clean = FALSE] \in MarkType
        BY <1>1 DEF TickType, MarkType
      <3>3. [tick.mark EXCEPT !.clean = FALSE].clean = FALSE
            /\ [tick.mark EXCEPT !.clean = FALSE].basis = tick.mark.basis
        BY <3>2 DEF MarkType
      <3>4. /\ tick' \in TickType /\ tick'.at = tick.at /\ tick'.read = tick.read
            /\ tick'.failed = tick.failed /\ tick'.mark = [tick.mark EXCEPT !.clean = FALSE]
        BY <1>1, <3>1, <3>2 DEF TickType
      <3> QED BY <3>3, <3>4
    <2>2. CASE tick.at \notin {"mark", "send"}
      BY <1>1, <2>2 DEF Disturbed
    <2> QED BY <2>1, <2>2
  <1>3. view' \in ViewType /\ ~view'.clean
    BY <1>1 DEF Disturbed, ViewType
  <1>4. /\ Len(mempool) \in Nat /\ DOMAIN mempool = 1 .. Len(mempool)
        /\ \A i \in DOMAIN mempool : mempool[i] \in MarkType
    BY <1>1, LenProperties, ElementOfSeq
  <1>5. \A i \in DOMAIN mempool : [mempool[i] EXCEPT !.clean = FALSE] \in MarkType
    BY <1>4 DEF MarkType
  <1>6. /\ DOMAIN mempool' = DOMAIN mempool
        /\ \A i \in DOMAIN mempool : mempool'[i] = [mempool[i] EXCEPT !.clean = FALSE]
        /\ mempool' \in [DOMAIN mempool -> MarkType]
    BY <1>5 DEF Disturbed
  <1>7. mempool' \in Seq(MarkType) /\ Len(mempool') = Len(mempool)
    <2>1. mempool' \in Seq(MarkType)
      BY <1>4, <1>6, SeqDef
    <2>2. DOMAIN mempool' = 1 .. Len(mempool') /\ Len(mempool') \in Nat
      BY <2>1, LenProperties
    <2> QED BY <1>4, <1>6, <2>1, <2>2
  <1>8. \A i \in DOMAIN mempool : ~mempool'[i].clean /\ mempool'[i].basis = mempool[i].basis
    BY <1>4, <1>6 DEF MarkType
  <1> QED BY <1>2, <1>3, <1>6, <1>7, <1>8, Zenon

(* Money moves, or the market does: whatever was read of the book before   *)
(* is overtaken, and the mark in force is either as old as it was or that  *)
(* of a book which opens now.                                              *)
LEMMA BookMovesIsSafe ==
    ASSUME KeeperInv, Disturbed,
           UNCHANGED <<now, watched, source, seenAt, troubled, faults>>,
           held' \in Nat, marked' \in MarkType,
           Marked' => \/ perpReportedAt' = now /\ (source = "feed" => marked'.basis = now)
                      \/ Marked /\ perpReportedAt' = perpReportedAt /\ marked'.basis = marked.basis,
           (perpManagerDeployed > 0 => Holds([marked EXCEPT !.pnl = perpReportedPnl]))'
    PROVE  KeeperParts'
  <1>1. /\ tick' \in TickType /\ tick'.at = tick.at /\ tick'.read = tick.read
        /\ tick'.failed = tick.failed /\ tick'.mark.basis = tick.mark.basis
        /\ tick.at \in {"mark", "send"} => ~tick'.mark.clean
        /\ view' \in ViewType /\ ~view'.clean
        /\ mempool' \in Seq(MarkType) /\ Len(mempool') = Len(mempool)
        /\ DOMAIN mempool' = DOMAIN mempool
        /\ \A i \in DOMAIN mempool : ~mempool'[i].clean /\ mempool'[i].basis = mempool[i].basis
    BY DisturbedFacts
  <1>2. KeeperTypes'
    BY <1>1 DEF KeeperInv, KeeperTypes
  <1>3. ReadsInTime'
    BY <1>1 DEF KeeperInv, ReadsInTime
  <1>4. MarksAreTrue'
    <2>1. \A i \in DOMAIN mempool' : Holds(mempool[i])'
      BY <1>1 DEF Holds
    <2>2. tick'.at = "send" => Holds(tick.mark)'
      BY <1>1 DEF Holds
    <2> HIDE DEF Holds
    <2> QED BY <1>1, <2>1, <2>2 DEF MarksAreTrue
  <1>5. seenAt <= now /\ (tick.at # "idle" => tick.read.now <= now)
    BY DEF KeeperInv, ReadsInTime
  <1>6. ASSUME ~troubled
        PROVE  /\ faults = 0 /\ now <= seenAt + TickGap
               /\ Len(mempool) = (IF tick.at = "confirm" THEN 1 ELSE 0)
               /\ Confirmed(seenAt)
               /\ tick.at = "mark" /\ Marked =>
                     \/ tick.read.now <= perpReportedAt
                     \/ tick.read.deployed # 0 /\ perpReportedAt = tick.read.at
               /\ tick.at \in {"rewards", "unbonded"} /\ ~tick.failed => Confirmed(tick.read.now)
    BY <1>6 DEF KeeperInv, TicksConfirm
  <1>7. ~troubled => Confirmed(seenAt)'
    <2>1. CASE Marked' /\ perpReportedAt' = now
      BY <1>5, <2>1 DEF Confirmed
    <2>2. CASE Marked' /\ Marked /\ perpReportedAt' = perpReportedAt
      BY <1>6, <2>2 DEF Confirmed
    <2> QED BY <2>1, <2>2 DEF Confirmed
  <1>8. ~troubled /\ tick'.at \in {"rewards", "unbonded"} /\ ~tick'.failed => Confirmed(tick.read.now)'
    <2>1. CASE Marked' /\ perpReportedAt' = now
      BY <1>1, <1>5, <2>1 DEF Confirmed
    <2>2. CASE Marked' /\ Marked /\ perpReportedAt' = perpReportedAt
      BY <1>1, <1>6, <2>2 DEF Confirmed
    <2> QED BY <2>1, <2>2 DEF Confirmed
  <1>9. ~troubled /\ tick'.at = "mark" /\ Marked' =>
           \/ tick'.read.now <= perpReportedAt'
           \/ tick'.read.deployed # 0 /\ perpReportedAt' = tick'.read.at
    <2>1. CASE Marked' /\ perpReportedAt' = now
      BY <1>1, <1>5, <2>1
    <2>2. CASE Marked' /\ Marked /\ perpReportedAt' = perpReportedAt
      BY <1>1, <1>6, <2>2
    <2> QED BY <2>1, <2>2
  <1>10. ~troubled => /\ faults' = 0 /\ now' <= seenAt' + TickGap
                      /\ Len(mempool') = (IF tick'.at = "confirm" THEN 1 ELSE 0)
    BY <1>1, <1>6
  <1>11. TicksConfirm'
    <2> HIDE DEF Confirmed, Marked
    <2> QED BY <1>7, <1>8, <1>9, <1>10 DEF TicksConfirm
  <1>12. MarksAreOfRecentBooks'
    <2>1. ~troubled /\ source = "feed" /\ Marked'
             => perpReportedAt' <= marked'.basis + MaxBookAge + TickGap
      <3>1. CASE Marked' /\ perpReportedAt' = now /\ (source = "feed" => marked'.basis = now)
        BY <3>1, KeeperNumbers, Bounds
      <3>2. CASE Marked' /\ Marked /\ perpReportedAt' = perpReportedAt /\ marked'.basis = marked.basis
        BY <3>2 DEF KeeperInv, MarksAreOfRecentBooks
      <3> QED BY <3>1, <3>2
    <2>2. ~troubled /\ source = "feed" =>
             /\ tick'.at = "send" => tick'.read.now <= tick'.mark.basis + MaxBookAge
             /\ tick'.at = "confirm" => \A i \in DOMAIN mempool' :
                   tick'.read.now <= mempool'[i].basis + MaxBookAge
      BY <1>1 DEF KeeperInv, MarksAreOfRecentBooks
    <2> HIDE DEF Marked
    <2> QED BY <2>1, <2>2 DEF MarksAreOfRecentBooks
  <1> QED BY <1>2, <1>3, <1>4, <1>11, <1>12 DEF KeeperParts

LEMMA MarketMovesIsSafe == ASSUME KeeperInv, MarketMoves PROVE KeeperParts'
  <1>1. /\ Disturbed
        /\ UNCHANGED <<now, watched, source, seenAt, troubled, faults>>
        /\ UNCHANGED <<perpManagerDeployed, perpReportedAt>>
        /\ marked' = [marked EXCEPT !.clean = FALSE]
        /\ held' \in {held - 1, held + 1} \cap 0 .. BookLimit + 1
    BY DEF MarketMoves, vars, perpVars, marketVars
  <1>2. held' \in Nat
    BY <1>1
  <1>3. marked' \in MarkType /\ ~marked'.clean /\ marked'.basis = marked.basis
    BY <1>1 DEF KeeperInv, KeeperTypes, MarkType
  <1>4. Marked' => Marked /\ perpReportedAt' = perpReportedAt /\ marked'.basis = marked.basis
    BY <1>1, <1>3 DEF Marked
  <1>5. Holds([marked EXCEPT !.pnl = perpReportedPnl])'
    <2>1. [marked' EXCEPT !.pnl = perpReportedPnl'].clean = FALSE
      BY <1>3 DEF MarkType
    <2> QED BY <2>1 DEF Holds
  <1> QED BY <1>1, <1>2, <1>3, <1>4, <1>5, BookMovesIsSafe

LEMMA ViewRefreshedIsSafe == ASSUME KeeperInv, ViewRefreshed PROVE KeeperParts'
  <1>1. /\ view' = [equity |-> held, at |-> IF source = "feed" THEN now ELSE 0, clean |-> TRUE]
        /\ UNCHANGED <<perpFrame, tick, watched, source, held, mempool, marked, seenAt, troubled, faults>>
    BY DEF ViewRefreshed, Current, vars, perpFrame, marketVars
  <1>2. view' \in ViewType /\ view'.equity = held
    BY <1>1, KeeperNumbers DEF ViewType
  <1>3. UNCHANGED <<perpManagerDeployed, perpReportedPnl, perpReportedAt, now>>
    BY <1>1 DEF perpFrame, perpVars
  <1>4. KeeperTypes'
    BY <1>1, <1>2 DEF KeeperInv, KeeperTypes
  <1>5. MarksAreTrue'
    BY <1>1, <1>2, <1>3 DEF KeeperInv, MarksAreTrue, Holds
  <1>6. ReadsInTime' /\ TicksConfirm' /\ MarksAreOfRecentBooks'
    BY <1>1, <1>3 DEF KeeperInv, ReadsInTime, TicksConfirm, MarksAreOfRecentBooks, Confirmed, Marked
  <1> QED BY <1>4, <1>5, <1>6 DEF KeeperParts

(* The book and its mark are let alone; time may pass.                     *)
LEMMA UntouchedIsSafe ==
    ASSUME KeeperInv, UNCHANGED keeperVars,
           perpManagerDeployed' = perpManagerDeployed,
           perpManagerDeployed > 0 => UNCHANGED <<perpReportedPnl, perpReportedAt>>,
           now' \in Nat, now <= now', ~troubled => now' <= seenAt + TickGap
    PROVE  KeeperParts'
  <1>1. UNCHANGED <<tick, watched, source, held, view, mempool, marked, seenAt, troubled, faults>>
    BY DEF keeperVars
  <1>2. Marked' => Marked /\ perpReportedAt' = perpReportedAt
    BY KeeperNumbers DEF Marked
  <1>3. KeeperTypes'
    BY <1>1 DEF KeeperInv, KeeperTypes
  <1>4. ReadsInTime'
    BY <1>1, KeeperNumbers DEF KeeperInv, ReadsInTime
  <1>5. MarksAreTrue'
    BY <1>1 DEF KeeperInv, MarksAreTrue, Holds
  <1>6. TicksConfirm'
    BY <1>1, <1>2 DEF KeeperInv, TicksConfirm, Confirmed
  <1>7. MarksAreOfRecentBooks'
    BY <1>1, <1>2 DEF KeeperInv, MarksAreOfRecentBooks
  <1> QED BY <1>3, <1>4, <1>5, <1>6, <1>7 DEF KeeperParts

LEMMA VaultMovesIsSafe == ASSUME KeeperInv, VaultMoves PROVE KeeperParts'
  <1>1. UNCHANGED keeperVars
    BY DEF VaultMoves
  <1>2. UNCHANGED perpFrame
    <2>1. ShareNext \/ SwapNext \/ StakeNext \/ \E p \in Prices, live \in FeedStates : OracleMoves(p, live)
      BY DEF VaultMoves
    <2>2. CASE \E p \in Prices, live \in FeedStates : OracleMoves(p, live)
      BY <2>2 DEF OracleMoves, perpFrame
    <2> QED BY <2>1, <2>2, OthersLeaveThePerpBook
  <1>3. ~troubled => now <= seenAt + TickGap
    BY DEF KeeperInv, TicksConfirm
  <1> QED BY <1>1, <1>2, <1>3, UntouchedIsSafe, KeeperNumbers DEF perpFrame, perpVars

LEMMA TimePassesIsSafe == ASSUME KeeperInv, TimePasses PROVE KeeperParts'
  <1>1. /\ UNCHANGED keeperVars /\ UNCHANGED perpVars /\ now' = now + 1
        /\ ~troubled => now' <= seenAt + TickGap
    BY DEF TimePasses, Tick
  <1> QED BY <1>1, UntouchedIsSafe, KeeperNumbers DEF perpVars

(* What a payment between the vault and a manager does to the two sides of *)
(* the book: what is held and what is counted move by the same amount.     *)
PaidOut(paid) ==
    /\ held' = held + paid
    /\ perpManagerDeployed' > 0 =>
          \/ /\ perpManagerDeployed = 0 /\ perpManagerDeployed' = paid
             /\ perpReportedPnl' = 0 /\ perpReportedAt' = now
          \/ /\ perpManagerDeployed > 0
             /\ perpManagerDeployed' + perpReportedPnl'
                  = perpManagerDeployed + perpReportedPnl + paid
             /\ perpReportedAt' \in {perpReportedAt, 0}
    /\ paid = 0 =>
          /\ perpManagerDeployed' = perpManagerDeployed
          /\ perpManagerDeployed > 0 => UNCHANGED <<perpReportedPnl, perpReportedAt>>

LEMMA ManagersPay == ASSUME KeeperInv, ManagersMove PROVE \E paid \in Int : PaidOut(paid)
  <1>1. PICK m \in Managers :
           \/ ControlPerpManagers(m, TRUE)
           \/ \E t \in PerpTokens, a \in PerpAmounts :
                 SendFundPerpManager(m, t, a) \/ PerpManagerDeposit(m, t, a)
    BY DEF ManagersMove
  <1>2. held' = held + (usdc + ausd) - (usdc' + ausd')
    BY DEF ManagersMove
  <1>3. /\ usdc \in Nat /\ ausd \in Nat /\ perpManagerOutstanding[m] \in Nat
        /\ perpManagerDeployed \in Nat /\ perpReportedPnl \in Int /\ perpReportedAt \in Nat
        /\ held \in Nat
    BY KeeperNumbers DEF KeeperInv, TypeInv, BooksTypeOK, MarkInv, PerpTypeOK
  <1>4. CASE ControlPerpManagers(m, TRUE)
    <2>1. UNCHANGED <<usdc, ausd, perpManagerDeployed, perpReportedPnl, perpReportedAt>>
      BY <1>4 DEF ControlPerpManagers
    <2>2. PaidOut(0)
      BY <1>2, <1>3, <2>1 DEF PaidOut
    <2> QED BY <2>2
  <1>5. ASSUME NEW t \in PerpTokens, NEW a \in PerpAmounts, SendFundPerpManager(m, t, a)
        PROVE  \E paid \in Int : PaidOut(paid)
    <2>1. a \in Nat
      BY Bounds
    <2>2. usdc' + ausd' = usdc + ausd - a
      <3>1. CASE t = "usdc"
        BY <1>3, <1>5, <2>1, <3>1 DEF SendFundPerpManager
      <3>2. CASE t # "usdc"
        BY <1>3, <1>5, <2>1, <3>2 DEF SendFundPerpManager
      <3> QED BY <3>1, <3>2
    <2>3. OpenBook /\ perpManagerDeployed' = perpManagerDeployed + a
      BY <1>5 DEF SendFundPerpManager
    <2>4. held' = held + a
      <3>1. PICK u \in Int : u = usdc' + ausd'
        BY <1>3, <2>1, <2>2
      <3> QED BY <1>2, <1>3, <2>1, <2>2, <3>1
    <2>5. CASE perpManagerDeployed = 0
      <3>1. perpReportedPnl' = 0 /\ perpReportedAt' = now /\ perpManagerDeployed' = a
        BY <1>3, <2>1, <2>3, <2>5 DEF OpenBook
      <3>2. PaidOut(a)
        BY <2>1, <2>4, <2>5, <3>1 DEF PaidOut
      <3> QED BY <2>1, <3>2
    <2>6. CASE perpManagerDeployed # 0
      <3>1. UNCHANGED <<perpReportedPnl, perpReportedAt>>
        BY <2>3, <2>6 DEF OpenBook
      <3>2. PaidOut(a)
        BY <1>3, <2>1, <2>3, <2>4, <2>6, <3>1 DEF PaidOut
      <3> QED BY <2>1, <3>2
    <2> QED BY <2>5, <2>6
  <1>6. ASSUME NEW t \in PerpTokens, NEW a \in PerpAmounts, PerpManagerDeposit(m, t, a)
        PROVE  \E paid \in Int : PaidOut(paid)
    <2>1. a \in Nat
      BY Bounds
    <2>2. usdc' + ausd' = usdc + ausd + a
      <3>1. CASE t = "usdc"
        BY <1>3, <1>6, <2>1, <3>1 DEF PerpManagerDeposit
      <3>2. CASE t # "usdc"
        BY <1>3, <1>6, <2>1, <3>2 DEF PerpManagerDeposit
      <3> QED BY <3>1, <3>2
    <2>3. PICK credited : credited = creditedTo(a, perpManagerOutstanding[m])
      OBVIOUS
    <2>4. credited \in Nat /\ credited <= a
      BY <1>3, <2>1, <2>3 DEF creditedTo, Smaller
    <2>5. /\ credited <= perpManagerDeployed
          /\ perpManagerDeployed' = perpManagerDeployed - credited
          /\ DockMark(perpManagerDeployed - credited, a - credited)
      BY <1>6, <2>3 DEF PerpManagerDeposit
    <2>6. held' = held + (0 - a)
      <3>1. PICK u \in Int : u = usdc' + ausd'
        BY <1>3, <2>1, <2>2
      <3> QED BY <1>2, <1>3, <2>1, <2>2, <3>1
    <2>7. CASE perpManagerDeployed - credited = 0
      <3>1. perpManagerDeployed' = 0
        BY <2>5, <2>7
      <3>2. a = 0 => perpManagerDeployed = 0
        BY <1>3, <2>1, <2>4, <2>7
      <3>3. PaidOut(0 - a)
        BY <1>3, <2>1, <2>6, <3>1, <3>2 DEF PaidOut
      <3> QED BY <2>1, <3>3
    <2>8. CASE perpManagerDeployed - credited # 0 /\ a - credited > 0
      <3>1. perpReportedPnl' = perpReportedPnl - (a - credited) /\ perpReportedAt' = 0
        BY <2>5, <2>8 DEF DockMark
      <3>2. PaidOut(0 - a)
        BY <1>3, <2>1, <2>4, <2>5, <2>6, <2>8, <3>1 DEF PaidOut
      <3> QED BY <2>1, <3>2
    <2>9. CASE perpManagerDeployed - credited # 0 /\ a - credited = 0
      <3>1. UNCHANGED <<perpReportedPnl, perpReportedAt>>
        BY <2>5, <2>9 DEF DockMark
      <3>2. PaidOut(0 - a)
        BY <1>3, <2>1, <2>4, <2>5, <2>6, <2>9, <3>1 DEF PaidOut
      <3> QED BY <2>1, <3>2
    <2> QED BY <2>1, <2>4, <2>7, <2>8, <2>9
  <1> QED BY <1>1, <1>4, <1>5, <1>6

LEMMA ManagersMoveIsSafe == ASSUME KeeperInv, ManagersMove PROVE KeeperParts'
  <1>1. PICK paid \in Int : PaidOut(paid)
    BY ManagersPay
  <1>2. /\ UNCHANGED <<watched, source, seenAt, troubled, faults>>
        /\ held' >= 0
        /\ IF held' = held THEN UNCHANGED <<tick, view, mempool, movesLeft>> ELSE Disturbed
        /\ UNCHANGED <<alerts, lost>>
    BY DEF ManagersMove
  <1>3. now' = now
    BY DEF ManagersMove, ControlPerpManagers, SendFundPerpManager, PerpManagerDeposit, marketVars
  <1>4. IF perpManagerDeployed = 0 /\ perpManagerDeployed' # 0
        THEN marked' = OpeningMark ELSE marked' = marked
    BY DEF ManagersMove
  <1>5. held' = held + paid /\ held' \in Nat
    BY <1>1, <1>2, KeeperNumbers DEF PaidOut
  <1>6. perpManagerDeployed' \in Nat /\ perpReportedPnl' \in Int
    <2>1. TypeInv'
      BY VaultTypesKept DEF KeeperNext
    <2> QED BY <2>1 DEF TypeInv, MarkInv, PerpTypeOK
  <1>7. CASE held' = held
    <2>1. paid = 0
      BY <1>5, <1>7, KeeperNumbers
    <2>2. /\ perpManagerDeployed' = perpManagerDeployed
          /\ perpManagerDeployed > 0 => UNCHANGED <<perpReportedPnl, perpReportedAt>>
      BY <1>1, <2>1 DEF PaidOut
    <2>3. marked' = marked
      BY <1>4, <2>2
    <2>4. ~troubled => now <= seenAt + TickGap
      BY DEF KeeperInv, TicksConfirm
    <2> QED BY <1>2, <1>3, <1>7, <2>2, <2>3, <2>4, UntouchedIsSafe, KeeperNumbers DEF keeperVars
  <1>8. CASE held' # held
    <2>1. Disturbed
      BY <1>2, <1>8
    <2>2. CASE perpManagerDeployed = 0 /\ perpManagerDeployed' # 0
      <3>1. /\ perpManagerDeployed' = paid /\ perpReportedPnl' = 0 /\ perpReportedAt' = now
        BY <1>1, <1>6, <2>2 DEF PaidOut
      <3>2. marked' = [pnl |-> 0, clean |-> TRUE, loss |-> FALSE,
                       basis |-> IF source = "feed" THEN now ELSE 0]
        BY <1>4, <2>2 DEF OpeningMark, NoMark, Current
      <3>3. marked' \in MarkType /\ (source = "feed" => marked'.basis = now)
        BY <3>2, KeeperNumbers DEF MarkType
      <3>4. perpManagerDeployed' + 0 <= held'
        BY <1>5, <1>6, <3>1, KeeperNumbers
      <3>5. [marked' EXCEPT !.pnl = perpReportedPnl'].pnl = 0
        BY <3>1, <3>2
      <3>6. Holds([marked EXCEPT !.pnl = perpReportedPnl])'
        BY <3>4, <3>5 DEF Holds
      <3> QED BY <1>2, <1>3, <1>5, <2>1, <3>1, <3>3, <3>6, BookMovesIsSafe
    <2>3. CASE ~(perpManagerDeployed = 0 /\ perpManagerDeployed' # 0)
      <3>1. marked' = marked /\ marked \in MarkType
        BY <1>4, <2>3 DEF KeeperInv, KeeperTypes
      <3>2. ASSUME perpManagerDeployed' > 0
            PROVE  /\ perpManagerDeployed > 0 /\ perpReportedAt' \in {perpReportedAt, 0}
                   /\ perpManagerDeployed' + perpReportedPnl'
                        = perpManagerDeployed + perpReportedPnl + paid
        BY <1>1, <1>6, <2>3, <3>2 DEF PaidOut
      <3>3. Marked' => Marked /\ perpReportedAt' = perpReportedAt
        BY <3>2 DEF Marked
      <3>4. (perpManagerDeployed > 0 => Holds([marked EXCEPT !.pnl = perpReportedPnl]))'
        <4> SUFFICES ASSUME perpManagerDeployed' > 0, marked.clean, ~marked.loss
                     PROVE  perpManagerDeployed' + perpReportedPnl' <= held'
          BY <3>1 DEF Holds, MarkType
        <4>1. perpManagerDeployed + perpReportedPnl <= held
          BY <3>1, <3>2 DEF KeeperInv, MarksAreTrue, Holds, MarkType
        <4> QED BY <1>5, <1>6, <3>2, <4>1, KeeperNumbers
      <3> QED BY <1>2, <1>3, <1>5, <2>1, <3>1, <3>3, <3>4, BookMovesIsSafe
    <2> QED BY <2>2, <2>3
  <1> QED BY <1>7, <1>8

-----------------------------------------------------------------------------
(***************************************************************************)
(* The invariant of the keeper                                             *)
(***************************************************************************)
LEMMA KeeperInvInit == KeeperInit => KeeperInv
  <1> SUFFICES ASSUME KeeperInit PROVE KeeperInv
    OBVIOUS
  <1>1. TypeInv
    BY BooksInit, UnbondInvInit, MarkInvInit DEF KeeperInit, TypeInv
  <1>2. perpManagerDeployed = 0 /\ now = 1
    BY DEF KeeperInit, Init
  <1>3. /\ tick = Resting /\ watched \in SUBSET Validators /\ source \in {"socket", "feed"}
        /\ held = 0 /\ mempool = <<>> /\ seenAt = now
        /\ troubled \in BOOLEAN /\ faults = IF troubled THEN Faults ELSE 0
    BY DEF KeeperInit
  <1>4. view = [equity |-> 0, at |-> IF source = "feed" THEN now ELSE 0, clean |-> TRUE]
    BY DEF KeeperInit, Current
  <1>5. marked = [pnl |-> 0, clean |-> TRUE, loss |-> FALSE, basis |-> IF source = "feed" THEN now ELSE 0]
    BY DEF KeeperInit, OpeningMark, NoMark, Current
  <1>6. view \in ViewType /\ marked \in MarkType
    BY <1>2, <1>4, <1>5 DEF ViewType, MarkType
  <1>7. mempool \in Seq(MarkType) /\ Len(mempool) = 0 /\ DOMAIN mempool = {}
    BY <1>3, EmptySeq
  <1>8. faults \in Nat
    BY <1>3, Bounds
  <1>9. KeeperTypes
    BY <1>2, <1>3, <1>6, <1>7, <1>8, RestingTick DEF KeeperTypes
  <1>10. ReadsInTime /\ MarksAreTrue
    BY <1>2, <1>3, <1>4, <1>7, RestingTick DEF ReadsInTime, MarksAreTrue
  <1>11. TicksConfirm /\ MarksAreOfRecentBooks
    BY <1>2, <1>3, <1>7, RestingTick, Bounds
       DEF TicksConfirm, MarksAreOfRecentBooks, Confirmed, Marked
  <1> QED BY <1>1, <1>9, <1>10, <1>11 DEF KeeperInv

LEMMA KeeperInvStep == KeeperInv /\ [KeeperNext]_allVars => KeeperInv'
  <1> SUFFICES ASSUME KeeperInv, [KeeperNext]_allVars PROVE KeeperInv'
    OBVIOUS
  <1>1. TypeInv'
    BY VaultTypesKept
  <1>2. CASE UNCHANGED allVars
    <2>1. UNCHANGED keeperVars /\ UNCHANGED perpVars /\ now' = now
      BY <1>2 DEF allVars, vars, marketVars
    <2>2. ~troubled => now <= seenAt + TickGap
      BY DEF KeeperInv, TicksConfirm
    <2>3. KeeperParts'
      BY <2>1, <2>2, UntouchedIsSafe, KeeperNumbers DEF perpVars
    <2> QED BY <1>1, <2>3 DEF KeeperInv, KeeperParts
  <1>3. CASE KeeperNext
    <2>1. KeeperParts'
      BY <1>3, ReadStateIsSafe, PlanMarkIsSafe, SendMarkIsSafe, TickStepsAreSafe, MinedIsSafe,
         MarketMovesIsSafe, ViewRefreshedIsSafe, ManagersMoveIsSafe, VaultMovesIsSafe,
         TimePassesIsSafe DEF KeeperNext, TickStep
    <2> QED BY <1>1, <2>1 DEF KeeperInv, KeeperParts
  <1> QED BY <1>2, <1>3

(* What was read of the vault and of the book is never younger than the    *)
(* step that uses it, and what is under way to the vault overstates        *)
(* nothing unless something overtook it (keeper.ts 94-356).                *)
THEOREM KeeperInvariant == KeeperSpec => []KeeperInv
  BY KeeperInvInit, KeeperInvStep, PTL DEF KeeperSpec

(* However the managers, the market and the depositors interleave with the *)
(* awaits of a tick: with ticks twice as frequent as a mark lives, and a   *)
(* book that can be read, no mark grows too old (keeperPlan.ts 79-81).     *)
THEOREM MarksDoNotLapse == KeeperSpec => []MarkNeverLapses
  <1>1. ASSUME KeeperInv PROVE MarkNeverLapses
    <2> SUFFICES ASSUME ~troubled, perpReportedAt # 0, perpManagerDeployed # 0
                 PROVE  now <= perpReportedAt + ReportMaxAge
      BY <1>1, KeeperNumbers, Bounds DEF MarkNeverLapses, perpReportIsStale
    <2>1. Confirmed(seenAt) /\ now <= seenAt + TickGap
      BY <1>1 DEF KeeperInv, TicksConfirm
    <2>2. seenAt <= perpReportedAt \/ (seenAt - perpReportedAt) * 2 < ReportMaxAge
      BY <1>1, <2>1, KeeperNumbers DEF Confirmed, Marked
    <2> QED BY <1>1, <2>1, <2>2, KeeperNumbers, Bounds, TicksAreFrequent DEF TicksAreFrequent
  <1> QED BY <1>1, KeeperInvariant, PTL

(* Whatever came between the reading of a book and the mining of the       *)
(* report made of it, the vault counts no more than the managers hold, or  *)
(* the excess is the loss past the band that the admin was told of         *)
(* (keeperPlan.ts 58-67).                                                  *)
THEOREM BookIsNotOvervalued == KeeperSpec => []BookNeverOvervalued
  <1>1. ASSUME KeeperInv PROVE BookNeverOvervalued
    <2> SUFFICES ASSUME marked.clean, perpEquity > held PROVE marked.loss
      BY DEF BookNeverOvervalued
    <2>1. perpManagerDeployed > 0
      BY <1>1, KeeperNumbers DEF perpEquity
    <2>2. PICK pnl \in {0, perpReportedPnl} :
             perpEquity = PosPart(perpManagerDeployed + pnl) /\ pnl <= perpReportedPnl
      <3>1. CASE perpReportIsStale /\ perpReportedPnl > 0
        <4>1. perpEquity = PosPart(perpManagerDeployed + 0)
          BY <2>1, <3>1 DEF perpEquity
        <4> QED BY <1>1, <3>1, <4>1, KeeperNumbers
      <3>2. CASE ~(perpReportIsStale /\ perpReportedPnl > 0)
        <4>1. perpEquity = PosPart(perpManagerDeployed + perpReportedPnl)
          BY <2>1, <3>2 DEF perpEquity
        <4> QED BY <1>1, <4>1, KeeperNumbers
      <3> QED BY <3>1, <3>2
    <2>3. perpManagerDeployed + perpReportedPnl > held
      BY <1>1, <2>2, KeeperNumbers DEF PosPart
    <2>4. marked \in MarkType /\ Holds([marked EXCEPT !.pnl = perpReportedPnl])
      BY <1>1, <2>1 DEF KeeperInv, KeeperTypes, MarksAreTrue
    <2> QED BY <1>1, <2>3, <2>4, KeeperNumbers DEF Holds, MarkType
  <1> QED BY <1>1, KeeperInvariant, PTL

(* Two caches in a row, the feed's and the vault's: a mark that lets       *)
(* deposits in is of a book no older than both limits and one gap between  *)
(* ticks (keeperPlan.ts 57-66, 79-81).                                     *)
THEOREM FreshMarksAreRecent == KeeperSpec => []FreshMarkIsRecent
  <1>1. ASSUME KeeperInv PROVE FreshMarkIsRecent
    <2> SUFFICES ASSUME ~troubled, source = "feed", perpManagerDeployed > 0, ~perpReportIsStale
                 PROVE  now - marked.basis <= ReportMaxAge + MaxBookAge + TickGap
      BY DEF FreshMarkIsRecent
    <2>1. perpReportedAt # 0 /\ now <= perpReportedAt + ReportMaxAge
      BY <1>1, KeeperNumbers, Bounds DEF perpReportIsStale
    <2>2. perpReportedAt <= marked.basis + MaxBookAge + TickGap
      BY <1>1, <2>1 DEF KeeperInv, MarksAreOfRecentBooks, Marked
    <2> QED BY <1>1, <2>1, <2>2, KeeperNumbers, Bounds
  <1> QED BY <1>1, KeeperInvariant, PTL

(* The keeper's claims, retried and skipped as they are, leave every       *)
(* recorded unbond equal to what the precompile will pay (keeper.ts        *)
(* 248-291, DeltaMonVault.sol 511-539).                                    *)
THEOREM KeeperKeepsSlots == KeeperSpec => []SlotsMirrorRequests
  <1>1. KeeperInv => SlotsMirrorRequests
    BY DEF KeeperInv, TypeInv, UnbondInv
  <1> QED BY <1>1, KeeperInvariant, PTL

(* Nor does a claim that races an epoch, a slot that came round again or a *)
(* retried tick ever take an unbond off the record for less than it was.   *)
THEOREM KeeperClaimsInFull == KeeperSpec => UnbondPaidInFull
  <1>1. KeeperInv /\ [KeeperNext]_allVars => [PaidInFull]_vars
    <2> SUFFICES ASSUME KeeperInv, [KeeperNext]_allVars PROVE [PaidInFull]_vars
      OBVIOUS
    <2>1. CASE [Next]_vars
      BY <2>1, StepsPayInFull DEF KeeperInv, TypeInv
    <2>2. CASE Reported
      BY <2>2 DEF Reported, ReportPerpPnl, stakeVars, PaidInFull
    <2> QED BY <2>1, <2>2, VaultTakesAStep
  <1> QED BY <1>1, KeeperInvariant, PTL DEF KeeperSpec, UnbondPaidInFull, PaidInFull
-----------------------------------------------------------------------------
(***************************************************************************)
(* The keeper runs the vault                                               *)
(*                                                                         *)
(* A refinement: the vault of Keeper.tla is the vault of DeltaMonVault.tla *)
(* in which any result may be reported, so that what is proved of that one *)
(* holds of this one.  The two share every definition but Pnls; the lemmas *)
(* say so, from the sums and the arithmetic up to the calls.               *)
(***************************************************************************)
Vault == INSTANCE DeltaMonVaultProofs WITH Pnls <- Int

LEMMA SameSums == \A f, S : SumOver(f, S) = Vault!SumOver(f, S)
  BY DEF SumOver, Vault!SumOver, MapThenSumSet, Vault!MapThenSumSet, MapThenFoldSet,
         Vault!MapThenFoldSet

LEMMA SameArithmetic ==
    /\ \A a, b, c : MulDiv(a, b, c) = Vault!MulDiv(a, b, c)
    /\ \A a, b, c : MulDivUp(a, b, c) = Vault!MulDivUp(a, b, c)
    /\ \A n : PosPart(n) = Vault!PosPart(n)
    /\ \A a, b : Smaller(a, b) = Vault!Smaller(a, b)
  BY DEF MulDiv, Vault!MulDiv, MulDivUp, Vault!MulDivUp, PosPart, Vault!PosPart, Smaller,
         Vault!Smaller

LEMMA SameValues ==
    /\ totalSupply = Vault!totalSupply
    /\ totalMon = Vault!totalMon /\ availableLiquidity = Vault!availableLiquidity
    /\ perpReportIsStale <=> Vault!perpReportIsStale
    /\ totalAssets = Vault!totalAssets
    /\ totalAssets' = Vault!totalAssets'
    /\ (Priced <=> Vault!Priced)
  <1>1. totalSupply = Vault!totalSupply
    BY SameSums DEF totalSupply, Vault!totalSupply, Accounts, Vault!Accounts
  <1>2. totalMon = Vault!totalMon /\ availableLiquidity = Vault!availableLiquidity
    BY SameArithmetic DEF totalMon, Vault!totalMon, availableLiquidity, Vault!availableLiquidity
  <1>3. totalAssets = Vault!totalAssets /\ totalAssets' = Vault!totalAssets'
    BY SameArithmetic DEF totalAssets, Vault!totalAssets, grossAssets, Vault!grossAssets,
           totalMon, Vault!totalMon, perpEquity, Vault!perpEquity, perpReportIsStale,
           Vault!perpReportIsStale
  <1>4. (perpReportIsStale <=> Vault!perpReportIsStale) /\ (Priced <=> Vault!Priced)
    BY DEF perpReportIsStale, Vault!perpReportIsStale, Priced, Vault!Priced, totalMon,
           Vault!totalMon
  <1> QED BY <1>1, <1>2, <1>3, <1>4

LEMMA SameQuotes ==
    /\ \A x : /\ convertToShares(x) = Vault!convertToShares(x)
              /\ convertToAssets(x) = Vault!convertToAssets(x)
              /\ previewMint(x) = Vault!previewMint(x)
              /\ previewWithdraw(x) = Vault!previewWithdraw(x)
    /\ maxDeposit = Vault!maxDeposit
    /\ maxMint = Vault!maxMint
    /\ \A h : maxRedeem(h) = Vault!maxRedeem(h) /\ maxWithdraw(h) = Vault!maxWithdraw(h)
  BY SameValues, SameArithmetic DEF convertToShares, Vault!convertToShares, convertToAssets,
         Vault!convertToAssets, previewMint, Vault!previewMint, previewWithdraw,
         Vault!previewWithdraw, maxDeposit, Vault!maxDeposit, maxMint, Vault!maxMint, maxRedeem,
         Vault!maxRedeem, maxWithdraw, Vault!maxWithdraw

(* The variables a call leaves alone.                                      *)
LEMMA SameFrames ==
    /\ shareVars = Vault!shareVars /\ shareVars' = Vault!shareVars'
    /\ monVars = Vault!monVars /\ monVars' = Vault!monVars'
    /\ stakeVars = Vault!stakeVars /\ stakeVars' = Vault!stakeVars'
    /\ perpVars = Vault!perpVars /\ perpVars' = Vault!perpVars'
    /\ marketVars = Vault!marketVars /\ marketVars' = Vault!marketVars'
  BY DEF shareVars, Vault!shareVars, monVars, Vault!monVars, stakeVars, Vault!stakeVars,
         perpVars, Vault!perpVars, marketVars, Vault!marketVars

LEMMA SamePayments ==
    \A h, a, s : (PullAndMint(h, a, s) => Vault!PullAndMint(h, a, s)) /\ (Settle(h, s) => Vault!Settle(h, s))
  <1>1. \A h, s : basisOf(h, s) = Vault!basisOf(h, s)
    BY SameArithmetic DEF basisOf, Vault!basisOf
  <1>2. \A a, b : feeOn(a, b) = Vault!feeOn(a, b)
    BY SameArithmetic DEF feeOn, Vault!feeOn
  <1>3. \A h, a, s : PullAndMint(h, a, s) => Vault!PullAndMint(h, a, s)
    BY SameFrames DEF PullAndMint, Vault!PullAndMint
  <1>4. \A h, s : Settle(h, s) => Vault!Settle(h, s)
    BY <1>1, <1>2, SameFrames, SameQuotes, SameValues DEF Settle, Vault!Settle
  <1> QED BY <1>3, <1>4

LEMMA SameOtherShareCalls ==
    \A h, s, to : /\ RedeemInKind(h, s) => Vault!RedeemInKind(h, s)
                  /\ Transfer(h, to, s) => Vault!Transfer(h, to, s)
  <1>1. \A h, s : basisOf(h, s) = Vault!basisOf(h, s)
    BY SameArithmetic DEF basisOf, Vault!basisOf
  <1>2. \A h, to, s : basisMoved(h, to, s) = Vault!basisMoved(h, to, s)
    BY <1>1 DEF basisMoved, Vault!basisMoved
  <1>3. \A h, s : RedeemInKind(h, s) => Vault!RedeemInKind(h, s)
    BY <1>1, SameFrames, SameValues, SameArithmetic DEF RedeemInKind, Vault!RedeemInKind
  <1>4. ASSUME NEW h, NEW to, NEW s, Transfer(h, to, s) PROVE Vault!Transfer(h, to, s)
    <2>1. basisMoved(h, to, s) = Vault!basisMoved(h, to, s)
      BY <1>2
    <2> QED BY <1>4, <2>1, SameFrames DEF Transfer, Vault!Transfer
  <1> QED BY <1>3, <1>4

LEMMA SameShareCalls == ShareNext => Vault!ShareNext
  <1>1. Accounts = Vault!Accounts /\ \A h : Portions(h) = Vault!Portions(h)
    BY SameQuotes DEF Accounts, Vault!Accounts, Portions, Vault!Portions
  <1>2. \A h, a : /\ Deposit(h, a) => Vault!Deposit(h, a)
                  /\ Withdraw(h, a) => Vault!Withdraw(h, a)
                  /\ Mint(h, a) => Vault!Mint(h, a)
                  /\ Redeem(h, a) => Vault!Redeem(h, a)
    BY SamePayments, SameQuotes, SameValues DEF Deposit, Vault!Deposit, Withdraw,
           Vault!Withdraw, Mint, Vault!Mint, Redeem, Vault!Redeem
  <1> QED BY <1>1, <1>2, SameOtherShareCalls DEF ShareNext, Vault!ShareNext

LEMMA SameStakeCalls == StakeNext => Vault!StakeNext
  <1>1. \A v, a : Stake(v, a) => Vault!Stake(v, a)
    BY SameFrames, SameArithmetic DEF Stake, Vault!Stake
  <1>2. \A v, a : Unstake(v, a) => Vault!Unstake(v, a)
    BY SameFrames DEF Unstake, Vault!Unstake, Undelegate, Vault!Undelegate, nextId, Vault!nextId
  <1>3. Slots = Vault!Slots /\ \A v, i : ClaimUnstaked(v, i) => Vault!ClaimUnstaked(v, i)
    BY SameFrames DEF ClaimUnstaked, Vault!ClaimUnstaked, ClearUnstake, Vault!ClearUnstake,
           Slots, Vault!Slots
  <1>4. \A v, r : /\ ClaimStakingRewards(v, r) => Vault!ClaimStakingRewards(v, r)
                  /\ ReceiveNative(r) => Vault!ReceiveNative(r)
    BY SameFrames, SameValues DEF ClaimStakingRewards, Vault!ClaimStakingRewards, ReceiveNative,
           Vault!ReceiveNative
  <1>5. EpochEnds => Vault!EpochEnds
    BY <1>3, SameFrames DEF EpochEnds, Vault!EpochEnds
  <1> QED BY <1>1, <1>2, <1>3, <1>4, <1>5 DEF StakeNext, Vault!StakeNext

LEMMA SameSwaps == SwapNext => Vault!SwapNext
  <1>1. \A a, b : SwapOutputs(a, b) = Vault!SwapOutputs(a, b)
    BY SameArithmetic DEF SwapOutputs, Vault!SwapOutputs
  <1>2. \A a : /\ SwapUsdcForMon(a) => Vault!SwapUsdcForMon(a)
               /\ SwapMonForUsdc(a) => Vault!SwapMonForUsdc(a)
    BY <1>1, SameFrames, SameValues DEF SwapUsdcForMon, Vault!SwapUsdcForMon, SwapMonForUsdc,
           Vault!SwapMonForUsdc, assetsToMon, Vault!assetsToMon
  <1>3. \A a : /\ SwapUsdcForAusd(a) => Vault!SwapUsdcForAusd(a)
               /\ SwapAusdForUsdc(a) => Vault!SwapAusdForUsdc(a)
    BY <1>1, SameFrames DEF SwapUsdcForAusd, Vault!SwapUsdcForAusd, SwapAusdForUsdc,
           Vault!SwapAusdForUsdc
  <1> QED BY <1>2, <1>3 DEF SwapNext, Vault!SwapNext

LEMMA SamePerpCalls == PerpNext => Vault!PerpNext
  <1>1. \A m, allowed : ControlPerpManagers(m, allowed) => Vault!ControlPerpManagers(m, allowed)
    BY SameFrames DEF ControlPerpManagers, Vault!ControlPerpManagers
  <1>2. \A m, t, a : SendFundPerpManager(m, t, a) => Vault!SendFundPerpManager(m, t, a)
    BY SameFrames, SameValues, SameArithmetic DEF SendFundPerpManager,
           Vault!SendFundPerpManager, OpenBook, Vault!OpenBook
  <1>3. ASSUME NEW m, NEW t, NEW a, PerpManagerDeposit(m, t, a)
        PROVE  Vault!PerpManagerDeposit(m, t, a)
    <2>1. /\ \A x, y : creditedTo(x, y) = Vault!creditedTo(x, y)
          /\ \A x, y : DockMark(x, y) => Vault!DockMark(x, y)
      BY SameArithmetic DEF creditedTo, Vault!creditedTo, DockMark, Vault!DockMark
    <2> QED BY <1>3, <2>1, SameFrames DEF PerpManagerDeposit, Vault!PerpManagerDeposit
  <1>4. \A byOwner, pnl : ReportPerpPnl(byOwner, pnl) => Vault!ReportPerpPnl(byOwner, pnl)
    BY SameFrames, SameArithmetic DEF ReportPerpPnl, Vault!ReportPerpPnl
  <1>5. Pnls \subseteq Int
    BY VaultAssumption DEF VaultAssumption
  <1> QED BY <1>1, <1>2, <1>3, <1>4, <1>5 DEF PerpNext, Vault!PerpNext

LEMMA SameOtherCalls == (OwnerNext => Vault!OwnerNext) /\ (EnvNext => Vault!EnvNext)
  <1>1. OwnerNext => Vault!OwnerNext
    BY SameFrames DEF OwnerNext, Vault!OwnerNext, WithdrawFees, Vault!WithdrawFees, SetPaused,
           Vault!SetPaused
  <1>2. EnvNext => Vault!EnvNext
    BY SameFrames DEF EnvNext, Vault!EnvNext, Tick, Vault!Tick, OracleMoves, Vault!OracleMoves
  <1> QED BY <1>1, <1>2

LEMMA SameInit == Init => Vault!Init
  BY DEF Init, Vault!Init, Accounts, Vault!Accounts, Slots, Vault!Slots

LEMMA SameCalls == [Next]_vars => [Vault!Next]_Vault!vars
  <1>1. vars = Vault!vars /\ vars' = Vault!vars'
    BY SameFrames DEF vars, Vault!vars
  <1>2. Next => Vault!Next
    BY SameShareCalls, SameStakeCalls, SameSwaps, SameOtherCalls, SamePerpCalls DEF Next, Vault!Next
  <1> QED BY <1>1, <1>2

(* The keeper's report is a report of the vault's, of a result that its    *)
(* keeper may give.                                                        *)
LEMMA SameReport == Reported => Vault!Next
  <1> SUFFICES ASSUME Reported PROVE Vault!Next
    OBVIOUS
  <1>1. PICK pnl \in Int : ReportPerpPnl(FALSE, pnl) /\ UNCHANGED callsLeft
    BY DEF Reported
  <1>2. Vault!ReportPerpPnl(FALSE, pnl)
    BY <1>1, SameFrames, SameArithmetic DEF ReportPerpPnl, Vault!ReportPerpPnl
  <1>3. Vault!PerpNext
    BY <1>2 DEF Vault!PerpNext
  <1> QED BY <1>1, <1>3 DEF Vault!Next

(* keeper.ts 94-356: whatever the keeper and its managers, its failures    *)
(* and its restarts do, the vault only ever sees calls it knows.           *)
THEOREM KeeperRunsTheVault == KeeperSpec => Vault!Spec
  <1>1. KeeperInit => Vault!Init
    BY SameInit DEF KeeperInit
  <1>2. KeeperInv /\ [KeeperNext]_allVars => [Vault!Next]_Vault!vars
    BY VaultTakesAStep, SameCalls, SameReport
  <1> QED BY <1>1, <1>2, KeeperInvariant, PTL DEF KeeperSpec, Vault!Spec

(* The constants of the keeper's vault are as the vault assumes.           *)
LEMMA SameFiniteness == \A S : IsFiniteSet(S) <=> Vault!IsFiniteSet(S)
  BY DEF IsFiniteSet, Vault!IsFiniteSet

(* So the vault's promises hold of the vault its keeper runs, with reports *)
(* under way while holders come and go: nobody is diluted, a fee is on     *)
(* profit only, a gain that is not confirmed is not paid, those who stay   *)
(* lose nothing to an exit in kind, the managers' debts and the stake add  *)
(* up, no payment changes what the book is worth, and every exit is open.  *)
THEOREM KeeperKeepsThePromises ==
    KeeperSpec => /\ Vault!NoDilution /\ Vault!FeeOnlyOnProfit
                  /\ Vault!UnconfirmedGainNeverPaid /\ Vault!InKindFairWhileFeesCovered
                  /\ Vault!BookValueConserved
                  /\ []Vault!BookBalanced /\ []Vault!MarkBelongsToThisBook
                  /\ []Vault!StakeBalanced /\ []Vault!PartsFitTotals /\ []Vault!ExitsOpen
  <1>1. Vault!Spec => Vault!NoDilution
    BY Vault!NobodyIsDiluted, SameFiniteness, VaultAssumption DEF VaultAssumption
  <1>2. Vault!Spec => Vault!FeeOnlyOnProfit
    BY Vault!FeeIsOnProfit, SameFiniteness, VaultAssumption DEF VaultAssumption
  <1>3. Vault!Spec => Vault!UnconfirmedGainNeverPaid
    BY Vault!UnconfirmedGainStays, SameFiniteness, VaultAssumption DEF VaultAssumption
  <1>4. Vault!Spec => Vault!InKindFairWhileFeesCovered
    BY Vault!InKindIsFair, SameFiniteness, VaultAssumption DEF VaultAssumption
  <1>5. Vault!Spec => Vault!BookValueConserved
    BY Vault!BookValueIsConserved, SameFiniteness, VaultAssumption DEF VaultAssumption
  <1>6. Vault!Spec => []Vault!BookBalanced
    BY Vault!BookIsBalanced, SameFiniteness, VaultAssumption DEF VaultAssumption
  <1>7. Vault!Spec => []Vault!MarkBelongsToThisBook
    BY Vault!MarkIsOfThisBook, SameFiniteness, VaultAssumption DEF VaultAssumption
  <1>8. Vault!Spec => []Vault!StakeBalanced
    BY Vault!StakeIsBalanced, SameFiniteness, VaultAssumption DEF VaultAssumption
  <1>9. Vault!Spec => []Vault!PartsFitTotals
    BY Vault!NoTotalUnderflows, SameFiniteness, VaultAssumption DEF VaultAssumption
  <1>10. Vault!Spec => []Vault!ExitsOpen
    BY Vault!ExitsAreOpen, SameFiniteness, VaultAssumption DEF VaultAssumption
  <1> QED BY KeeperRunsTheVault, <1>1, <1>2, <1>3, <1>4, <1>5, <1>6, <1>7, <1>8, <1>9, <1>10
=============================================================================
