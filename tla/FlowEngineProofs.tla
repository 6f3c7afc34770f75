--------------------------- MODULE FlowEngineProofs ---------------------------
(***************************************************************************)
(* Proofs about FlowEngine.tla, for any shares, spare holdings and bounds. *)
(***************************************************************************)
EXTENDS FlowEngine, TLAPS

(* The worker has a step in its hands, and the document says how far it is.*)
Working == {"plan", "send", "record", "confirm", "settle", "fill"}

WorksOn(i) == job.at \in Working /\ job.step = i

JobInv ==
    /\ job.at = "plan" => steps[job.step].status = "pending"
    /\ job.at \in {"send", "record"} => steps[job.step].status = "sending"
    /\ job.at \in {"confirm", "settle"} => steps[job.step].status = "sent"
    /\ job.at \in {"send", "record", "confirm", "settle"} => job.step \in ChainSteps
    /\ job.at = "fill" => job.step = openShort /\ steps[openShort].status = "pending"

Exists(i) ==
    IF i = openShort THEN book.short + book.unfilled > 0 ELSE \E a \in Attempts : tx[i][a] # NoTx

(* Something of step i has begun, in the document, outside, or in hand.    *)
Touched(i) == steps[i].status # "pending" \/ Exists(i) \/ WorksOn(i)

OrderInv ==
    \A i \in Steps : Touched(i) => \A j \in 1 .. i - 1 : steps[j].status = "done"

SeqInv == TypeOK /\ JobInv /\ OrderInv

(* A receipt that was seen stays.                                          *)
HashInv ==
    /\ job.at \in Working => steps[job.step].attempts > 0
    /\ job.at \in {"confirm", "settle"} => steps[job.step].txHash # 0
    /\ job.at = "settle" => Confirmed(job.step)

DoneInv == SeqInv /\ HashInv /\ DoneIsDone

-----------------------------------------------------------------------------
(***************************************************************************)
(* Types                                                                   *)
(***************************************************************************)
StepRecord == [status : StepStatus, attempts : 0 .. AttemptBound, nonce : Nat,
               txHash : 0 .. AttemptBound, result : Int, skipped : BOOLEAN]
JobRecord  == [at : Places, step : Steps, amount : Nat, before : Nat]
TxRecord   == [status : TxStatus, nonce : Nat, amount : Nat]

LEMMA Bounds ==
    /\ AttemptBound \in Nat \ {0}
    /\ MAX_ATTEMPTS \in Nat \ {0}
    /\ MonShare \in Nat /\ AusdShare \in Nat /\ SpareUsdc \in Nat
    /\ SpareMon \in Nat /\ ManualBound \in Nat
  BY FlowAssumption DEF FlowAssumption

LEMMA StepNumbers ==
    /\ Steps = 1 .. 7 /\ ChainSteps = 1 .. 6
    /\ \A i : i \in Steps <=> i \in ChainSteps \/ i = openShort
    /\ openShort \notin ChainSteps
  BY DEF Steps, ChainSteps, openShort, depositToPerpl

LEMMA TypeParts ==
    TypeOK <=> /\ flow \in {"running", "done", "failed"}
               /\ steps \in [Steps -> StepRecord]
               /\ job \in JobRecord
               /\ tx \in [ChainSteps -> [Attempts -> TxRecord]]
               /\ confirmed \in [Wallets -> Nat]
               /\ book \in [Holdings -> Nat]
  BY DEF TypeOK, StepRecord, JobRecord, TxRecord

LEMMA InitTypes == Init => TypeOK
  <1> SUFFICES ASSUME Init PROVE TypeOK
    OBVIOUS
  <1>1. steps \in [Steps -> StepRecord]
    BY Bounds DEF Init, StepRecord, StepStatus
  <1>2. job \in JobRecord
    BY StepNumbers DEF Init, Idle, JobRecord, Places
  <1>3. tx \in [ChainSteps -> [Attempts -> TxRecord]]
    BY DEF Init, NoTx, TxRecord, TxStatus
  <1>4. confirmed \in [Wallets -> Nat] /\ book \in [Holdings -> Nat]
    BY Bounds DEF Init, Holdings
  <1> QED BY <1>1, <1>2, <1>3, <1>4, TypeParts DEF Init

LEMMA IdleJobs ==
    \A p \in Places : [Idle EXCEPT !.at = p] \in JobRecord /\ Idle \in JobRecord
  BY StepNumbers DEF Idle, JobRecord, Places

LEMMA MoveType ==
    ASSUME NEW amount \in Nat, book \in [Holdings -> Nat],
           NEW from \in Holdings \ {"short", "unfilled"}, NEW to \in Holdings \ {"short", "unfilled"},
           from # to, amount <= book[from]
    PROVE  /\ Move(from, to, amount) \in [Holdings -> Nat]
           /\ Move(from, to, amount).short = book.short
           /\ Move(from, to, amount).unfilled = book.unfilled
           /\ \A h \in Holdings \ {from, to} : Move(from, to, amount)[h] = book[h]
  <1>1. book[from] - amount \in Nat /\ book[to] + amount \in Nat
    OBVIOUS
  <1>2. "short" \in Holdings /\ "unfilled" \in Holdings
    BY DEF Holdings
  <1> QED BY <1>1, <1>2 DEF Move

LEMMA EffectType ==
    ASSUME NEW i \in ChainSteps, NEW amount \in Nat, book \in [Holdings -> Nat],
           Feasible(i, amount)
    PROVE  /\ Effect(i, amount) \in [Holdings -> Nat]
           /\ Effect(i, amount).short = book.short /\ Effect(i, amount).unfilled = book.unfilled
  <1> USE DEF swapUsdcForMon, swapUsdcForAusd, stake, fundPerpManager,
              approvePerplCollateral, depositToPerpl
  <1> DEFINE B == Holdings \ {"short", "unfilled"}
  <1>0. /\ "usdc" \in B /\ "mon" \in B /\ "ausd" \in B /\ "staked" \in B
        /\ "held" \in B /\ "collateral" \in B /\ "allowance" \in B
        /\ "short" \in Holdings /\ "unfilled" \in Holdings
    BY DEF Holdings
  <1> HIDE DEF B
  <1>m. ASSUME NEW from \in B, NEW to \in B, from # to, amount <= book[from]
        PROVE  /\ Move(from, to, amount) \in [Holdings -> Nat]
               /\ Move(from, to, amount).short = book.short
               /\ Move(from, to, amount).unfilled = book.unfilled
               /\ \A h \in B \ {from, to} : Move(from, to, amount)[h] = book[h]
    BY <1>m, MoveType DEF B
  <1>1. CASE i = swapUsdcForMon
    BY <1>1, <1>0, <1>m DEF Effect, Feasible
  <1>2. CASE i = swapUsdcForAusd
    BY <1>2, <1>0, <1>m DEF Effect, Feasible
  <1>3. CASE i = stake
    BY <1>3, <1>0, <1>m DEF Effect, Feasible
  <1>4. CASE i = fundPerpManager
    BY <1>4, <1>0, <1>m DEF Effect, Feasible
  <1>5. CASE i = approvePerplCollateral
    <2>1. Effect(i, amount) = [book EXCEPT !.allowance = amount]
      BY <1>5 DEF Effect
    <2> QED BY <2>1, <1>0 DEF B
  <1>6. CASE i = depositToPerpl
    <2> DEFINE moved == Move("held", "collateral", amount)
    <2>1. Effect(i, amount) = [moved EXCEPT !.allowance = @ - amount]
      BY <1>6 DEF Effect
    <2>2. amount <= book["held"] /\ amount <= book["allowance"]
      BY <1>6 DEF Feasible
    <2>3. /\ moved \in [Holdings -> Nat] /\ moved.short = book.short /\ moved.unfilled = book.unfilled
          /\ moved["allowance"] = book["allowance"]
      <3>1. "held" # "collateral" /\ "allowance" \in B \ {"held", "collateral"}
        BY <1>0
      <3> QED BY <3>1, <2>2, <1>0, <1>m
    <2> HIDE DEF moved
    <2>4. moved["allowance"] - amount \in Nat
      BY <2>2, <2>3, <1>0 DEF B
    <2> QED BY <2>1, <2>3, <2>4, <1>0 DEF B
  <1> QED
    BY <1>1, <1>2, <1>3, <1>4, <1>5, <1>6, StepNumbers

LEMMA WalletOf == ASSUME NEW i PROVE signerFor(i) \in Wallets
  BY DEF signerFor, Wallets

LEMMA FailTypes ==
    ASSUME TypeOK, NEW i \in Steps, Fail(i)
    PROVE  /\ flow' = flow
           /\ steps' = [steps EXCEPT ![i].status = "failed"]
           /\ steps' \in [Steps -> StepRecord]
           /\ job' \in JobRecord
           /\ job'.at \in {"idle", "giveUp"}
  <1>1. steps \in [Steps -> StepRecord]
    BY TypeParts
  <1>2. steps' \in [Steps -> StepRecord]
    BY <1>1 DEF Fail, StepRecord, StepStatus
  <1>3. job' \in JobRecord /\ job'.at \in {"idle", "giveUp"}
    BY StepNumbers DEF Fail, Idle, JobRecord, Places
  <1> QED BY <1>2, <1>3 DEF Fail

LEMMA BookType ==
    ASSUME book \in [Holdings -> Nat]
    PROVE  /\ book.usdc \in Nat /\ book.mon \in Nat /\ book.ausd \in Nat /\ book.short \in Nat
           /\ book.held \in Nat /\ book.allowance \in Nat /\ book.collateral \in Nat
           /\ book.unfilled \in Nat
           /\ \A n \in Nat : /\ [book EXCEPT !.short = n] \in [Holdings -> Nat]
                             /\ [book EXCEPT !.unfilled = n] \in [Holdings -> Nat]
  BY DEF Holdings

LEMMA PlannedType ==
    ASSUME TypeOK, NEW i \in Steps
    PROVE  planned(i) \in Int /\ balanceBefore(i) \in Nat
  <1>1. \A k \in Steps : steps[k].result \in Int
    BY TypeParts DEF StepRecord
  <1>2. \A k \in {swapUsdcForMon, swapUsdcForAusd, stake} : k \in Steps
    BY StepNumbers DEF swapUsdcForMon, swapUsdcForAusd, stake
  <1>3. balanceBefore(i) \in Nat
    BY TypeParts, BookType DEF balanceBefore
  <1>4. planned(i) \in Int
    BY <1>1, <1>2, TypeParts, BookType, Bounds, StepNumbers DEF planned, swapUsdcForMon,
       swapUsdcForAusd, stake, fundPerpManager, approvePerplCollateral, depositToPerpl, openShort
  <1> QED BY <1>3, <1>4

LEMMA SettledType ==
    ASSUME TypeOK, NEW i \in Steps
    PROVE  settled(i) \in Int
  BY TypeParts, BookType DEF settled, JobRecord

(* What each kind of write leaves well typed.                              *)
LEMMA CountWrite ==
    ASSUME TypeOK, NEW i \in Steps, NEW st \in StepStatus, NEW h \in 0 .. AttemptBound
    PROVE  /\ [steps EXCEPT ![i].status = st, ![i].attempts = h] \in [Steps -> StepRecord]
           /\ [steps EXCEPT ![i].status = st, ![i].txHash = h] \in [Steps -> StepRecord]
  <1>1. steps \in [Steps -> StepRecord]
    BY TypeParts
  <1>2. steps[i] \in StepRecord
    BY <1>1
  <1>3. [steps EXCEPT ![i].status = st, ![i].attempts = h] \in [Steps -> StepRecord]
    <2>1. [steps[i] EXCEPT !.status = st, !.attempts = h] \in StepRecord
      BY <1>2 DEF StepRecord
    <2> QED BY <1>1, <2>1
  <1>4. [steps EXCEPT ![i].status = st, ![i].txHash = h] \in [Steps -> StepRecord]
    <2>1. [steps[i] EXCEPT !.status = st, !.txHash = h] \in StepRecord
      BY <1>2 DEF StepRecord
    <2> QED BY <1>1, <2>1
  <1> QED BY <1>3, <1>4

LEMMA SkipWrite ==
    ASSUME TypeOK, NEW i \in Steps, NEW st \in StepStatus
    PROVE  [steps EXCEPT ![i].status = st, ![i].skipped = TRUE] \in [Steps -> StepRecord]
  BY TypeParts DEF StepRecord

LEMMA JobWrite ==
    ASSUME TypeOK, NEW p \in Places
    PROVE  [job EXCEPT !.at = p] \in JobRecord
  BY TypeParts DEF JobRecord

LEMMA JobStart ==
    ASSUME NEW i \in Steps
    PROVE  [Idle EXCEPT !.at = "plan", !.step = i] \in JobRecord
  BY DEF JobRecord, Idle, Places

LEMMA JobPlan ==
    ASSUME TypeOK, NEW m \in Nat, NEW b \in Nat
    PROVE  [job EXCEPT !.at = "send", !.amount = m, !.before = b] \in JobRecord
  BY TypeParts DEF JobRecord, Places

LEMMA StepNextTypes ==
    ASSUME TypeOK, NEW i \in Steps, StepNext(i)
    PROVE  TypeOK'
  <1>0. /\ flow \in {"running", "done", "failed"} /\ steps \in [Steps -> StepRecord]
        /\ job \in JobRecord /\ tx \in [ChainSteps -> [Attempts -> TxRecord]]
        /\ confirmed \in [Wallets -> Nat] /\ book \in [Holdings -> Nat]
    BY TypeParts
  <1>a. /\ steps[i].attempts \in 0 .. AttemptBound /\ steps[i].nonce \in Nat
        /\ job.amount \in Nat /\ job.step \in Steps
    BY <1>0 DEF StepRecord, JobRecord
  <1>b. /\ StepStatus = {"pending", "sending", "sent", "done", "failed", "needs-review"}
        /\ {"idle", "plan", "send", "record", "confirm", "settle", "fill", "giveUp", "down"} = Places
        /\ "pool" \in TxStatus
    BY DEF StepStatus, Places, TxStatus
  <1>c. SUFFICES ASSUME TRUE
                 PROVE  /\ flow' \in {"running", "done", "failed"}
                        /\ steps' \in [Steps -> StepRecord] /\ job' \in JobRecord
                        /\ tx' \in [ChainSteps -> [Attempts -> TxRecord]]
                        /\ confirmed' \in [Wallets -> Nat] /\ book' \in [Holdings -> Nat]
    BY DEF TypeOK, StepRecord, JobRecord, TxRecord
  <1>1. CASE BeginStep(i)
    <2>1. steps[i].attempts + 1 \in 0 .. AttemptBound
      BY <1>1, <1>a, Bounds DEF BeginStep
    <2> QED BY <1>1, <2>1, <1>0, <1>b, CountWrite, JobStart DEF BeginStep, chainVars
  <1>2. CASE Skip(i)
    BY <1>2, <1>0, <1>b, SkipWrite, IdleJobs DEF Skip, chainVars
  <1>3. CASE ResolveByHash(i)
    <2>1. steps' \in [Steps -> StepRecord]
      <3>1. PICK st \in {"done", "failed"} : steps' = [steps EXCEPT ![i].status = st]
        BY <1>3 DEF ResolveByHash
      <3>2. st \in StepStatus
        BY <1>b
      <3> QED BY <3>1, <3>2, <1>0 DEF StepRecord
    <2> QED BY <1>3, <2>1, <1>0 DEF ResolveByHash, chainVars
  <1>4. CASE ResolveByNonce(i)
    <2>1. steps' \in [Steps -> StepRecord]
      <3>1. PICK st \in {"pending", "needs-review"} : steps' = [steps EXCEPT ![i].status = st]
        BY <1>4 DEF ResolveByNonce
      <3>2. st \in StepStatus
        BY <1>b
      <3> QED BY <3>1, <3>2, <1>0 DEF StepRecord
    <2>2. job' \in JobRecord
      <3>1. job' = job \/ job' = [Idle EXCEPT !.at = "giveUp"]
        BY <1>4 DEF ResolveByNonce
      <3> QED BY <3>1, <1>0, <1>b, IdleJobs
    <2> QED BY <1>4, <2>1, <2>2, <1>0 DEF ResolveByNonce, chainVars
  <1>5. CASE PinNonce(i)
    <2>1. confirmed[signerFor(i)] \in Nat /\ AttemptBound \in Nat
      BY <1>0, WalletOf, Bounds
    <2>2. PICK n \in confirmed[signerFor(i)] .. confirmed[signerFor(i)] + 6 * AttemptBound :
                  steps' = [steps EXCEPT ![i].status = "sending", ![i].nonce = n]
      BY <1>5 DEF PinNonce
    <2>2a. n \in Nat /\ "sending" \in StepStatus
      BY <2>1, <1>b
    <2>2b. steps' \in [Steps -> StepRecord]
      BY <2>2, <2>2a, <1>0 DEF StepRecord
    <2>3. planned(i) \in Nat /\ balanceBefore(i) \in Nat
      BY <1>5, PlannedType DEF PinNonce
    <2>4. job' \in JobRecord
      BY <1>5, <2>3, <1>b, JobPlan DEF PinNonce
    <2> QED BY <1>5, <2>2b, <2>4, <1>0 DEF PinNonce, chainVars
  <1>6. CASE SendRefused(i)
    BY <1>6, <1>0, FailTypes DEF SendRefused, chainVars
  <1>7. CASE Broadcast(i)
    <2>1. i \in ChainSteps /\ steps[i].attempts \in Attempts => tx' \in [ChainSteps -> [Attempts -> TxRecord]]
      <3>1. [status |-> "pool", nonce |-> steps[i].nonce, amount |-> job.amount] \in TxRecord
        BY <1>a, <1>b DEF TxRecord
      <3>2. tx' = [tx EXCEPT ![i][steps[i].attempts] =
                      [status |-> "pool", nonce |-> steps[i].nonce, amount |-> job.amount]]
        BY <1>7 DEF Broadcast
      <3>3. \A r \in TxRecord : i \in ChainSteps /\ steps[i].attempts \in Attempts =>
               [tx EXCEPT ![i][steps[i].attempts] = r] \in [ChainSteps -> [Attempts -> TxRecord]]
        BY <1>0
      <3> QED BY <3>1, <3>2, <3>3
    <2>2. tx' \in [ChainSteps -> [Attempts -> TxRecord]]
      <3>1. PICK r : tx' = [tx EXCEPT ![i][steps[i].attempts] = r]
        BY <1>7 DEF Broadcast
      <3>2. CASE i \notin ChainSteps
        <4>1. tx' = tx
          BY <3>1, <3>2, <1>0
        <4> QED BY <4>1, <1>0
      <3>3. CASE i \in ChainSteps /\ steps[i].attempts \notin Attempts
        <4>1. [tx[i] EXCEPT ![steps[i].attempts] = r] = tx[i]
          BY <3>3, <1>0
        <4>2. tx' = tx
          BY <3>1, <3>3, <4>1, <1>0
        <4> QED BY <4>2, <1>0
      <3> QED BY <2>1, <3>2, <3>3
    <2>3. CASE Fail(i)
      <3>1. UNCHANGED <<confirmed, book>>
        BY <1>7 DEF Broadcast
      <3>2. flow' = flow /\ steps' \in [Steps -> StepRecord] /\ job' \in JobRecord
        BY <2>3, FailTypes
      <3> QED BY <2>2, <3>1, <3>2, <1>0
    <2>4. CASE job' = [job EXCEPT !.at = "record"] /\ UNCHANGED docVars
      BY <1>7, <2>2, <2>4, <1>0, <1>b, <1>a, JobWrite DEF Broadcast, docVars
    <2>5. Fail(i) \/ (job' = [job EXCEPT !.at = "record"] /\ UNCHANGED docVars)
      BY <1>7 DEF Broadcast
    <2> QED BY <2>3, <2>4, <2>5
  <1>8. CASE RecordHash(i)
    <2>1. /\ steps' = [steps EXCEPT ![i].status = "sent", ![i].txHash = steps[i].attempts]
          /\ job' = [job EXCEPT !.at = "confirm"]
          /\ UNCHANGED <<flow, chainVars>>
      BY <1>8 DEF RecordHash
    <2>2. steps' \in [Steps -> StepRecord]
      <3>1. "sent" \in StepStatus
        BY <1>b
      <3> QED BY <2>1, <1>a, <3>1, CountWrite
    <2>3. job' \in JobRecord
      BY <2>1, <1>0, <1>b, JobWrite
    <2> QED BY <2>1, <2>2, <2>3, <1>0 DEF chainVars
  <1>9. CASE Confirm(i)
    <2>1. CASE Fail(i)
      BY <1>9, <2>1, <1>0, FailTypes DEF Confirm, chainVars
    <2>2. CASE job' = [job EXCEPT !.at = "settle"] /\ UNCHANGED docVars
      BY <1>9, <2>2, <1>0, <1>a, <1>b, JobWrite DEF Confirm, chainVars, docVars
    <2> QED BY <1>9, <2>1, <2>2 DEF Confirm
  <1>10. CASE Settle(i)
    <2>1. CASE Fail(i)
      BY <1>10, <2>1, <1>0, FailTypes DEF Settle, chainVars
    <2>2. CASE /\ steps' = [steps EXCEPT ![i].status = "done", ![i].result = settled(i)]
               /\ job' = Idle /\ UNCHANGED flow
      <3>1. settled(i) \in Int /\ "done" \in StepStatus
        BY SettledType, <1>b
      <3>2. steps' \in [Steps -> StepRecord]
        BY <2>2, <3>1, <1>0 DEF StepRecord
      <3> QED BY <1>10, <2>2, <3>2, <1>0, <1>b, IdleJobs DEF Settle, chainVars
    <2> QED BY <1>10, <2>1, <2>2 DEF Settle
  <1> QED
    BY <1>1, <1>2, <1>3, <1>4, <1>5, <1>6, <1>7, <1>8, <1>9, <1>10 DEF StepNext

LEMMA TakenView ==
    ASSUME TypeOK, Ordering, Taken
    PROVE  /\ book' \in [Holdings -> Nat]
           /\ \A h \in Holdings \ {"short", "unfilled"} : book'[h] = book[h]
           /\ book'.short + book'.unfilled = book.short + book.unfilled + planned(openShort)
  <1>1. planned(openShort) \in Int /\ planned(openShort) > 0
    BY PlannedType, StepNumbers DEF Ordering
  <1>2. /\ book \in [Holdings -> Nat] /\ "short" \in Holdings /\ "unfilled" \in Holdings
        /\ book["short"] \in Nat /\ book["unfilled"] \in Nat
    BY TypeParts DEF Holdings
  <1>3. PICK into \in {"short", "unfilled"} : book' = [book EXCEPT ![into] = @ + planned(openShort)]
    BY DEF Taken, Forwarded
  <1>4. CASE into = "short"
    BY <1>1, <1>2, <1>3, <1>4
  <1>5. CASE into = "unfilled"
    BY <1>1, <1>2, <1>3, <1>5
  <1> QED BY <1>4, <1>5

LEMMA MineTypes ==
    ASSUME TypeOK, NEW i \in ChainSteps, NEW a \in Attempts, Mine(i, a)
    PROVE  /\ tx' \in [ChainSteps -> [Attempts -> TxRecord]]
           /\ confirmed' = [confirmed EXCEPT ![signerFor(i)] = @ + 1]
           /\ confirmed' \in [Wallets -> Nat]
           /\ book' \in [Holdings -> Nat]
           /\ book'.short = book.short /\ book'.unfilled = book.unfilled
           /\ UNCHANGED <<flow, steps, job>>
  <1>1. /\ tx \in [ChainSteps -> [Attempts -> TxRecord]]
        /\ confirmed \in [Wallets -> Nat] /\ book \in [Holdings -> Nat]
    BY TypeParts
  <1>2. tx' \in [ChainSteps -> [Attempts -> TxRecord]]
    <2>1. PICK st \in {"mined", "reverted"} : tx' = [tx EXCEPT ![i][a].status = st]
      BY DEF Mine
    <2>2. [tx[i][a] EXCEPT !.status = st] \in TxRecord
      <3>1. tx[i][a] \in TxRecord /\ st \in TxStatus
        BY <1>1 DEF TxStatus
      <3> QED BY <3>1 DEF TxRecord
    <2> QED BY <2>1, <2>2, <1>1
  <1>3. confirmed' = [confirmed EXCEPT ![signerFor(i)] = @ + 1]
    BY DEF Mine
  <1>4. confirmed' \in [Wallets -> Nat]
    BY <1>1, <1>3, WalletOf
  <1>5. book' \in [Holdings -> Nat] /\ book'.short = book.short /\ book'.unfilled = book.unfilled
    <2>1. tx[i][a].amount \in Nat
      BY <1>1 DEF TxRecord
    <2>2. CASE Feasible(i, tx[i][a].amount) /\ book' = Effect(i, tx[i][a].amount)
      BY <2>1, <2>2, <1>1, EffectType
    <2>3. CASE book' = book
      BY <2>3, <1>1
    <2> QED BY <2>2, <2>3 DEF Mine
  <1> QED BY <1>2, <1>3, <1>4, <1>5 DEF Mine, docVars

LEMMA DropTypes ==
    ASSUME TypeOK, NEW i \in ChainSteps, NEW a \in Attempts, Drop(i, a)
    PROVE  tx' \in [ChainSteps -> [Attempts -> TxRecord]]
  <1>1. tx \in [ChainSteps -> [Attempts -> TxRecord]]
    BY TypeParts
  <1>2. [tx[i][a] EXCEPT !.status = "dropped"] \in TxRecord
    <2>1. tx[i][a] \in TxRecord /\ "dropped" \in TxStatus
      BY <1>1 DEF TxStatus
    <2> QED BY <2>1 DEF TxRecord
  <1>3. tx' = [tx EXCEPT ![i][a].status = "dropped"]
    BY DEF Drop
  <1> QED BY <1>1, <1>2, <1>3

LEMMA NextTypes == TypeOK /\ [Next]_vars => TypeOK'
  <1> SUFFICES ASSUME TypeOK, [Next]_vars PROVE TypeOK'
    OBVIOUS
  <1>0. /\ flow \in {"running", "done", "failed"} /\ steps \in [Steps -> StepRecord]
        /\ job \in JobRecord /\ tx \in [ChainSteps -> [Attempts -> TxRecord]]
        /\ confirmed \in [Wallets -> Nat] /\ book \in [Holdings -> Nat]
    BY TypeParts
  <1>b. /\ openShort \in Steps /\ "done" \in StepStatus
        /\ {"idle", "fill", "giveUp", "down"} \subseteq Places
    BY StepNumbers DEF StepStatus, Places
  <1>c. ASSUME flow' \in {"running", "done", "failed"}, steps' \in [Steps -> StepRecord],
               job' \in JobRecord, tx' \in [ChainSteps -> [Attempts -> TxRecord]],
               confirmed' \in [Wallets -> Nat], book' \in [Holdings -> Nat]
        PROVE  TypeOK'
    BY <1>c DEF TypeOK, StepRecord, JobRecord, TxRecord
  <1>1. ASSUME NEW i \in Steps, StepNext(i) PROVE TypeOK'
    BY <1>1, StepNextTypes
  <1>2. CASE PlanFails
    BY <1>2, <1>0, <1>b, <1>c, IdleJobs DEF PlanFails, docVars, chainVars
  <1>3. CASE OrderAccepted
    <2>1. job' \in JobRecord
      BY <1>3, <1>b, JobWrite DEF OrderAccepted
    <2> QED BY <1>3, <2>1, <1>0, <1>c, TakenView DEF OrderAccepted, docVars
  <1>4. CASE OrderFails
    <2>1. book' \in [Holdings -> Nat]
      BY <1>4, <1>0, TakenView DEF OrderFails
    <2> QED BY <1>4, <2>1, <1>0, <1>b, <1>c, FailTypes DEF OrderFails
  <1>5. CASE RecordShort
    <2>1. steps' \in [Steps -> StepRecord]
      BY <1>5, <1>0, <1>b DEF RecordShort, StepRecord
    <2> QED BY <1>5, <2>1, <1>0, <1>b, <1>c, IdleJobs DEF RecordShort, chainVars
  <1>6. CASE FinishFlow
    BY <1>6, <1>0, <1>c DEF FinishFlow, chainVars
  <1>7. CASE GiveUp
    BY <1>7, <1>0, <1>b, <1>c, IdleJobs DEF GiveUp, chainVars
  <1>8. ASSUME NEW i \in ChainSteps, NEW a \in Attempts, Mine(i, a) PROVE TypeOK'
    BY <1>8, <1>0, <1>c, MineTypes
  <1>9. ASSUME NEW i \in ChainSteps, NEW a \in Attempts, Drop(i, a) PROVE TypeOK'
    BY <1>9, <1>0, <1>c, DropTypes DEF Drop, docVars
  <1>10. CASE ManualSend
    BY <1>10, <1>0, <1>c DEF ManualSend, docVars, Wallets
  <1>11. CASE Crash
    BY <1>11, <1>0, <1>b, <1>c, IdleJobs DEF Crash, docVars, chainVars
  <1>12. CASE Restart
    BY <1>12, <1>0, <1>b, <1>c, IdleJobs DEF Restart, docVars, chainVars
  <1>13. CASE UNCHANGED vars
    BY <1>13, <1>0, <1>c DEF vars, docVars, chainVars
  <1> QED
    BY <1>1, <1>2, <1>3, <1>4, <1>5, <1>6, <1>7, <1>8, <1>9, <1>10, <1>11, <1>12, <1>13
    DEF Next, WorkerNext, MineNext, DropNext

(* Every behaviour keeps its types, whatever the environment does.         *)
THEOREM FlowTypes == Spec => []TypeOK
  <1> QED BY InitTypes, NextTypes, PTL DEF Spec

-----------------------------------------------------------------------------
(***************************************************************************)
(* What each action does, field by field: the proofs below use these and   *)
(* not the actions' definitions.                                           *)
(***************************************************************************)
Others(i) == \A k \in Steps \ {i} : steps'[k] = steps[k]

Becomes(i, st) == Others(i) /\ steps'[i].status = st

Keeps(i) ==
    /\ steps'[i].attempts = steps[i].attempts
    /\ steps'[i].nonce = steps[i].nonce
    /\ steps'[i].txHash = steps[i].txHash
    /\ steps'[i].skipped = steps[i].skipped

LEMMA StatusView ==
    ASSUME TypeOK, NEW i \in Steps, NEW st, steps' = [steps EXCEPT ![i].status = st]
    PROVE  Becomes(i, st) /\ Keeps(i)
  BY TypeParts DEF Becomes, Others, Keeps, StepRecord

LEMMA JobView ==
    ASSUME TypeOK, NEW p, job' = [job EXCEPT !.at = p]
    PROVE  job'.at = p /\ job'.step = job.step /\ job'.amount = job.amount
  BY TypeParts DEF JobRecord

LEMMA IdleView ==
    /\ Idle.at = "idle"
    /\ \A p : [Idle EXCEPT !.at = p].at = p
    /\ \A p, i : /\ [Idle EXCEPT !.at = p, !.step = i].at = p
                 /\ [Idle EXCEPT !.at = p, !.step = i].step = i
  BY DEF Idle

LEMMA FailView ==
    ASSUME TypeOK, NEW i \in Steps, Fail(i)
    PROVE  Becomes(i, "failed") /\ Keeps(i) /\ job'.at \in {"idle", "giveUp"}
  BY FailTypes, StatusView

LEMMA BeginView ==
    ASSUME TypeOK, NEW i \in Steps, BeginStep(i)
    PROVE  /\ job.at = "idle" /\ Current(i) /\ steps[i].status \in {"pending", "failed"}
           /\ Becomes(i, "pending") /\ steps'[i].attempts = steps[i].attempts + 1
           /\ steps'[i].txHash = steps[i].txHash /\ steps'[i].skipped = steps[i].skipped
           /\ job'.at = "plan" /\ job'.step = i
           /\ UNCHANGED <<tx, confirmed, book>>
  <1>1. /\ job.at = "idle" /\ Current(i) /\ steps[i].status \in {"pending", "failed"}
        /\ job'.at = "plan" /\ job'.step = i /\ UNCHANGED <<tx, confirmed, book>>
    BY IdleView DEF BeginStep, Ticking, chainVars
  <1>2. steps' = [steps EXCEPT ![i].status = "pending", ![i].attempts = @ + 1]
    BY DEF BeginStep
  <1> QED BY <1>1, <1>2, TypeParts DEF Becomes, Others, StepRecord

LEMMA SkipView ==
    ASSUME TypeOK, NEW i \in Steps, Skip(i)
    PROVE  /\ job.at = "plan" /\ job.step = i
           /\ Becomes(i, "done") /\ steps'[i].skipped = TRUE
           /\ steps'[i].txHash = steps[i].txHash /\ steps'[i].attempts = steps[i].attempts
           /\ job'.at = "idle" /\ UNCHANGED <<tx, confirmed, book>>
  <1>1. /\ job.at = "plan" /\ job.step = i
        /\ job'.at = "idle" /\ UNCHANGED <<tx, confirmed, book>>
    BY IdleView DEF Skip, At, chainVars
  <1>2. steps' = [steps EXCEPT ![i].status = "done", ![i].skipped = TRUE]
    BY DEF Skip
  <1> QED BY <1>1, <1>2, TypeParts DEF Becomes, Others, StepRecord

LEMMA PinView ==
    ASSUME TypeOK, NEW i \in Steps, PinNonce(i)
    PROVE  /\ job.at = "plan" /\ job.step = i /\ i \in ChainSteps
           /\ Becomes(i, "sending") /\ steps'[i].attempts = steps[i].attempts
           /\ steps'[i].txHash = steps[i].txHash /\ steps'[i].skipped = steps[i].skipped
           /\ job'.at = "send" /\ job'.step = i /\ UNCHANGED <<tx, confirmed, book>>
  <1>1. /\ job.at = "plan" /\ job.step = i /\ i \in ChainSteps
        /\ UNCHANGED <<tx, confirmed, book>>
    BY StepNumbers DEF PinNonce, At, chainVars
  <1>2. job'.at = "send" /\ job'.step = i
    BY <1>1, TypeParts DEF PinNonce, JobRecord
  <1>3. PICK n : steps' = [steps EXCEPT ![i].status = "sending", ![i].nonce = n]
    BY DEF PinNonce
  <1> QED BY <1>1, <1>2, <1>3, TypeParts DEF Becomes, Others, StepRecord

LEMMA RefusedView ==
    ASSUME TypeOK, NEW i \in Steps, SendRefused(i)
    PROVE  /\ job.at = "send" /\ job.step = i
           /\ Becomes(i, "failed") /\ Keeps(i)
           /\ job'.at \in {"idle", "giveUp"} /\ UNCHANGED <<tx, confirmed, book>>
  BY FailView DEF SendRefused, At, chainVars

LEMMA BroadcastView ==
    ASSUME TypeOK, NEW i \in Steps, Broadcast(i)
    PROVE  /\ job.at = "send" /\ job.step = i /\ Feasible(i, job.amount)
           /\ steps[i].nonce >= confirmed[signerFor(i)]
           /\ tx' = [tx EXCEPT ![i][steps[i].attempts] =
                        [status |-> "pool", nonce |-> steps[i].nonce, amount |-> job.amount]]
           /\ UNCHANGED <<confirmed, book>>
           /\ \/ steps' = steps /\ job'.at = "record" /\ job'.step = i
              \/ /\ "lostResponse" \in Faults
                 /\ Becomes(i, "failed") /\ Keeps(i) /\ job'.at \in {"idle", "giveUp"}
  <1>1. /\ job.at = "send" /\ job.step = i /\ Feasible(i, job.amount)
        /\ steps[i].nonce >= confirmed[signerFor(i)]
        /\ tx' = [tx EXCEPT ![i][steps[i].attempts] =
                     [status |-> "pool", nonce |-> steps[i].nonce, amount |-> job.amount]]
        /\ UNCHANGED <<confirmed, book>>
    BY DEF Broadcast, At
  <1>2. CASE job' = [job EXCEPT !.at = "record"] /\ UNCHANGED docVars
    BY <1>1, <1>2, JobView DEF docVars
  <1>3. CASE "lostResponse" \in Faults /\ Fail(i)
    BY <1>1, <1>3, FailView
  <1> QED BY <1>2, <1>3 DEF Broadcast

LEMMA RecordView ==
    ASSUME TypeOK, NEW i \in Steps, RecordHash(i)
    PROVE  /\ job.at = "record" /\ job.step = i
           /\ Becomes(i, "sent") /\ steps'[i].txHash = steps[i].attempts
           /\ steps'[i].attempts = steps[i].attempts /\ steps'[i].skipped = steps[i].skipped
           /\ job'.at = "confirm" /\ job'.step = i /\ UNCHANGED <<tx, confirmed, book>>
  <1>1. /\ job.at = "record" /\ job.step = i
        /\ job'.at = "confirm" /\ job'.step = i /\ UNCHANGED <<tx, confirmed, book>>
    BY JobView DEF RecordHash, At, chainVars
  <1>2. steps' = [steps EXCEPT ![i].status = "sent", ![i].txHash = steps[i].attempts]
    BY DEF RecordHash
  <1> QED BY <1>1, <1>2, TypeParts DEF Becomes, Others, StepRecord

LEMMA ConfirmView ==
    ASSUME TypeOK, NEW i \in Steps, Confirm(i)
    PROVE  /\ job.at = "confirm" /\ job.step = i /\ UNCHANGED <<tx, confirmed, book>>
           /\ \/ /\ Confirmed(i) /\ steps' = steps
                 /\ job'.at = "settle" /\ job'.step = i
              \/ /\ Unconfirmed(i) /\ Becomes(i, "failed") /\ Keeps(i)
                 /\ job'.at \in {"idle", "giveUp"}
  <1>1. job.at = "confirm" /\ job.step = i /\ UNCHANGED <<tx, confirmed, book>>
    BY DEF Confirm, At, chainVars
  <1>2. CASE Confirmed(i) /\ job' = [job EXCEPT !.at = "settle"] /\ UNCHANGED docVars
    BY <1>1, <1>2, JobView DEF docVars
  <1>3. CASE Unconfirmed(i) /\ Fail(i)
    BY <1>1, <1>3, FailView
  <1> QED BY <1>2, <1>3 DEF Confirm

LEMMA SettleView ==
    ASSUME TypeOK, NEW i \in Steps, Settle(i)
    PROVE  /\ job.at = "settle" /\ job.step = i /\ UNCHANGED <<tx, confirmed, book>>
           /\ Keeps(i) /\ job'.at \in {"idle", "giveUp"}
           /\ Becomes(i, "done") \/ ("readFails" \in Faults /\ Becomes(i, "failed"))
  <1>1. job.at = "settle" /\ job.step = i /\ UNCHANGED <<tx, confirmed, book>>
    BY DEF Settle, At, chainVars
  <1>2. CASE /\ steps' = [steps EXCEPT ![i].status = "done", ![i].result = settled(i)]
             /\ job' = Idle
    BY <1>1, <1>2, IdleView, TypeParts DEF Becomes, Others, Keeps, StepRecord
  <1>3. CASE "readFails" \in Faults /\ Fail(i)
    BY <1>1, <1>3, FailView
  <1> QED BY <1>2, <1>3 DEF Settle

LEMMA ByHashView ==
    ASSUME TypeOK, NEW i \in Steps, ResolveByHash(i)
    PROVE  /\ job.at = "idle" /\ Current(i) /\ steps[i].status \in {"sending", "sent"}
           /\ steps[i].txHash # 0 /\ Keeps(i)
           /\ \/ Confirmed(i) /\ Becomes(i, "done")
              \/ Unconfirmed(i) /\ Becomes(i, "failed")
           /\ UNCHANGED <<job, tx, confirmed, book>>
  BY StatusView DEF ResolveByHash, InFlight, Ticking, chainVars

LEMMA ByNonceView ==
    ASSUME TypeOK, NEW i \in Steps, ResolveByNonce(i)
    PROVE  /\ job.at = "idle" /\ Current(i) /\ steps[i].status \in {"sending", "sent"}
           /\ steps[i].txHash = 0 /\ Keeps(i)
           /\ \/ ~NonceSpent(i) /\ Becomes(i, "pending")
              \/ NonceSpent(i) /\ Becomes(i, "needs-review")
           /\ job'.at \in {"idle", "giveUp"} /\ UNCHANGED <<tx, confirmed, book>>
  BY StatusView, IdleView DEF ResolveByNonce, InFlight, Ticking, chainVars

LEMMA StepShape ==
    ASSUME TypeOK, NEW i \in Steps, StepNext(i)
    PROVE  /\ Others(i) /\ job.at # "down" /\ confirmed' = confirmed
           /\ job.at \in {"record", "confirm"} => job.step = i
           /\ job'.at \in {"plan", "send"} => job'.step = i
           /\ \A k \in ChainSteps \ {i} : tx'[k] = tx[k]
  <1>1. CASE Broadcast(i)
    <2>1. \A k \in ChainSteps \ {i} : tx'[k] = tx[k]
      BY <1>1, BroadcastView, TypeParts
    <2> QED BY <1>1, <2>1, BroadcastView DEF Becomes, Others
  <1>2. CASE BeginStep(i) \/ Skip(i) \/ PinNonce(i) \/ SendRefused(i)
    BY <1>2, BeginView, SkipView, PinView, RefusedView DEF Becomes
  <1>3. CASE RecordHash(i) \/ Settle(i)
    BY <1>3, RecordView, SettleView DEF Becomes
  <1>4. CASE Confirm(i)
    BY <1>4, ConfirmView DEF Becomes, Others
  <1>5. CASE ResolveByHash(i) \/ ResolveByNonce(i)
    BY <1>5, ByHashView, ByNonceView DEF Becomes
  <1> QED BY <1>1, <1>2, <1>3, <1>4, <1>5 DEF StepNext

LEMMA OnlyBroadcastSends ==
    ASSUME TypeOK, NEW i \in Steps, StepNext(i), tx' # tx
    PROVE  Broadcast(i)
  BY BeginView, SkipView, PinView, RefusedView, RecordView, ConfirmView, SettleView, ByHashView,
     ByNonceView DEF StepNext

LEMMA OrderView ==
    ASSUME TypeOK
    PROVE  /\ OrderAccepted => /\ job.at = "plan" /\ job.step = openShort
                               /\ job'.at = "fill" /\ job'.step = openShort
                               /\ UNCHANGED <<steps, tx, confirmed>>
           /\ OrderFails => /\ job.at = "plan" /\ job.step = openShort
                            /\ Becomes(openShort, "failed") /\ Keeps(openShort)
                            /\ job'.at \in {"idle", "giveUp"} /\ UNCHANGED <<tx, confirmed>>
           /\ RecordShort => /\ job.at = "fill"
                             /\ Becomes(openShort, "done") /\ Keeps(openShort)
                             /\ job'.at = "idle" /\ UNCHANGED <<tx, confirmed, book>>
  <1>1. OrderAccepted => /\ job.at = "plan" /\ job.step = openShort
                         /\ job'.at = "fill" /\ job'.step = openShort
                         /\ UNCHANGED <<steps, tx, confirmed>>
    <2> SUFFICES ASSUME OrderAccepted
                 PROVE  /\ job.at = "plan" /\ job.step = openShort
                        /\ job'.at = "fill" /\ job'.step = openShort
                        /\ UNCHANGED <<steps, tx, confirmed>>
      OBVIOUS
    <2>1. job' = [job EXCEPT !.at = "fill"]
      BY DEF OrderAccepted
    <2> QED BY <2>1, JobView DEF OrderAccepted, Ordering, At, docVars
  <1>2. OrderFails => /\ job.at = "plan" /\ job.step = openShort
                      /\ Becomes(openShort, "failed") /\ Keeps(openShort)
                      /\ job'.at \in {"idle", "giveUp"} /\ UNCHANGED <<tx, confirmed>>
    BY FailView, StepNumbers DEF OrderFails, Ordering, At
  <1>3. RecordShort => /\ job.at = "fill"
                       /\ Becomes(openShort, "done") /\ Keeps(openShort)
                       /\ job'.at = "idle" /\ UNCHANGED <<tx, confirmed, book>>
    BY StatusView, IdleView, StepNumbers DEF RecordShort, At, chainVars
  <1> QED BY <1>1, <1>2, <1>3

(* The steps that leave the document's steps and all orders alone.         *)
Background ==
    \/ PlanFails \/ FinishFlow \/ GiveUp
    \/ MineNext \/ DropNext \/ ManualSend \/ Crash \/ Restart
    \/ UNCHANGED vars

LEMMA BackgroundView ==
    ASSUME TypeOK, Background
    PROVE  /\ steps' = steps /\ book'.short = book.short /\ book'.unfilled = book.unfilled
           /\ job' = job \/ job'.at \in {"idle", "down"}
           /\ \A i \in ChainSteps, a \in Attempts :
                 /\ tx'[i][a] # NoTx => tx[i][a] # NoTx
                 /\ tx[i][a].status = "mined" => tx'[i][a] = tx[i][a]
  <1>0. NoTx.status = "none"
    BY DEF NoTx
  <1>1. ASSUME NEW i \in ChainSteps, NEW a \in Attempts, Mine(i, a)
        PROVE  /\ steps' = steps /\ job' = job
               /\ book'.short = book.short /\ book'.unfilled = book.unfilled
               /\ \A k \in ChainSteps, b \in Attempts :
                     /\ tx'[k][b] # NoTx => tx[k][b] # NoTx
                     /\ tx[k][b].status = "mined" => tx'[k][b] = tx[k][b]
    <2>1. /\ steps' = steps /\ job' = job
          /\ book'.short = book.short /\ book'.unfilled = book.unfilled
      BY <1>1, MineTypes
    <2>2. tx[i][a].status = "pool"
      BY <1>1 DEF Mine, Live
    <2>3. PICK st : tx' = [tx EXCEPT ![i][a].status = st]
      BY <1>1 DEF Mine
    <2>4. \A k \in ChainSteps, b \in Attempts : <<k, b>> # <<i, a>> => tx'[k][b] = tx[k][b]
      BY <2>3, TypeParts
    <2> QED BY <2>1, <2>2, <2>4, <1>0
  <1>2. ASSUME NEW i \in ChainSteps, NEW a \in Attempts, Drop(i, a)
        PROVE  /\ steps' = steps /\ job' = job /\ book' = book
               /\ \A k \in ChainSteps, b \in Attempts :
                     /\ tx'[k][b] # NoTx => tx[k][b] # NoTx
                     /\ tx[k][b].status = "mined" => tx'[k][b] = tx[k][b]
    <2>1. steps' = steps /\ job' = job /\ book' = book
      BY <1>2 DEF Drop, docVars
    <2>2. tx[i][a].status = "pool"
      BY <1>2 DEF Drop, Live
    <2>3. tx' = [tx EXCEPT ![i][a].status = "dropped"]
      BY <1>2 DEF Drop
    <2>4. \A k \in ChainSteps, b \in Attempts : <<k, b>> # <<i, a>> => tx'[k][b] = tx[k][b]
      BY <2>3, TypeParts
    <2> QED BY <2>1, <2>2, <2>4, <1>0
  <1>3. CASE PlanFails \/ FinishFlow \/ GiveUp \/ ManualSend \/ Crash \/ Restart \/ UNCHANGED vars
    BY <1>3, IdleView DEF PlanFails, FinishFlow, GiveUp, ManualSend, Crash, Restart, vars,
       docVars, chainVars
  <1> QED BY <1>1, <1>2, <1>3 DEF Background, MineNext, DropNext

LEMMA NextIsOneOf ==
    [Next]_vars => \/ \E i \in Steps : StepNext(i)
                   \/ OrderAccepted \/ OrderFails \/ RecordShort
                   \/ Background
  BY DEF Next, WorkerNext, Background

-----------------------------------------------------------------------------
(***************************************************************************)
(* Order                                                                   *)
(***************************************************************************)
LEMMA CurrentIsFirst ==
    ASSUME NEW i \in Steps, Current(i)
    PROVE  steps[i].status # "done" /\ \A j \in 1 .. i - 1 : steps[j].status = "done"
  BY StepNumbers DEF Current, unfinished

LEMMA WorkedIsFirst ==
    ASSUME SeqInv, NEW i \in Steps, WorksOn(i)
    PROVE  steps[i].status # "done" /\ \A j \in 1 .. i - 1 : steps[j].status = "done"
  BY DEF SeqInv, OrderInv, Touched, WorksOn, JobInv, Working

(* A change of the first unfinished step, or of nothing, keeps the order.  *)
LEMMA OneStepMoves ==
    ASSUME SeqInv, NEW i \in Steps, Others(i),
           steps[i].status # "done", \A j \in 1 .. i - 1 : steps[j].status = "done",
           \A k \in Steps \ {i} : Exists(k)' => Exists(k),
           job'.at \in Working => job'.step = i
    PROVE  OrderInv'
  <1> SUFFICES ASSUME NEW k \in Steps, Touched(k)', NEW j \in 1 .. k - 1
               PROVE  steps'[j].status = "done"
    BY DEF OrderInv
  <1>1. j \in Steps /\ i \in Int /\ k \in Int /\ j \in Int
    BY StepNumbers
  <1>2. k <= i
    <2>1. SUFFICES ASSUME k > i PROVE FALSE
      BY <1>1
    <2>2. steps'[k] = steps[k] /\ ~WorksOn(k)'
      BY <2>1, <1>1 DEF Others, WorksOn
    <2>3. Touched(k)
      BY <2>1, <2>2, <1>1 DEF Touched
    <2>4. i \in 1 .. k - 1
      BY <2>1, <1>1, StepNumbers
    <2> QED BY <2>3, <2>4 DEF SeqInv, OrderInv
  <1>3. j \in 1 .. i - 1 /\ j # i
    BY <1>1, <1>2
  <1> QED BY <1>1, <1>3 DEF Others

LEMMA NothingMoves ==
    ASSUME SeqInv, steps' = steps,
           \A k \in Steps : Exists(k)' => Exists(k),
           job' = job \/ job'.at \notin Working
    PROVE  OrderInv' /\ JobInv'
  <1>1. \A k \in Steps : Touched(k)' => Touched(k)
    BY DEF Touched, WorksOn
  <1>2. OrderInv'
    BY <1>1 DEF SeqInv, OrderInv
  <1>3. JobInv'
    BY DEF SeqInv, JobInv, Working
  <1> QED BY <1>2, <1>3

LEMMA StepKeepsSeqInv ==
    ASSUME SeqInv, NEW i \in Steps, StepNext(i)
    PROVE  SeqInv'
  <1>0. TypeOK /\ JobInv
    BY DEF SeqInv
  <1>t. TypeOK'
    BY <1>0, StepNextTypes
  <1>a. \A k \in Steps : tx' = tx /\ book' = book => (Exists(k)' => Exists(k))
    BY DEF Exists
  <1>w. WorksOn(i) <=> job.at \in Working /\ job.step = i
    BY DEF WorksOn
  <1>1. CASE BeginStep(i)
    BY <1>1, <1>0, <1>t, <1>a, BeginView, CurrentIsFirst, OneStepMoves
    DEF SeqInv, JobInv, Becomes, Working
  <1>2. CASE Skip(i)
    BY <1>2, <1>0, <1>t, <1>a, <1>w, SkipView, WorkedIsFirst, OneStepMoves
    DEF SeqInv, JobInv, Becomes, Working
  <1>3. CASE ResolveByHash(i)
    BY <1>3, <1>0, <1>t, <1>a, ByHashView, CurrentIsFirst, OneStepMoves
    DEF SeqInv, JobInv, Becomes, Working
  <1>4. CASE ResolveByNonce(i)
    BY <1>4, <1>0, <1>t, <1>a, ByNonceView, CurrentIsFirst, OneStepMoves
    DEF SeqInv, JobInv, Becomes, Working
  <1>5. CASE PinNonce(i)
    BY <1>5, <1>0, <1>t, <1>a, <1>w, PinView, WorkedIsFirst, OneStepMoves
    DEF SeqInv, JobInv, Becomes, Working
  <1>6. CASE SendRefused(i)
    BY <1>6, <1>0, <1>t, <1>a, <1>w, RefusedView, WorkedIsFirst, OneStepMoves
    DEF SeqInv, JobInv, Becomes, Working
  <1>7. CASE Broadcast(i)
    <2>1. /\ job.at = "send" /\ job.step = i /\ i \in ChainSteps /\ book' = book
          /\ tx' = [tx EXCEPT ![i][steps[i].attempts] =
                       [status |-> "pool", nonce |-> steps[i].nonce, amount |-> job.amount]]
      BY <1>7, <1>0, BroadcastView DEF JobInv
    <2>2. \A k \in ChainSteps \ {i} : tx'[k] = tx[k]
      BY <2>1, <1>0, TypeParts
    <2>3. \A k \in Steps \ {i} : Exists(k)' => Exists(k)
      BY <2>1, <2>2, StepNumbers DEF Exists
    <2>4. Others(i)
      BY <1>7, <1>0, BroadcastView DEF Becomes, Others
    <2>5. steps[i].status # "done" /\ \A j \in 1 .. i - 1 : steps[j].status = "done"
      BY <2>1, <1>w, WorkedIsFirst DEF Working
    <2>6. OrderInv'
      BY <1>7, <1>0, <2>1, <2>3, <2>4, <2>5, BroadcastView, OneStepMoves DEF Working
    <2>7. JobInv'
      BY <1>7, <1>0, <2>1, BroadcastView DEF JobInv
    <2> QED BY <2>6, <2>7, <1>t DEF SeqInv
  <1>8. CASE RecordHash(i)
    BY <1>8, <1>0, <1>t, <1>a, <1>w, RecordView, WorkedIsFirst, OneStepMoves
    DEF SeqInv, JobInv, Becomes, Working
  <1>9. CASE Confirm(i)
    <2>1. /\ job.at = "confirm" /\ job.step = i /\ tx' = tx /\ book' = book
          /\ Others(i) /\ (job'.at \in Working => job'.step = i)
      BY <1>9, <1>0, ConfirmView DEF Becomes, Others, Working
    <2>2. OrderInv'
      BY <2>1, <1>a, <1>w, WorkedIsFirst, OneStepMoves DEF Working
    <2>3. JobInv'
      BY <1>9, <1>0, <2>1, ConfirmView DEF JobInv
    <2> QED BY <2>2, <2>3, <1>t DEF SeqInv
  <1>10. CASE Settle(i)
    <2>1. /\ job.at = "settle" /\ job.step = i /\ tx' = tx /\ book' = book
          /\ Others(i) /\ job'.at \in {"idle", "giveUp"}
      BY <1>10, <1>0, SettleView DEF Becomes
    <2>2. OrderInv'
      BY <2>1, <1>a, <1>w, WorkedIsFirst, OneStepMoves DEF Working
    <2>3. JobInv'
      BY <2>1 DEF JobInv
    <2> QED BY <2>2, <2>3, <1>t DEF SeqInv
  <1> QED
    BY <1>1, <1>2, <1>3, <1>4, <1>5, <1>6, <1>7, <1>8, <1>9, <1>10 DEF StepNext

LEMMA OrderKeepsSeqInv ==
    ASSUME SeqInv, OrderAccepted \/ OrderFails \/ RecordShort
    PROVE  JobInv' /\ OrderInv'
  <1>0. TypeOK /\ JobInv /\ openShort \in Steps
    BY StepNumbers DEF SeqInv
  <1>1. /\ job.at \in Working /\ job.step = openShort
        /\ steps[openShort].status = "pending"
        /\ tx' = tx /\ Others(openShort)
        /\ job'.at \in {"fill", "idle", "giveUp"}
        /\ job'.at = "fill" => job'.step = openShort /\ steps'[openShort].status = "pending"
    BY <1>0, OrderView DEF JobInv, Becomes, Others, Working
  <1>2. \A k \in Steps \ {openShort} : Exists(k)' => Exists(k)
    BY <1>1 DEF Exists
  <1>3. OrderInv'
    BY <1>0, <1>1, <1>2, WorkedIsFirst, OneStepMoves DEF WorksOn, Working
  <1>4. JobInv'
    BY <1>1 DEF JobInv
  <1> QED BY <1>3, <1>4

LEMMA SeqInvInit == Init => SeqInv
  <1> SUFFICES ASSUME Init PROVE SeqInv
    OBVIOUS
  <1>1. TypeOK
    BY InitTypes
  <1>2. JobInv
    BY DEF Init, Idle, JobInv
  <1>3. \A k \in Steps : ~Touched(k)
    <2>1. book.short = 0 /\ book.unfilled = 0 /\ job.at = "idle" /\ \A k \in Steps : steps[k].status = "pending"
      BY DEF Init, Idle
    <2>2. \A k \in ChainSteps, a \in Attempts : tx[k][a] = NoTx
      BY DEF Init
    <2> QED BY <2>1, <2>2, StepNumbers DEF Touched, Exists, WorksOn, Working
  <1> QED BY <1>1, <1>2, <1>3 DEF SeqInv, OrderInv

LEMMA SeqInvNext == SeqInv /\ [Next]_vars => SeqInv'
  <1> SUFFICES ASSUME SeqInv, [Next]_vars PROVE SeqInv'
    OBVIOUS
  <1>0. TypeOK /\ TypeOK'
    BY NextTypes DEF SeqInv
  <1>1. ASSUME NEW i \in Steps, StepNext(i) PROVE SeqInv'
    BY <1>1, StepKeepsSeqInv
  <1>2. CASE OrderAccepted \/ OrderFails \/ RecordShort
    BY <1>2, <1>0, OrderKeepsSeqInv DEF SeqInv
  <1>3. CASE Background
    <2>1. \A k \in Steps : Exists(k)' => Exists(k)
      BY <1>3, <1>0, BackgroundView, StepNumbers DEF Exists
    <2> QED BY <1>3, <1>0, <2>1, BackgroundView, NothingMoves DEF SeqInv, Working
  <1> QED BY <1>1, <1>2, <1>3, NextIsOneOf

(* Whatever fails, times out or crashes, the worker's memory agrees with   *)
(* the document, and nothing of a step begins before those ahead are done. *)
THEOREM WorkerInOrder == Spec => []SeqInv
  <1> QED BY SeqInvInit, SeqInvNext, PTL DEF Spec

(* flowEngine.ts 26: steps run strictly in order.                          *)
THEOREM StepsRunInOrder == Spec => []StepsInOrder
  <1>1. SeqInv => StepsInOrder
    BY StepNumbers DEF SeqInv, OrderInv, Touched, Exists, StepsInOrder
  <1> QED BY <1>1, WorkerInOrder, PTL

-----------------------------------------------------------------------------
(***************************************************************************)
(* Done is done                                                            *)
(***************************************************************************)
LEMMA DoneFrame ==
    ASSUME TypeOK, TypeOK', DoneIsDone, NEW i \in Steps, Others(i),
           \A k \in ChainSteps, a \in Attempts :
               tx[k][a].status = "mined" => tx'[k][a].status = "mined",
           i \in ChainSteps /\ steps'[i].status = "done" /\ ~steps'[i].skipped
               => \E a \in Attempts : tx[i][a].status = "mined"
    PROVE  DoneIsDone'
  <1> SUFFICES ASSUME NEW k \in ChainSteps, steps'[k].status = "done", ~steps'[k].skipped
               PROVE  \E a \in Attempts : tx'[k][a].status = "mined"
    BY DEF DoneIsDone, Executed
  <1>1. CASE k = i
    BY <1>1
  <1>2. CASE k # i
    <2>1. k \in Steps /\ steps'[k] = steps[k]
      BY <1>2, StepNumbers DEF Others
    <2> QED BY <2>1 DEF DoneIsDone, Executed
  <1> QED BY <1>1, <1>2

LEMMA HashIsAttempt ==
    ASSUME TypeOK, NEW i \in Steps
    PROVE  /\ steps[i].txHash # 0 => steps[i].txHash \in Attempts
           /\ steps[i].attempts > 0 => steps[i].attempts \in Attempts
           /\ steps[i].attempts \in Nat
  BY TypeParts, Bounds DEF StepRecord, Attempts

LEMMA StepKeepsDoneInv ==
    ASSUME DoneInv, NEW i \in Steps, StepNext(i)
    PROVE  DoneInv'
  <1>0. TypeOK /\ JobInv /\ HashInv /\ DoneIsDone /\ SeqInv'
    BY StepKeepsSeqInv DEF DoneInv, SeqInv
  <1>t. TypeOK'
    BY <1>0 DEF SeqInv
  <1>f. ASSUME Others(i), tx' = tx,
               i \in ChainSteps /\ steps'[i].status = "done" /\ ~steps'[i].skipped
                   => \E a \in Attempts : tx[i][a].status = "mined"
        PROVE  DoneIsDone'
    BY <1>f, <1>0, <1>t, DoneFrame
  <1>1. CASE BeginStep(i)
    <2>1. DoneIsDone'
      BY <1>1, <1>0, <1>f, BeginView DEF Becomes
    <2>2. HashInv'
      BY <1>1, <1>0, BeginView, HashIsAttempt DEF HashInv, Working
    <2> QED BY <1>0, <2>1, <2>2 DEF DoneInv
  <1>2. CASE Skip(i)
    BY <1>2, <1>0, <1>f, SkipView DEF DoneInv, Becomes, HashInv, Working
  <1>3. CASE ResolveByHash(i)
    <2>1. DoneIsDone'
      BY <1>3, <1>0, <1>f, ByHashView, HashIsAttempt DEF Becomes, Confirmed
    <2> QED BY <1>3, <1>0, <2>1, ByHashView DEF DoneInv, HashInv, Working
  <1>4. CASE ResolveByNonce(i)
    BY <1>4, <1>0, <1>f, ByNonceView DEF DoneInv, Becomes, HashInv, Working
  <1>5. CASE PinNonce(i)
    <2>1. DoneIsDone'
      BY <1>5, <1>0, <1>f, PinView DEF Becomes
    <2>2. HashInv'
      BY <1>5, <1>0, PinView DEF HashInv, Working
    <2> QED BY <1>0, <2>1, <2>2 DEF DoneInv
  <1>6. CASE SendRefused(i)
    BY <1>6, <1>0, <1>f, RefusedView DEF DoneInv, Becomes, HashInv, Working
  <1>7. CASE Broadcast(i)
    <2>1. /\ job.step = i /\ steps[i].status = "sending" /\ i \in ChainSteps
          /\ steps[i].attempts \in Attempts /\ Others(i) /\ steps'[i].status # "done"
      BY <1>7, <1>0, BroadcastView, HashIsAttempt DEF JobInv, HashInv, Working, Becomes, Others
    <2>2. steps'[i].attempts > 0
      BY <1>7, <1>0, BroadcastView DEF HashInv, Working, Keeps
    <2>3. HashInv'
      BY <1>7, <1>0, <2>2, BroadcastView DEF HashInv, Working
    (* A transaction may be replaced, but only on a step that is not done. *)
    <2>4. ASSUME NEW k \in ChainSteps, steps'[k].status = "done", ~steps'[k].skipped
          PROVE  \E a \in Attempts : tx'[k][a].status = "mined"
      <3>1. k # i /\ k \in Steps /\ steps'[k] = steps[k]
        BY <2>1, <2>4, StepNumbers DEF Others
      <3>2. tx'[k] = tx[k]
        BY <1>7, <1>0, <3>1, BroadcastView, TypeParts
      <3> QED BY <1>0, <2>4, <3>1, <3>2 DEF DoneIsDone, Executed
    <2>5. DoneIsDone'
      BY <2>4 DEF DoneIsDone, Executed
    <2> QED BY <1>0, <2>3, <2>5 DEF DoneInv
  <1>8. CASE RecordHash(i)
    <2>1. DoneIsDone'
      BY <1>8, <1>0, <1>f, RecordView DEF Becomes
    <2>2. steps[i].attempts > 0
      BY <1>8, <1>0, RecordView DEF HashInv, Working
    <2>3. HashInv'
      BY <1>8, <1>0, <2>2, RecordView DEF HashInv, Working
    <2> QED BY <1>0, <2>1, <2>3 DEF DoneInv
  <1>9. CASE Confirm(i)
    <2>1. Others(i) /\ tx' = tx /\ steps'[i].status # "done"
      BY <1>9, <1>0, ConfirmView DEF Becomes, Others, JobInv
    <2>2. DoneIsDone'
      BY <2>1, <1>f
    <2>3. HashInv'
      BY <1>9, <1>0, ConfirmView DEF HashInv, Working, Confirmed
    <2> QED BY <1>0, <2>2, <2>3 DEF DoneInv
  <1>10. CASE Settle(i)
    <2>1. Others(i) /\ tx' = tx /\ job.at = "settle" /\ job.step = i
          /\ job'.at \in {"idle", "giveUp"}
      BY <1>10, <1>0, SettleView DEF Becomes
    <2>2. steps[i].txHash \in Attempts /\ tx[i][steps[i].txHash].status = "mined"
      BY <2>1, <1>0, HashIsAttempt DEF HashInv, Confirmed
    <2>3. DoneIsDone'
      BY <2>1, <2>2, <1>f
    <2>4. HashInv'
      BY <2>1 DEF HashInv, Working
    <2> QED BY <1>0, <2>3, <2>4 DEF DoneInv
  <1> QED
    BY <1>1, <1>2, <1>3, <1>4, <1>5, <1>6, <1>7, <1>8, <1>9, <1>10 DEF StepNext

LEMMA DoneInvNext == DoneInv /\ [Next]_vars => DoneInv'
  <1> SUFFICES ASSUME DoneInv, [Next]_vars PROVE DoneInv'
    OBVIOUS
  <1>0. /\ SeqInv /\ TypeOK /\ JobInv /\ HashInv /\ DoneIsDone
        /\ SeqInv' /\ TypeOK' /\ openShort \in Steps /\ openShort \notin ChainSteps
    BY SeqInvNext, StepNumbers DEF DoneInv, SeqInv
  <1>1. ASSUME NEW i \in Steps, StepNext(i) PROVE DoneInv'
    BY <1>1, StepKeepsDoneInv
  <1>2. CASE OrderAccepted \/ OrderFails \/ RecordShort
    <2>1. /\ Others(openShort) /\ tx' = tx
          /\ job'.at \in {"fill", "idle", "giveUp"}
          /\ job'.at = "fill" => /\ job.at = "plan" /\ job.step = openShort
                                 /\ job'.step = openShort /\ steps' = steps
      BY <1>2, <1>0, OrderView DEF Becomes, Others
    <2>2. DoneIsDone'
      BY <1>0, <2>1, DoneFrame
    <2>3. HashInv'
      BY <1>0, <2>1 DEF HashInv, Working
    <2> QED BY <1>0, <2>2, <2>3 DEF DoneInv
  <1>3. CASE Background
    <2>1. /\ steps' = steps
          /\ job' = job \/ job'.at \in {"idle", "down"}
          /\ \A k \in ChainSteps, a \in Attempts :
                tx[k][a].status = "mined" => tx'[k][a].status = "mined"
      BY <1>3, <1>0, BackgroundView
    <2>2. DoneIsDone'
      BY <1>0, <2>1, DoneFrame DEF Others
    <2>3. HashInv'
      <3>1. CASE job' = job
        <4>1. job.at = "settle" => /\ job.step \in ChainSteps
                                   /\ steps[job.step].txHash \in Attempts
          BY <1>0, HashIsAttempt, StepNumbers DEF JobInv, HashInv
        <4> QED BY <1>0, <2>1, <3>1, <4>1 DEF HashInv, Confirmed
      <3>2. CASE job'.at \in {"idle", "down"}
        BY <3>2 DEF HashInv, Working
      <3> QED BY <2>1, <3>1, <3>2
    <2> QED BY <1>0, <2>2, <2>3 DEF DoneInv
  <1> QED BY <1>1, <1>2, <1>3, NextIsOneOf

LEMMA DoneInvInit == Init => DoneInv
  <1> SUFFICES ASSUME Init PROVE DoneInv
    OBVIOUS
  <1>1. job.at = "idle" /\ \A k \in Steps : steps[k].status = "pending"
    BY DEF Init, Idle
  <1> QED BY <1>1, SeqInvInit, StepNumbers DEF DoneInv, HashInv, Working, DoneIsDone

(* What the document calls done, and not skipped, was mined: the           *)
(* transaction of one of its attempts, for any faults (flowEngine.ts 229,  *)
(* 344-348).  The receipt is that of the hash it was asked for.            *)
THEOREM DoneMeansMined == Spec => []DoneIsDone
  <1>1. DoneInv => DoneIsDone
    BY DEF DoneInv
  <1> QED BY <1>1, DoneInvInit, DoneInvNext, PTL DEF Spec

-----------------------------------------------------------------------------
(***************************************************************************)
(* Allocated and hedged                                                    *)
(*                                                                         *)
(* While no step was executed twice, every transaction moves the share of  *)
(* the run that is meant for it, so that the book is what was moved, and a *)
(* result that was read back is that share.  No fault is excluded.         *)
(***************************************************************************)
Carrying == job.at \in {"send", "record", "confirm", "settle"}

(* An attempt broadcasts after it was counted, and once.                   *)
AttemptInv ==
    /\ \A i \in ChainSteps, a \in Attempts : tx[i][a] # NoTx =>
          a <= steps[i].attempts /\ ~(job.at \in {"plan", "send"} /\ job.step = i /\ a = steps[i].attempts)
    /\ job.at \in {"confirm", "settle"} => steps[job.step].txHash = steps[job.step].attempts

(* What a step is planned from, and what it means that one was skipped.    *)
Begun(i) == (Carrying /\ job.step = i) \/ \E a \in Attempts : tx[i][a] # NoTx

SourceInv ==
    /\ \A i \in Steps : steps[i].skipped => steps[i].status = "done"
    /\ Begun(stake) => steps[swapUsdcForMon].result # 0
    /\ Begun(fundPerpManager) => steps[swapUsdcForAusd].result # 0
    /\ steps[fundPerpManager].skipped => steps[swapUsdcForAusd].result = 0

(* The order of a first attempt is placed once, for what was staked,       *)
(* whatever the chain makes of it.                                         *)
ShortInv ==
    /\ steps[openShort].status \notin {"sending", "sent"}
    /\ steps[openShort].attempts = 0 => book.short + book.unfilled = 0
    /\ steps[openShort].attempts = 1 =>
          /\ job.at = "plan" /\ job.step = openShort => book.short + book.unfilled = 0
          /\ job.at = "fill" \/ steps[openShort].status = "done" =>
                book.short + book.unfilled = steps[stake].result

Moving == ChainSteps \ {approvePerplCollateral}

Share(i) == IF i \in {swapUsdcForMon, stake} THEN MonShare ELSE AusdShare

Moved(i) == IF Executed(i) = {} THEN 0 ELSE Share(i)

SharesRight ==
    /\ \A i \in Moving, a \in Attempts : tx[i][a] # NoTx => tx[i][a].amount = Share(i)
    /\ Carrying /\ job.step \in Moving => job.amount = Share(job.step)

BookRight ==
    /\ book.mon = SpareMon + Moved(swapUsdcForMon) - Moved(stake)
    /\ book.ausd = Moved(swapUsdcForAusd) - Moved(fundPerpManager)
    /\ book.staked = Moved(stake)
    /\ book.held = Moved(fundPerpManager) - Moved(depositToPerpl)
    /\ book.collateral = Moved(depositToPerpl)
    /\ steps[depositToPerpl].skipped => book.held = 0

(* The balance read before a swap is the one without it, unless an earlier *)
(* attempt was mined after all.                                            *)
BeforeRight ==
    Carrying /\ Executed(job.step) \subseteq {steps[job.step].attempts} =>
        /\ job.step = swapUsdcForMon => job.before = SpareMon
        /\ job.step = swapUsdcForAusd => job.before = 0

ResultsRight ==
    /\ \A i \in {swapUsdcForMon, swapUsdcForAusd, stake} : steps[i].result # 0 => steps[i].result = Share(i)
    /\ steps[stake].result # 0 => Executed(stake) # {}

(* The sums, as long as nothing was executed twice.                        *)
SumsRight == SharesRight /\ BookRight /\ BeforeRight /\ ResultsRight

EndInv == flow = "done" => \A i \in Steps : steps[i].status = "done"

AllocInv ==
    /\ DoneInv /\ EndInv /\ AttemptInv /\ SourceInv /\ ShortInv
    /\ AtMostOnce => SumsRight

(* The steps by name.                                                      *)
LEMMA MovingSteps ==
    /\ Moving = {1, 2, 3, 4, 6} /\ Moving \subseteq ChainSteps /\ ChainSteps \subseteq Steps
    /\ swapUsdcForMon = 1 /\ swapUsdcForAusd = 2 /\ stake = 3 /\ fundPerpManager = 4
    /\ approvePerplCollateral = 5 /\ depositToPerpl = 6 /\ openShort = 7
    /\ Share(1) = MonShare /\ Share(2) = AusdShare /\ Share(3) = MonShare
    /\ Share(4) = AusdShare /\ Share(6) = AusdShare
  BY DEF Moving, ChainSteps, Steps, Share, swapUsdcForMon, swapUsdcForAusd, stake, fundPerpManager,
         approvePerplCollateral, depositToPerpl, openShort

(* The worker only touches the first step that is not done.                *)
LEMMA FirstStep ==
    ASSUME SeqInv, NEW i \in Steps, StepNext(i)
    PROVE  steps[i].status # "done" /\ \A j \in 1 .. i - 1 : steps[j].status = "done"
  <1>1. TypeOK
    BY DEF SeqInv
  <1>2. Current(i) \/ WorksOn(i)
    BY <1>1, BeginView, SkipView, PinView, RefusedView, BroadcastView, RecordView, ConfirmView, SettleView,
       ByHashView, ByNonceView DEF StepNext, WorksOn, Working
  <1> QED BY <1>2, CurrentIsFirst, WorkedIsFirst

(* What of a step has begun, began after the steps ahead of it were done.  *)
LEMMA BegunIsTouched ==
    ASSUME SeqInv, NEW i \in ChainSteps, Begun(i) \/ steps[i].status = "done"
    PROVE  \A j \in 1 .. i - 1 : steps[j].status = "done"
  <1>1. Touched(i)
    BY StepNumbers DEF Touched, Exists, WorksOn, Working, Begun, Carrying
  <1> QED BY <1>1, StepNumbers DEF SeqInv, OrderInv

(* What the worker writes besides a step's status.                         *)
LEMMA CarriedView ==
    ASSUME TypeOK, NEW i \in Steps, StepNext(i), Carrying'
    PROVE  /\ job'.step = i
           /\ \/ PinNonce(i) /\ job'.amount = planned(i) /\ job'.before = balanceBefore(i)
              \/ /\ Carrying /\ job.step = i /\ job'.amount = job.amount /\ job'.before = job.before
                 /\ steps'[i].attempts = steps[i].attempts
  <1>1. CASE PinNonce(i)
    <2>1. job' = [job EXCEPT !.at = "send", !.amount = planned(i), !.before = balanceBefore(i)]
      BY <1>1 DEF PinNonce
    <2> QED BY <1>1, <2>1, PinView, TypeParts DEF JobRecord
  <1>2. ASSUME NEW p, job' = [job EXCEPT !.at = p]
        PROVE  job'.step = job.step /\ job'.amount = job.amount /\ job'.before = job.before
    BY <1>2, TypeParts DEF JobRecord
  <1>3. CASE Broadcast(i)
    <2>1. job' = [job EXCEPT !.at = "record"]
      BY <1>3, FailView DEF Broadcast, Carrying
    <2> QED BY <1>2, <1>3, <2>1, BroadcastView DEF Carrying, Keeps
  <1>4. CASE RecordHash(i)
    <2>1. job' = [job EXCEPT !.at = "confirm"]
      BY <1>4 DEF RecordHash
    <2> QED BY <1>2, <1>4, <2>1, RecordView DEF Carrying
  <1>5. CASE Confirm(i)
    <2>1. job' = [job EXCEPT !.at = "settle"]
      BY <1>5, FailView DEF Confirm, Carrying
    <2> QED BY <1>2, <1>5, <2>1, ConfirmView DEF Carrying, Keeps
  <1>6. CASE BeginStep(i) \/ Skip(i) \/ SendRefused(i) \/ Settle(i) \/ ResolveByHash(i) \/ ResolveByNonce(i)
    BY <1>6, BeginView, SkipView, RefusedView, SettleView, ByHashView, ByNonceView DEF Carrying
  <1> QED BY <1>1, <1>3, <1>4, <1>5, <1>6 DEF StepNext

LEMMA ResultView ==
    ASSUME TypeOK, NEW i \in Steps, StepNext(i)
    PROVE  /\ book' = book
           /\ steps'[i].result = steps[i].result \/ (Settle(i) /\ steps'[i].result = settled(i))
  <1>1. steps \in [Steps -> StepRecord]
    BY TypeParts
  <1>2. ASSUME NEW st, steps' = [steps EXCEPT ![i].status = st] PROVE steps'[i].result = steps[i].result
    BY <1>1, <1>2 DEF StepRecord
  <1>3. Fail(i) => steps'[i].result = steps[i].result
    BY <1>2 DEF Fail
  <1>4. CASE BeginStep(i)
    <2>1. steps' = [steps EXCEPT ![i].status = "pending", ![i].attempts = @ + 1]
      BY <1>4 DEF BeginStep
    <2> QED BY <1>1, <1>4, <2>1, BeginView DEF StepRecord
  <1>5. CASE Skip(i)
    <2>1. steps' = [steps EXCEPT ![i].status = "done", ![i].skipped = TRUE]
      BY <1>5 DEF Skip
    <2>2. steps'[i].result = steps[i].result
      BY <1>1, <2>1 DEF StepRecord
    <2> QED BY <1>5, <2>2, SkipView
  <1>6. CASE PinNonce(i)
    <2>1. PICK n : steps' = [steps EXCEPT ![i].status = "sending", ![i].nonce = n]
      BY <1>6 DEF PinNonce
    <2> QED BY <1>1, <1>6, <2>1, PinView DEF StepRecord
  <1>7. CASE SendRefused(i)
    BY <1>3, <1>7, RefusedView DEF SendRefused
  <1>8. CASE Broadcast(i)
    BY <1>3, <1>8, BroadcastView DEF Broadcast, docVars
  <1>9. CASE RecordHash(i)
    <2>1. steps' = [steps EXCEPT ![i].status = "sent", ![i].txHash = steps[i].attempts]
      BY <1>9 DEF RecordHash
    <2> QED BY <1>1, <1>9, <2>1, RecordView DEF StepRecord
  <1>10. CASE Confirm(i)
    BY <1>3, <1>10, ConfirmView DEF Confirm, docVars
  <1>11. CASE Settle(i)
    <2>1. CASE steps' = [steps EXCEPT ![i].status = "done", ![i].result = settled(i)]
      BY <1>1, <1>11, <2>1, SettleView DEF StepRecord
    <2> QED BY <1>3, <1>11, <2>1, SettleView DEF Settle
  <1>12. CASE ResolveByHash(i) \/ ResolveByNonce(i)
    BY <1>2, <1>12, ByHashView, ByNonceView DEF ResolveByHash, ResolveByNonce
  <1> QED BY <1>4, <1>5, <1>6, <1>7, <1>8, <1>9, <1>10, <1>11, <1>12 DEF StepNext

(* A broadcast puts one transaction where there was none.                  *)
LEMMA SentView ==
    ASSUME SeqInv, AttemptInv, NEW i \in Steps, StepNext(i),
           NEW k \in ChainSteps, NEW a \in Attempts, tx'[k][a] # tx[k][a]
    PROVE  /\ Broadcast(i) /\ k = i /\ a = steps[i].attempts /\ tx[k][a] = NoTx
           /\ tx'[k][a].status = "pool" /\ tx'[k][a].amount = job.amount
  <1>1. TypeOK
    BY DEF SeqInv
  <1>2. Broadcast(i)
    BY <1>1, OnlyBroadcastSends
  <1>3. /\ job.at = "send" /\ job.step = i
        /\ tx' = [tx EXCEPT ![i][steps[i].attempts] =
                     [status |-> "pool", nonce |-> steps[i].nonce, amount |-> job.amount]]
    BY <1>1, <1>2, BroadcastView
  <1>4. k = i /\ a = steps[i].attempts
    BY <1>1, <1>3, TypeParts
  <1> QED BY <1>1, <1>2, <1>3, <1>4, TypeParts DEF AttemptInv

(* What was moved stays as it is while nothing is mined.                   *)
LEMMA NothingMined ==
    ASSUME \A k \in ChainSteps, a \in Attempts : tx'[k][a].status = "mined" <=> tx[k][a].status = "mined"
    PROVE  /\ \A k \in ChainSteps : Executed(k)' = Executed(k) /\ Moved(k)' = Moved(k)
           /\ AtMostOnce' <=> AtMostOnce
  <1>1. \A k \in ChainSteps : Executed(k)' = Executed(k)
    BY DEF Executed
  <1> QED BY <1>1 DEF Moved, AtMostOnce, OnlyOnce

LEMMA WorkerMinesNothing ==
    ASSUME SeqInv, AttemptInv, NEW i \in Steps, StepNext(i)
    PROVE  /\ \A k \in ChainSteps : Executed(k)' = Executed(k) /\ Moved(k)' = Moved(k)
           /\ AtMostOnce' <=> AtMostOnce
  <1>1. ASSUME NEW k \in ChainSteps, NEW a \in Attempts
        PROVE  tx'[k][a].status = "mined" <=> tx[k][a].status = "mined"
    <2>1. CASE tx'[k][a] = tx[k][a]
      BY <2>1
    <2>2. CASE tx'[k][a] # tx[k][a]
      BY <2>2, SentView DEF NoTx
    <2> QED BY <2>1, <2>2
  <1> QED BY <1>1, NothingMined

LEMMA MovedType ==
    ASSUME NEW i \in ChainSteps
    PROVE  /\ Moved(i) \in {0, Share(i)} /\ Share(i) \in Nat
           /\ Executed(i) = {} => Moved(i) = 0
           /\ Executed(i) # {} => Moved(i) = Share(i)
  BY Bounds DEF Moved, Share

(* Part by part, for a step of the worker.                                 *)
LEMMA StepKeepsAttempts ==
    ASSUME DoneInv, AttemptInv, NEW i \in Steps, StepNext(i)
    PROVE  AttemptInv'
  <1>0. TypeOK /\ SeqInv /\ \A k \in Steps : steps[k].attempts \in Nat
    BY HashIsAttempt DEF DoneInv, SeqInv
  <1>1. /\ Others(i) /\ steps'[i].attempts >= steps[i].attempts
        /\ job'.at \in {"plan", "send"} =>
              /\ job'.step = i
              /\ steps'[i].attempts > steps[i].attempts \/ (job.at = "plan" /\ job.step = i)
        /\ job'.at \in {"confirm", "settle"} => steps'[job'.step].txHash = steps'[job'.step].attempts
    <2>0. steps[i].attempts \in Nat
      BY <1>0
    <2>1. CASE BeginStep(i)
      <3>1. Others(i) /\ steps'[i].attempts = steps[i].attempts + 1 /\ job'.at = "plan" /\ job'.step = i
        BY <1>0, <2>1, BeginView DEF Becomes
      <3> QED BY <2>0, <3>1
    <2>2. CASE Skip(i) \/ SendRefused(i)
      <3>1. Others(i) /\ steps'[i].attempts = steps[i].attempts
            /\ job'.at \notin {"plan", "send", "confirm", "settle"}
        BY <1>0, <2>2, SkipView, RefusedView DEF Becomes, Keeps
      <3> QED BY <2>0, <3>1
    <2>6. CASE PinNonce(i)
      BY <1>0, <2>0, <2>6, PinView DEF Becomes
    <2>7. CASE Broadcast(i)
      <3>1. Others(i) /\ steps'[i].attempts = steps[i].attempts
            /\ job'.at \notin {"plan", "send", "confirm", "settle"}
        BY <1>0, <2>7, BroadcastView DEF Becomes, Keeps, Others
      <3> QED BY <2>0, <3>1
    <2>3. CASE RecordHash(i) \/ Settle(i)
      BY <1>0, <2>3, RecordView, SettleView DEF Becomes, Keeps
    <2>4. CASE Confirm(i)
      BY <1>0, <2>4, ConfirmView DEF Becomes, Keeps, Others, AttemptInv
    <2>5. CASE ResolveByHash(i) \/ ResolveByNonce(i)
      BY <1>0, <2>5, ByHashView, ByNonceView DEF Becomes, Keeps
    <2> QED BY <2>1, <2>2, <2>3, <2>4, <2>5, <2>6, <2>7 DEF StepNext
  <1>2. ASSUME NEW k \in ChainSteps, NEW a \in Attempts, tx'[k][a] # NoTx
        PROVE  a <= steps'[k].attempts
               /\ ~(job'.at \in {"plan", "send"} /\ job'.step = k /\ a = steps'[k].attempts)
    <2>0. k \in Steps /\ a \in Nat
      BY StepNumbers DEF Attempts
    <2>1. CASE tx'[k][a] = tx[k][a]
      <3>1. a <= steps[k].attempts /\ ~(job.at \in {"plan", "send"} /\ job.step = k /\ a = steps[k].attempts)
        BY <1>2, <2>1 DEF AttemptInv
      <3>2. CASE k = i
        <4>1. steps'[i].attempts \in Nat
          BY StepNextTypes, HashIsAttempt, <1>0, TypeParts DEF TypeOK
        <4> QED BY <1>0, <1>1, <2>0, <3>1, <3>2, <4>1
      <3>3. CASE k # i
        BY <1>1, <2>0, <3>1, <3>3 DEF Others
      <3> QED BY <3>2, <3>3
    <2>2. CASE tx'[k][a] # tx[k][a]
      <3>1. Broadcast(i) /\ k = i /\ a = steps[i].attempts
        BY <1>0, <2>2, SentView
      <3>2. steps'[i].attempts = steps[i].attempts /\ job'.at \notin {"plan", "send"}
        BY <1>0, <3>1, BroadcastView DEF Keeps
      <3> QED BY <1>0, <2>0, <3>1, <3>2
    <2> QED BY <2>1, <2>2
  <1> QED BY <1>1, <1>2 DEF AttemptInv

(* A step that another one was planned from keeps its result.              *)
LEMMA ResultsStay ==
    ASSUME SeqInv, NEW i \in Steps, StepNext(i), NEW k \in ChainSteps,
           Begun(k) \/ steps[k].status = "done", NEW j \in 1 .. k - 1
    PROVE  steps'[j] = steps[j]
  <1>1. steps[j].status = "done" /\ j \in Steps
    BY BegunIsTouched, StepNumbers
  <1>2. j # i
    BY <1>1, FirstStep
  <1>3. Others(i)
    BY StepShape DEF SeqInv
  <1> QED BY <1>1, <1>2, <1>3 DEF Others

LEMMA StepKeepsSources ==
    ASSUME DoneInv, AttemptInv, SourceInv, NEW i \in Steps, StepNext(i)
    PROVE  SourceInv'
  <1>0. TypeOK /\ SeqInv /\ Others(i) /\ steps[i].status # "done"
    BY FirstStep, StepShape DEF DoneInv, SeqInv
  <1>1. steps'[i].skipped => Skip(i) /\ steps'[i].status = "done"
    <2>1. ~steps[i].skipped
      BY <1>0 DEF SourceInv
    <2> QED BY <1>0, <2>1, BeginView, SkipView, PinView, RefusedView, BroadcastView, RecordView, ConfirmView,
               SettleView, ByHashView, ByNonceView DEF StepNext, Becomes, Keeps
  <1>2. ASSUME NEW k \in ChainSteps, Begun(k)' PROVE Begun(k) \/ (k = i /\ PinNonce(i) /\ planned(i) > 0)
    <2>1. CASE Carrying' /\ job'.step = k
      BY <1>0, <2>1, CarriedView DEF Begun, PinNonce
    <2>2. ASSUME NEW a \in Attempts, tx'[k][a] # NoTx, tx[k][a] = NoTx PROVE Begun(k)
      <3>1. Broadcast(i) /\ k = i
        BY <1>0, <2>2, SentView
      <3>2. job.at = "send" /\ job.step = i
        BY <1>0, <3>1, BroadcastView
      <3> QED BY <3>1, <3>2 DEF Begun, Carrying
    <2> QED BY <1>2, <2>1, <2>2 DEF Begun
  <1>3. ASSUME NEW k \in {stake, fundPerpManager}, Begun(k)' PROVE steps'[k - 2].result # 0
    <2>0. k \in ChainSteps /\ k - 2 \in 1 .. k - 1 /\ k - 2 \in Steps /\ k - 2 # k
      BY MovingSteps DEF ChainSteps, Steps
    <2>1. CASE Begun(k)
      <3>1. steps[k - 2].result # 0
        BY <2>1, MovingSteps DEF SourceInv
      <3> QED BY <1>0, <2>0, <2>1, <3>1, ResultsStay
    <2>2. CASE k = i /\ PinNonce(i) /\ planned(i) > 0
      <3>1. planned(k) = steps[k - 2].result
        BY MovingSteps DEF planned
      <3> QED BY <1>0, <2>0, <2>2, <3>1 DEF Others
    <2> QED BY <1>2, <1>3, <2>0, <2>1, <2>2
  <1>4. steps'[fundPerpManager].skipped => steps'[swapUsdcForAusd].result = 0
    <2>0. fundPerpManager \in ChainSteps /\ fundPerpManager \in Steps /\ swapUsdcForAusd \in Steps
          /\ swapUsdcForAusd \in 1 .. fundPerpManager - 1 /\ swapUsdcForAusd # fundPerpManager
      BY MovingSteps DEF ChainSteps, Steps
    <2>1. CASE steps[fundPerpManager].skipped
      BY <1>0, <2>0, <2>1, ResultsStay DEF SourceInv
    <2>2. CASE steps'[fundPerpManager].skipped /\ ~steps[fundPerpManager].skipped
      <3>1. i = fundPerpManager /\ Skip(i)
        BY <1>0, <1>1, <2>0, <2>2 DEF Others
      <3>2. steps[swapUsdcForAusd].result = 0
        BY <3>1, MovingSteps DEF Skip, planned
      <3> QED BY <1>0, <2>0, <3>1, <3>2 DEF Others
    <2> QED BY <2>1, <2>2
  <1>5. \A k \in Steps : steps'[k].skipped => steps'[k].status = "done"
    BY <1>0, <1>1 DEF Others, SourceInv
  <1> QED BY <1>3, <1>4, <1>5, MovingSteps DEF SourceInv

LEMMA StepKeepsShort ==
    ASSUME DoneInv, ShortInv, NEW i \in Steps, StepNext(i)
    PROVE  ShortInv'
  <1>0. TypeOK /\ SeqInv /\ JobInv /\ Others(i) /\ steps[i].status # "done" /\ book' = book
        /\ openShort \in Steps /\ openShort \notin ChainSteps
    BY FirstStep, StepShape, ResultView, StepNumbers DEF DoneInv, SeqInv
  <1>1. job'.at # "fill" /\ (job'.at = "plan" => BeginStep(i) /\ job'.step = i)
    BY <1>0, BeginView, SkipView, PinView, RefusedView, BroadcastView, RecordView, ConfirmView,
       SettleView, ByHashView, ByNonceView DEF StepNext
  <1>2. CASE i # openShort
    <2>1. steps'[openShort] = steps[openShort] /\ ~(job'.at = "plan" /\ job'.step = openShort)
      BY <1>0, <1>1, <1>2 DEF Others
    <2>2. steps[openShort].status # "done"
      <3>1. SUFFICES ASSUME steps[openShort].status = "done" PROVE FALSE
        OBVIOUS
      <3>2. Touched(openShort)
        BY <3>1 DEF Touched
      <3>3. i \in 1 .. openShort - 1
        BY <1>2, StepNumbers DEF openShort
      <3> QED BY <1>0, <3>2, <3>3 DEF SeqInv, OrderInv
    <2> QED BY <1>0, <1>1, <2>1, <2>2 DEF ShortInv
  <1>3. CASE i = openShort
    <2>1. BeginStep(i) \/ Skip(i)
      BY <1>0, <1>3, PinView, RefusedView, BroadcastView, RecordView, ConfirmView, SettleView, ByHashView,
         ByNonceView DEF StepNext, JobInv, ShortInv
    <2>2. CASE BeginStep(i)
      <3>1. steps'[i].attempts = steps[i].attempts + 1 /\ steps'[i].status = "pending" /\ steps[i].attempts \in Nat
        BY <1>0, <2>2, BeginView, HashIsAttempt DEF Becomes
      <3>2. steps'[i].attempts # 0 /\ (steps'[i].attempts = 1 => steps[i].attempts = 0)
        BY <3>1
      <3> QED BY <1>0, <1>1, <1>3, <3>1, <3>2 DEF ShortInv
    <2>3. CASE Skip(i)
      <3>1. /\ steps'[i].attempts = steps[i].attempts /\ steps'[i].status = "done"
            /\ job.at = "plan" /\ job.step = i /\ job'.at = "idle"
        BY <1>0, <2>3, SkipView DEF Becomes
      <3>2. steps[stake].result = 0 /\ steps'[stake] = steps[stake]
        <4>1. planned(openShort) = steps[stake].result
          BY MovingSteps DEF planned
        <4>2. stake \in Steps /\ stake # openShort
          BY MovingSteps DEF Steps
        <4> QED BY <1>0, <1>3, <2>3, <4>1, <4>2 DEF Skip, Others
      <3> QED BY <1>0, <1>3, <3>1, <3>2 DEF ShortInv
    <2> QED BY <2>1, <2>2, <2>3
  <1> QED BY <1>2, <1>3

(* What the worker takes up is the share that is meant for the step.       *)
LEMMA PlannedIsShare ==
    ASSUME SumsRight, NEW i \in Moving, planned(i) > 0
    PROVE  planned(i) = Share(i)
  <1> USE MovingSteps
  <1>1. CASE i \in {1, 2}
    BY <1>1 DEF planned
  <1>2. CASE i \in {3, 4}
    <2>1. planned(i) = steps[i - 2].result
      BY <1>2 DEF planned
    <2>2. steps[i - 2].result # 0
      BY <2>1
    <2>3. i - 2 \in {1, 2} /\ Share(i - 2) = Share(i)
      BY <1>2
    <2> QED BY <2>1, <2>2, <2>3 DEF SumsRight, ResultsRight
  <1>3. CASE i = 6
    <2>1. planned(i) = book.held
      BY <1>3 DEF planned
    <2>2. book.held = Moved(4) - Moved(6)
      BY DEF SumsRight, BookRight
    <2>3. /\ Moved(4) \in {0, AusdShare} /\ Moved(6) \in {0, AusdShare} /\ AusdShare \in Nat
      BY MovedType, Bounds
    <2> QED BY <1>3, <2>1, <2>2, <2>3
  <1> QED BY <1>1, <1>2, <1>3

(* Nothing of a swap's money has gone on while the swap is not done.       *)
LEMMA SwapIsAhead ==
    ASSUME SeqInv, NEW i \in {1, 2}, steps[i].status # "done"
    PROVE  Executed(i + 2) = {} /\ Moved(i + 2) = 0
  <1>1. i + 2 \in ChainSteps /\ i \in 1 .. (i + 2) - 1
    BY MovingSteps
  <1>2. ~Begun(i + 2)
    BY <1>1, BegunIsTouched
  <1>3. Executed(i + 2) = {}
    BY <1>2 DEF Begun, Executed, NoTx
  <1> QED BY <1>1, <1>3, MovedType

LEMMA StepKeepsSums ==
    ASSUME DoneInv, AttemptInv, SourceInv, SumsRight, AtMostOnce, NEW i \in Steps, StepNext(i)
    PROVE  SumsRight'
  <1>0. /\ TypeOK /\ SeqInv /\ JobInv /\ HashInv /\ Others(i) /\ steps[i].status # "done" /\ book' = book
        /\ \A k \in ChainSteps : Executed(k)' = Executed(k) /\ Moved(k)' = Moved(k)
    BY FirstStep, StepShape, ResultView, WorkerMinesNothing DEF DoneInv, SeqInv
  <1>1. SharesRight'
    <2>1. ASSUME NEW k \in Moving, NEW a \in Attempts, tx'[k][a] # NoTx
          PROVE  tx'[k][a].amount = Share(k)
      <3>1. CASE tx'[k][a] = tx[k][a]
        BY <2>1, <3>1 DEF SumsRight, SharesRight
      <3>2. CASE tx'[k][a] # tx[k][a]
        <4>1. Broadcast(i) /\ k = i /\ tx'[k][a].amount = job.amount
          BY <1>0, <3>2, SentView, MovingSteps
        <4>2. job.at = "send" /\ job.step = i
          BY <1>0, <4>1, BroadcastView
        <4> QED BY <4>1, <4>2 DEF SumsRight, SharesRight, Carrying
      <3> QED BY <3>1, <3>2
    <2>2. ASSUME Carrying', job'.step \in Moving PROVE job'.amount = Share(job'.step)
      <3>1. CASE PinNonce(i) /\ job'.amount = planned(i)
        <4>1. planned(i) > 0 /\ job'.step = i
          BY <1>0, <2>2, <3>1, CarriedView DEF PinNonce
        <4> QED BY <2>2, <3>1, <4>1, PlannedIsShare
      <3>2. CASE Carrying /\ job.step = i /\ job'.amount = job.amount /\ job'.step = i
        BY <2>2, <3>2 DEF SumsRight, SharesRight
      <3> QED BY <1>0, <2>2, <3>1, <3>2, CarriedView
    <2> QED BY <2>1, <2>2 DEF SharesRight, Share
  <1>2. BookRight'
    <2>1. ASSUME steps'[depositToPerpl].skipped PROVE book.held = 0
      <3>1. CASE steps[depositToPerpl].skipped
        BY <3>1 DEF SumsRight, BookRight
      <3>2. CASE Skip(i) /\ i = depositToPerpl
        BY <3>2, MovingSteps DEF Skip, planned
      <3>3. CASE ~steps[depositToPerpl].skipped /\ i # depositToPerpl
        BY <1>0, <2>1, <3>3, MovingSteps DEF Others
      <3>4. CASE ~steps[depositToPerpl].skipped /\ ~Skip(i) /\ i = depositToPerpl
        BY <1>0, <2>1, <3>4, BeginView, PinView, RefusedView, BroadcastView, RecordView, ConfirmView,
           SettleView, ByHashView, ByNonceView DEF StepNext, Becomes, Keeps
      <3> QED BY <3>1, <3>2, <3>3, <3>4
    <2>2. {1, 2, 3, 4, 6} \subseteq ChainSteps
      BY MovingSteps
    <2> QED BY <1>0, <2>1, <2>2, MovingSteps DEF SumsRight, BookRight
  <1>3. BeforeRight'
    <2> SUFFICES ASSUME Carrying', Executed(job.step)' \subseteq {steps'[job'.step].attempts},
                        job'.step \in {1, 2}
                 PROVE  job'.before = IF job'.step = 1 THEN SpareMon ELSE 0
      BY MovingSteps DEF BeforeRight
    <2>0. job'.step = i /\ i \in {1, 2} /\ i \in ChainSteps /\ Executed(i) \subseteq {steps'[i].attempts}
      <3>1. job'.step = i
        BY CarriedView, <1>0
      <3> QED BY <1>0, <3>1, MovingSteps DEF Executed
    <2>1. CASE PinNonce(i) /\ job'.before = balanceBefore(i)
      <3>1. job.at = "plan" /\ job.step = i /\ steps'[i].attempts = steps[i].attempts
        BY <1>0, <2>1, PinView
      <3>2. Executed(i) = {}
        <4>1. \A a \in Attempts : a = steps[i].attempts => tx[i][a] = NoTx
          BY <2>0, <3>1 DEF AttemptInv
        <4> QED BY <2>0, <3>1, <4>1 DEF Executed, NoTx
      <3>3. Moved(i) = 0 /\ Moved(i + 2) = 0
        BY <1>0, <2>0, <3>2, MovedType, SwapIsAhead
      <3>4. balanceBefore(i) = IF i = 1 THEN book.mon ELSE book.ausd
        BY <2>0, MovingSteps DEF balanceBefore
      <3>5. book.mon = SpareMon + Moved(1) - Moved(3) /\ book.ausd = Moved(2) - Moved(4) /\ SpareMon \in Nat
        BY MovingSteps, Bounds DEF SumsRight, BookRight
      <3>6. CASE i = 1
        BY <2>0, <2>1, <3>3, <3>4, <3>5, <3>6
      <3>7. CASE i = 2
        BY <2>0, <2>1, <3>3, <3>4, <3>5, <3>7
      <3> QED BY <2>0, <3>6, <3>7
    <2>2. CASE Carrying /\ job.step = i /\ job'.before = job.before /\ steps'[i].attempts = steps[i].attempts
      BY <2>0, <2>2, MovingSteps DEF SumsRight, BeforeRight
    <2> QED BY <1>0, <2>1, <2>2, CarriedView
  <1>4. ResultsRight'
    <2>1. ASSUME NEW k \in {1, 2, 3}, steps'[k].result # 0
          PROVE  steps'[k].result = Share(k) /\ (k = 3 => Executed(3) # {})
      <3>0. k \in Steps /\ k \in ChainSteps
        BY MovingSteps
      <3>1. CASE steps'[k].result = steps[k].result
        BY <2>1, <3>1, MovingSteps DEF SumsRight, ResultsRight
      <3>2. CASE k = i /\ Settle(i) /\ steps'[i].result = settled(i)
        <4>1. job.at = "settle" /\ job.step = i /\ steps[i].txHash = steps[i].attempts
          BY <1>0, <3>2, SettleView DEF AttemptInv
        <4>2. steps[i].attempts \in Attempts /\ tx[i][steps[i].attempts].status = "mined"
          BY <1>0, <4>1, HashIsAttempt DEF HashInv, Confirmed, Working
        <4>3. Executed(i) # {} /\ Executed(i) \subseteq {steps[i].attempts}
          BY <3>0, <3>2, <4>2 DEF AtMostOnce, OnlyOnce, Executed
        <4>4. CASE i = 3
          <5>1. settled(i) = job.amount
            BY <4>4, MovingSteps DEF settled
          <5> QED BY <3>2, <4>1, <4>3, <4>4, <5>1, MovingSteps DEF SumsRight, SharesRight, Carrying
        <4>5. CASE i \in {1, 2}
          <5>1. Moved(i) = Share(i) /\ Moved(i + 2) = 0 /\ Share(i) \in Nat /\ SpareMon \in Nat
            BY <1>0, <3>0, <3>2, <4>3, <4>5, MovedType, SwapIsAhead, Bounds
          <5>2. job.before = IF i = 1 THEN SpareMon ELSE 0
            BY <4>1, <4>3, <4>5, MovingSteps DEF SumsRight, BeforeRight, Carrying
          <5>3. book.mon = SpareMon + Moved(1) - Moved(3) /\ book.ausd = Moved(2) - Moved(4)
            BY MovingSteps DEF SumsRight, BookRight
          <5>4. CASE i = 1
            <6>1. settled(i) = book.mon - job.before
              BY <5>4, MovingSteps DEF settled
            <6> QED BY <3>2, <5>1, <5>2, <5>3, <5>4, <6>1
          <5>5. CASE i = 2
            <6>1. settled(i) = book.ausd - job.before
              BY <5>5, MovingSteps DEF settled
            <6> QED BY <3>2, <5>1, <5>2, <5>3, <5>5, <6>1
          <5> QED BY <4>5, <5>4, <5>5
        <4> QED BY <2>1, <3>2, <4>4, <4>5
      <3> QED BY <1>0, <3>0, <3>1, <3>2, ResultView DEF Others
    <2>2. Executed(3)' = Executed(3)
      BY <1>0, MovingSteps
    <2> QED BY <2>1, <2>2, MovingSteps DEF ResultsRight, Share
  <1> QED BY <1>1, <1>2, <1>3, <1>4 DEF SumsRight

LEMMA EndStays ==
    ASSUME EndInv, [Next]_vars
    PROVE  EndInv'
  <1> SUFFICES ASSUME flow' = "done" PROVE \A i \in Steps : steps'[i].status = "done"
    BY DEF EndInv
  <1>1. ASSUME NEW i \in Steps, StepNext(i) PROVE FALSE
    BY <1>1 DEF StepNext, BeginStep, Skip, ResolveByHash, ResolveByNonce, PinNonce, SendRefused, Broadcast,
            RecordHash, Confirm, Settle, InFlight, Ticking, At, Fail, docVars
  <1>2. ~(OrderAccepted \/ OrderFails \/ RecordShort \/ GiveUp \/ Crash \/ Restart)
        /\ ~PlanFails
    BY DEF OrderAccepted, OrderFails, RecordShort, Ordering, GiveUp, Crash, Restart, PlanFails, At, Fail, docVars
  <1>3. CASE FinishFlow
    BY <1>3 DEF FinishFlow, unfinished
  <1>4. CASE MineNext \/ DropNext \/ ManualSend \/ UNCHANGED vars
    <2>1. UNCHANGED docVars
      BY <1>4 DEF MineNext, Mine, DropNext, Drop, ManualSend, vars
    <2> QED BY <2>1 DEF EndInv, docVars
  <1> QED BY <1>1, <1>2, <1>3, <1>4 DEF Next, WorkerNext

(* Steps that write no step's record and mine nothing keep all of it, if   *)
(* they leave the worker idle or as it was.                                *)
LEMMA QuietKeeps ==
    ASSUME DoneInv, AttemptInv, SourceInv, steps' = steps,
           job' = job \/ job'.at \in {"idle", "down", "fill", "giveUp"},
           \A k \in ChainSteps, a \in Attempts : tx'[k][a] # NoTx => tx[k][a] # NoTx
    PROVE  AttemptInv' /\ SourceInv'
  <1>1. AttemptInv'
    BY DEF AttemptInv
  <1>2. \A k \in ChainSteps : Begun(k)' => Begun(k)
    BY DEF Begun, Carrying
  <1>3. stake \in ChainSteps /\ fundPerpManager \in ChainSteps
    BY MovingSteps
  <1>4. SourceInv'
    BY <1>2, <1>3 DEF SourceInv
  <1> QED BY <1>1, <1>4

LEMMA OrderKeepsAlloc ==
    ASSUME AllocInv, OrderAccepted \/ OrderFails \/ RecordShort
    PROVE  AttemptInv' /\ SourceInv' /\ ShortInv' /\ (AtMostOnce' => SumsRight')
  <1>0. /\ TypeOK /\ JobInv /\ HashInv /\ DoneInv /\ AttemptInv /\ SourceInv /\ ShortInv
        /\ openShort \in Steps /\ openShort \notin ChainSteps
        /\ AtMostOnce => SumsRight
    BY StepNumbers DEF AllocInv, DoneInv, SeqInv
  <1>1. /\ tx' = tx /\ Others(openShort) /\ Keeps(openShort)
        /\ job.at \in {"plan", "fill"} /\ job.step = openShort
        /\ steps[openShort].status = "pending" /\ steps[openShort].attempts > 0
        /\ job'.at \in {"fill", "idle", "giveUp"}
    BY <1>0, OrderView DEF JobInv, HashInv, Working, Becomes, Others, Keeps
  <1>2. ~Carrying' /\ \A k \in ChainSteps : Begun(k)' => Begun(k)
    BY <1>1 DEF Begun, Carrying
  <1>3. \A k \in ChainSteps : k \in Steps /\ steps'[k] = steps[k]
    BY <1>0, <1>1, StepNumbers DEF Others
  <1>4. AttemptInv'
    BY <1>0, <1>1, <1>3 DEF AttemptInv
  <1>5. SourceInv'
    <2>1. ~steps'[openShort].skipped
      BY <1>0, <1>1 DEF SourceInv, Keeps
    <2>2. \A k \in Steps : steps'[k].skipped => steps'[k].status = "done"
      BY <1>0, <1>3, <2>1, StepNumbers DEF SourceInv
    <2>3. {1, 2, 3, 4} \subseteq ChainSteps
      BY MovingSteps
    <2> QED BY <1>0, <1>2, <1>3, <2>2, <2>3, MovingSteps DEF SourceInv
  <1>6. ShortInv'
    <2>0. stake \in ChainSteps /\ planned(openShort) = steps[stake].result
      BY MovingSteps DEF planned
    <2>1. CASE OrderAccepted
      <3>1. job.at = "plan" /\ job'.at = "fill" /\ steps' = steps
        BY <1>0, <2>1, OrderView
      <3>2. book'.short + book'.unfilled = book.short + book.unfilled + steps[stake].result
        BY <1>0, <2>0, <2>1, TakenView DEF OrderAccepted
      <3>3. steps[openShort].attempts = 1 => book'.short + book'.unfilled = steps[stake].result
        <4>1. steps[stake].result \in Int
          BY <1>0, <1>3, <2>0, TypeParts DEF StepRecord
        <4> QED BY <1>0, <1>1, <3>1, <3>2, <4>1 DEF ShortInv
      <3> QED BY <1>0, <1>1, <3>1, <3>3 DEF ShortInv
    <2>2. CASE OrderFails
      <3>1. steps'[openShort].status = "failed" /\ job'.at \in {"idle", "giveUp"}
        BY <1>0, <2>2, OrderView DEF Becomes
      <3> QED BY <1>1, <3>1 DEF ShortInv, Keeps
    <2>3. CASE RecordShort
      <3>1. steps'[openShort].status = "done" /\ job'.at = "idle" /\ job.at = "fill" /\ book' = book
        BY <1>0, <2>3, OrderView DEF Becomes
      <3>2. steps'[stake] = steps[stake]
        BY <1>3, <2>0
      <3> QED BY <1>0, <1>1, <3>1, <3>2 DEF ShortInv, Keeps
    <2> QED BY <2>1, <2>2, <2>3
  <1>7. ASSUME AtMostOnce' PROVE SumsRight'
    <2>0. /\ \A k \in ChainSteps : Executed(k)' = Executed(k) /\ Moved(k)' = Moved(k)
          /\ SumsRight
      BY <1>0, <1>1, <1>7, NothingMined
    <2>1. SharesRight' /\ BeforeRight'
      BY <1>1, <1>2, <2>0 DEF SumsRight, SharesRight, Share, BeforeRight
    <2>2. \A h \in {"mon", "ausd", "staked", "held", "collateral"} : book'[h] = book[h]
      <3>1. book' = book \/ (Ordering /\ Taken)
        BY <1>0, OrderView DEF OrderAccepted, OrderFails
      <3>2. \A h \in {"mon", "ausd", "staked", "held", "collateral"} : h \in Holdings \ {"short", "unfilled"}
        BY DEF Holdings
      <3> QED BY <1>0, <3>1, <3>2, TakenView
    <2>3. {1, 2, 3, 4, 6} \subseteq ChainSteps
      BY MovingSteps
    <2>4. BookRight'
      BY <1>3, <2>0, <2>2, <2>3, MovingSteps DEF SumsRight, BookRight
    <2>5. ResultsRight'
      BY <1>3, <2>0, <2>3, MovingSteps DEF SumsRight, ResultsRight, Share
    <2> QED BY <2>1, <2>4, <2>5 DEF SumsRight
  <1> QED BY <1>4, <1>5, <1>6, <1>7

LEMMA MoveValues ==
    ASSUME book \in [Holdings -> Nat], NEW amount \in Nat, NEW from \in Holdings, NEW to \in Holdings, from # to
    PROVE  /\ Move(from, to, amount)[from] = book[from] - amount
           /\ Move(from, to, amount)[to] = book[to] + amount
           /\ \A h \in Holdings \ {from, to} : Move(from, to, amount)[h] = book[h]
           /\ Move(from, to, amount) \in [Holdings -> Int]
  BY DEF Move

(* What is mined moves a share, once.                                      *)
LEMMA MineKeepsSums ==
    ASSUME AllocInv, NEW i \in ChainSteps, NEW a \in Attempts, Mine(i, a), AtMostOnce'
    PROVE  SumsRight'
  <1>0. /\ TypeOK /\ SeqInv /\ DoneIsDone /\ SourceInv /\ steps' = steps /\ job' = job
        /\ book \in [Holdings -> Nat] /\ tx \in [ChainSteps -> [Attempts -> TxRecord]]
        /\ tx[i][a].status = "pool" /\ tx[i][a] # NoTx /\ tx[i][a].amount \in Nat
    <2>1. TypeOK /\ SeqInv /\ DoneIsDone /\ SourceInv
      BY DEF AllocInv, DoneInv, SeqInv
    <2>2. steps' = steps /\ job' = job /\ tx[i][a].status = "pool"
      BY DEF Mine, Live, docVars
    <2> QED BY <2>1, <2>2, TypeParts DEF NoTx, TxRecord
  <1>1. PICK st \in {"mined", "reverted"} :
            /\ tx' = [tx EXCEPT ![i][a].status = st]
            /\ st = "mined" => Feasible(i, tx[i][a].amount) /\ book' = Effect(i, tx[i][a].amount)
            /\ st = "reverted" => book' = book
    BY DEF Mine
  <1>2. /\ \A k \in ChainSteps, b \in Attempts : <<k, b>> # <<i, a>> => tx'[k][b] = tx[k][b]
        /\ tx'[i][a].status = st /\ tx'[i][a].amount = tx[i][a].amount
    BY <1>0, <1>1 DEF TxRecord
  <1>3. \A k \in ChainSteps : Executed(k) \subseteq Executed(k)' /\ (k # i => Executed(k)' = Executed(k))
    BY <1>0, <1>2 DEF Executed
  <1>4. AtMostOnce /\ SumsRight
    BY <1>3 DEF AllocInv, AtMostOnce, OnlyOnce
  <1>5. SharesRight' /\ BeforeRight' /\ ResultsRight'
    <2>1. SharesRight'
      <3>1. \A k \in Moving, b \in Attempts : tx'[k][b] # NoTx => tx[k][b] # NoTx /\ tx'[k][b].amount = tx[k][b].amount
        BY <1>0, <1>2, MovingSteps
      <3> QED BY <1>0, <1>4, <3>1 DEF SumsRight, SharesRight, Share, Carrying
    <2>2. BeforeRight'
      <3>1. Carrying => job.step \in ChainSteps
        BY <1>0 DEF SeqInv, JobInv, Carrying
      <3> QED BY <1>0, <1>3, <1>4, <3>1 DEF SumsRight, BeforeRight, Carrying
    <2>3. ResultsRight'
      BY <1>0, <1>3, <1>4, MovingSteps DEF SumsRight, ResultsRight, Share
    <2> QED BY <2>1, <2>2, <2>3
  <1>6. CASE st = "reverted"
    <2>1. \A k \in ChainSteps : Executed(k)' = Executed(k)
      BY <1>0, <1>2, <1>6 DEF Executed
    <2>2. \A k \in ChainSteps : Moved(k)' = Moved(k)
      BY <2>1 DEF Moved, Share
    <2>3. {1, 2, 3, 4, 6} \subseteq ChainSteps
      BY MovingSteps
    <2> QED BY <1>0, <1>1, <1>4, <1>5, <1>6, <2>2, <2>3, MovingSteps DEF SumsRight, BookRight
  <1>7. CASE st = "mined"
    <2>1. Executed(i) = {} /\ Executed(i)' # {}
      BY <1>0, <1>2, <1>7 DEF AtMostOnce, OnlyOnce, Executed
    <2>2. \A k \in ChainSteps : Moved(k)' = IF k = i THEN Share(i) ELSE Moved(k)
      BY <1>3, <2>1 DEF Moved, Share
    <2>3. Moved(i) = 0 /\ Share(i) \in Nat /\ (i # 5 => tx[i][a].amount = Share(i))
      BY <1>0, <1>4, <2>1, MovedType, MovingSteps, StepNumbers DEF SumsRight, SharesRight
    <2>4. steps[depositToPerpl].skipped /\ i \in {4, 6} => Share(i) = 0 /\ i = 6
      <3> SUFFICES ASSUME steps[depositToPerpl].skipped, i \in {4, 6} PROVE Share(i) = 0 /\ i = 6
        OBVIOUS
      <3>1. book.held = 0 /\ steps[6].status = "done"
        BY <1>0, <1>4, MovingSteps DEF SumsRight, BookRight, SourceInv
      <3>2. CASE i = 6
        <4>1. tx[i][a].amount <= book.held
          BY <1>1, <1>7, <3>2, MovingSteps DEF Feasible
        <4> QED BY <2>3, <3>1, <3>2, <4>1
      <3>3. CASE i = 4
        <4>1. steps[4].status = "done"
          BY <1>0, <3>1, BegunIsTouched, MovingSteps
        <4>2. steps[2].result # 0
          BY <1>0, <3>3, MovingSteps DEF SourceInv, Begun
        <4>3. ~steps[4].skipped
          BY <1>0, <4>2, MovingSteps DEF SourceInv
        <4>4. Executed(4) # {}
          BY <1>0, <4>1, <4>3, MovingSteps DEF DoneIsDone
        <4> QED BY <2>1, <3>3, <4>4
      <3> QED BY <3>2, <3>3
    <2>5. BookRight'
      <3> DEFINE m == tx[i][a].amount
      <3>0. /\ book.mon \in Nat /\ book.ausd \in Nat /\ book.staked \in Nat /\ book.held \in Nat
            /\ book.collateral \in Nat /\ SpareMon \in Nat /\ m \in Nat
            /\ \A h \in {"usdc", "mon", "ausd", "staked", "held", "allowance", "collateral"} : h \in Holdings
        BY <1>0, BookType, Bounds DEF Holdings
      <3>1. \A k \in {1, 2, 3, 4, 6} : Moved(k) \in Int /\ Moved(k)' = IF k = i THEN Share(i) ELSE Moved(k)
        BY <2>2, MovedType, MovingSteps
      <3>2. /\ book'.mon = book.mon + (IF i = 1 THEN m ELSE 0) - (IF i = 3 THEN m ELSE 0)
            /\ book'.ausd = book.ausd + (IF i = 2 THEN m ELSE 0) - (IF i = 4 THEN m ELSE 0)
            /\ book'.staked = book.staked + (IF i = 3 THEN m ELSE 0)
            /\ book'.held = book.held + (IF i = 4 THEN m ELSE 0) - (IF i = 6 THEN m ELSE 0)
            /\ book'.collateral = book.collateral + (IF i = 6 THEN m ELSE 0)
        <4>1. book' = Effect(i, m)
          BY <1>1, <1>7
        <4> HIDE DEF m
        <4>u. \A from, to \in Holdings : from # to =>
                 /\ Move(from, to, m)[from] = book[from] - m /\ Move(from, to, m)[to] = book[to] + m
                 /\ \A h \in Holdings \ {from, to} : Move(from, to, m)[h] = book[h]
                 /\ Move(from, to, m) \in [Holdings -> Int]
          BY <1>0, <3>0, MoveValues
        <4>a. CASE i = 1
          <5>1. book' = Move("usdc", "mon", m)
            BY <4>1, <4>a, MovingSteps DEF Effect
          <5> QED BY <3>0, <4>u, <4>a, <5>1
        <4>b. CASE i = 2
          <5>1. book' = Move("usdc", "ausd", m)
            BY <4>1, <4>b, MovingSteps DEF Effect
          <5> QED BY <3>0, <4>u, <4>b, <5>1
        <4>c. CASE i = 3
          <5>1. book' = Move("mon", "staked", m)
            BY <4>1, <4>c, MovingSteps DEF Effect
          <5> QED BY <3>0, <4>u, <4>c, <5>1
        <4>d. CASE i = 4
          <5>1. book' = Move("ausd", "held", m)
            BY <4>1, <4>d, MovingSteps DEF Effect
          <5> QED BY <3>0, <4>u, <4>d, <5>1
        <4>3. CASE i = 5
          BY <1>0, <3>0, <4>1, <4>3, MovingSteps DEF Effect
        <4>4. CASE i = 6
          <5>1. book' = [Move("held", "collateral", m) EXCEPT !.allowance = @ - m]
            BY <4>1, <4>4, MovingSteps DEF Effect
          <5>2. \A h \in {"mon", "ausd", "staked", "held", "collateral"} : book'[h] = Move("held", "collateral", m)[h]
            BY <3>0, <4>u, <5>1
          <5> QED BY <3>0, <4>u, <4>4, <5>2
        <4> QED BY <4>a, <4>b, <4>c, <4>d, <4>3, <4>4, StepNumbers
      <3>3. i # 5 => m = Share(i)
        BY <2>3
      <3> HIDE DEF m
      <3>4. /\ book.mon = SpareMon + Moved(1) - Moved(3) /\ book.ausd = Moved(2) - Moved(4)
            /\ book.staked = Moved(3) /\ book.held = Moved(4) - Moved(6) /\ book.collateral = Moved(6)
            /\ steps[6].skipped => book.held = 0
        BY <1>4, MovingSteps DEF SumsRight, BookRight
      <3>5. book'.mon = SpareMon + Moved(1)' - Moved(3)' /\ book'.ausd = Moved(2)' - Moved(4)'
        BY <2>3, <3>0, <3>1, <3>2, <3>3, <3>4
      <3>6. book'.staked = Moved(3)' /\ book'.held = Moved(4)' - Moved(6)' /\ book'.collateral = Moved(6)'
        BY <2>3, <3>0, <3>1, <3>2, <3>3, <3>4
      <3>7. steps[6].skipped => book'.held = 0
        BY <2>3, <2>4, <3>0, <3>2, <3>3, <3>4, MovingSteps
      <3> QED BY <1>0, <3>5, <3>6, <3>7, MovingSteps DEF BookRight
    <2> QED BY <1>5, <2>5 DEF SumsRight
  <1> QED BY <1>1, <1>6, <1>7

LEMMA BackgroundKeepsAlloc ==
    ASSUME AllocInv, Background
    PROVE  AttemptInv' /\ SourceInv' /\ ShortInv' /\ (AtMostOnce' => SumsRight')
  <1>0. /\ TypeOK /\ SeqInv /\ DoneInv /\ AttemptInv /\ SourceInv /\ ShortInv
        /\ AtMostOnce => SumsRight
    BY DEF AllocInv, DoneInv, SeqInv
  <1>1. /\ steps' = steps /\ book'.short = book.short /\ book'.unfilled = book.unfilled
        /\ job' = job \/ job'.at \in {"idle", "down"}
        /\ \A k \in ChainSteps, a \in Attempts : tx'[k][a] # NoTx => tx[k][a] # NoTx
    BY <1>0, BackgroundView
  <1>2. AttemptInv' /\ SourceInv'
    BY <1>0, <1>1, QuietKeeps
  <1>3. ShortInv'
    BY <1>0, <1>1 DEF ShortInv
  <1>4. ASSUME NEW i \in ChainSteps, NEW a \in Attempts, Mine(i, a), AtMostOnce' PROVE SumsRight'
    BY <1>4, MineKeepsSums
  <1>5. ASSUME ~MineNext, AtMostOnce' PROVE SumsRight'
    <2>1. /\ book' = book
          /\ \A k \in ChainSteps, a \in Attempts :
                /\ tx'[k][a].status = "mined" <=> tx[k][a].status = "mined"
                /\ tx'[k][a].amount = tx[k][a].amount
      <3>1. ASSUME NEW i \in ChainSteps, NEW b \in Attempts, Drop(i, b)
            PROVE  /\ book' = book
                   /\ \A k \in ChainSteps, a \in Attempts :
                         /\ tx'[k][a].status = "mined" <=> tx[k][a].status = "mined"
                         /\ tx'[k][a].amount = tx[k][a].amount
        <4>1. tx' = [tx EXCEPT ![i][b].status = "dropped"] /\ tx[i][b].status = "pool" /\ book' = book
          BY <3>1 DEF Drop, Live
        <4>2. \A k \in ChainSteps, a \in Attempts : <<k, a>> # <<i, b>> => tx'[k][a] = tx[k][a]
          BY <1>0, <4>1, TypeParts
        <4>3. tx'[i][b].status = "dropped" /\ tx'[i][b].amount = tx[i][b].amount
          BY <1>0, <4>1, TypeParts DEF TxRecord
        <4> QED BY <4>1, <4>2, <4>3
      <3>2. CASE PlanFails \/ FinishFlow \/ GiveUp \/ ManualSend \/ Crash \/ Restart \/ UNCHANGED vars
        <4>1. tx' = tx /\ book' = book
          BY <3>2 DEF PlanFails, FinishFlow, GiveUp, ManualSend, Crash, Restart, vars, chainVars
        <4> QED BY <4>1
      <3> QED BY <1>5, <3>1, <3>2 DEF Background, DropNext
    <2>2. /\ \A k \in ChainSteps : Executed(k)' = Executed(k) /\ Moved(k)' = Moved(k)
          /\ SumsRight
      BY <1>0, <1>5, <2>1, NothingMined
    <2>3. {1, 2, 3, 4, 6} \subseteq ChainSteps
      BY MovingSteps
    <2>4. SharesRight'
      <3>1. \A k \in Moving, a \in Attempts : tx'[k][a] # NoTx => tx'[k][a].amount = Share(k)
        BY <1>1, <2>1, <2>2, MovingSteps DEF SumsRight, SharesRight
      <3>2. Carrying' => job' = job
        BY <1>1 DEF Carrying
      <3> QED BY <2>2, <3>1, <3>2 DEF SumsRight, SharesRight, Share, Carrying
    <2>5. BookRight'
      BY <1>1, <2>1, <2>2, <2>3, MovingSteps DEF SumsRight, BookRight
    <2>6. BeforeRight'
      <3>1. Carrying' => job' = job /\ Carrying /\ job.step \in ChainSteps
        BY <1>0, <1>1 DEF Carrying, SeqInv, JobInv
      <3> QED BY <1>1, <2>2, <3>1 DEF SumsRight, BeforeRight
    <2>7. ResultsRight'
      BY <1>1, <2>2, <2>3, MovingSteps DEF SumsRight, ResultsRight, Share
    <2> QED BY <2>4, <2>5, <2>6, <2>7 DEF SumsRight
  <1> QED BY <1>2, <1>3, <1>4, <1>5 DEF MineNext

LEMMA AllocInvInit == Init => AllocInv
  <1> SUFFICES ASSUME Init PROVE AllocInv
    OBVIOUS
  <1>1. /\ flow = "running" /\ job.at = "idle"
        /\ \A k \in Steps : /\ steps[k].status = "pending" /\ ~steps[k].skipped
                            /\ steps[k].result = 0 /\ steps[k].attempts = 0
        /\ \A k \in ChainSteps, a \in Attempts : tx[k][a] = NoTx
        /\ book.mon = SpareMon /\ book.ausd = 0 /\ book.staked = 0 /\ book.held = 0
        /\ book.collateral = 0 /\ book.short = 0 /\ book.unfilled = 0
    BY DEF Init, Idle
  <1>2. \A k \in ChainSteps : Executed(k) = {} /\ Moved(k) = 0
    BY <1>1, MovedType DEF Executed, NoTx
  <1>3. EndInv /\ AttemptInv
    BY <1>1 DEF EndInv, AttemptInv
  <1>4. SourceInv
    <2>1. \A k \in ChainSteps : ~Begun(k)
      BY <1>1 DEF Begun, Carrying
    <2> QED BY <1>1, <2>1, MovingSteps DEF SourceInv
  <1>5. ShortInv
    BY <1>1, StepNumbers DEF ShortInv
  <1>6. SumsRight
    <2>1. ~Carrying
      BY <1>1 DEF Carrying
    <2> QED BY <1>1, <1>2, <2>1, MovingSteps, Bounds DEF SumsRight, SharesRight, BookRight, BeforeRight, ResultsRight
  <1> QED BY <1>3, <1>4, <1>5, <1>6, DoneInvInit DEF AllocInv

LEMMA AllocInvNext == AllocInv /\ [Next]_vars => AllocInv'
  <1> SUFFICES ASSUME AllocInv, [Next]_vars PROVE AllocInv'
    OBVIOUS
  <1>0. DoneInv /\ DoneInv' /\ EndInv' /\ AttemptInv /\ SourceInv /\ ShortInv /\ (AtMostOnce => SumsRight)
    BY DoneInvNext, EndStays DEF AllocInv
  <1>1. ASSUME NEW i \in Steps, StepNext(i)
        PROVE  AttemptInv' /\ SourceInv' /\ ShortInv' /\ (AtMostOnce' => SumsRight')
    <2>1. AtMostOnce' <=> AtMostOnce
      BY <1>0, <1>1, WorkerMinesNothing DEF DoneInv
    <2> QED BY <1>0, <1>1, <2>1, StepKeepsAttempts, StepKeepsSources, StepKeepsShort, StepKeepsSums
  <1>2. AttemptInv' /\ SourceInv' /\ ShortInv' /\ (AtMostOnce' => SumsRight')
    BY <1>1, OrderKeepsAlloc, BackgroundKeepsAlloc, NextIsOneOf
  <1> QED BY <1>0, <1>2 DEF AllocInv

(* flowEngine.ts 13-21: a run that is done has staked its share, the rest  *)
(* is collateral and the short is as large as the stake, whatever faults   *)
(* there were, unless a step was executed twice, a result was lost, the    *)
(* order was placed again, or the chain refused the order Perpl had taken. *)
THEOREM DoneIsHedged == Spec => []AllocatedAndHedged
  <1>1. AllocInv => AllocatedAndHedged
    <2> SUFFICES ASSUME AllocInv, flow = "done", Unambiguous
                 PROVE  book.staked = MonShare /\ book.collateral = AusdShare /\ book.short = MonShare
      BY DEF AllocatedAndHedged
    <2> USE MovingSteps
    <2>1. /\ SumsRight /\ ShortInv /\ SourceInv /\ DoneIsDone
          /\ \A i \in Steps : steps[i].status = "done"
          /\ steps[2].result # 0 /\ steps[3].result # 0 /\ steps[7].attempts = 1
          /\ book.unfilled = 0 /\ book.short \in Nat
      <3>1. \A i \in {1, 2, 3} : steps[i].result > 0
        BY DEF Unambiguous
      <3>2. book.short \in Nat
        BY TypeParts, BookType DEF AllocInv, DoneInv, SeqInv
      <3> QED BY <3>1, <3>2 DEF AllocInv, DoneInv, EndInv, Unambiguous
    <2>2. steps[3].result = MonShare /\ Executed(3) # {}
      BY <2>1 DEF SumsRight, ResultsRight
    <2>3. book.staked = MonShare
      BY <2>1, <2>2, MovedType DEF SumsRight, BookRight
    <2>4. book.short = MonShare
      BY <2>1, <2>2, StepNumbers DEF ShortInv
    <2>5. book.collateral = AusdShare
      <3>1. ~steps[4].skipped
        BY <2>1 DEF SourceInv
      <3>2. Executed(4) # {}
        BY <2>1, <3>1 DEF DoneIsDone
      <3>3. Moved(4) = AusdShare /\ Moved(6) \in {0, AusdShare} /\ AusdShare \in Nat
        BY <3>2, MovedType, Bounds
      <3>4. book.held = Moved(4) - Moved(6) /\ book.collateral = Moved(6)
        BY <2>1 DEF SumsRight, BookRight
      <3>5. CASE steps[6].skipped
        <4>1. book.held = 0
          BY <2>1, <3>5 DEF SumsRight, BookRight
        <4> QED BY <3>3, <3>4, <4>1
      <3>6. CASE ~steps[6].skipped
        <4>1. Executed(6) # {}
          BY <2>1, <3>6 DEF DoneIsDone
        <4> QED BY <3>4, <4>1, MovedType
      <3> QED BY <3>5, <3>6
    <2> QED BY <2>3, <2>4, <2>5
  <1> QED BY <1>1, AllocInvInit, AllocInvNext, PTL DEF Spec

-----------------------------------------------------------------------------
(***************************************************************************)
(* At most once                                                            *)
(*                                                                         *)
(* A late receipt, a lost answer or a failed read alone has a mined step   *)
(* sent again, and so has a restart into a mempool with a transaction in   *)
(* it: those are ruled out.  A transaction can still be fruitless: it was  *)
(* reverted, forgotten or replaced, and its hash stays on record while the *)
(* next attempt is under way.  That is harmless as long as no restart      *)
(* reads it, and then the step is trusted.                                 *)
(***************************************************************************)
NoLateAnswers ==
    /\ Faults \cap {"timeout", "lostResponse", "readFails"} = {}
    /\ "crash" \in Faults => "slowPool" \notin Faults

(* With crashes, what makes a transaction fruitless is ruled out as well.  *)
NoSecondSend ==
    /\ NoLateAnswers
    /\ "crash" \in Faults => Faults \cap {"revert", "dropped", "manual"} = {}

(* A live transaction is the last attempt's and the next of its wallet to  *)
(* be mined, and is waited for, or will be by who restarts.                *)
LiveInv(i, a) ==
    Live(i, a) =>
        /\ a = steps[i].attempts
        /\ tx[i][a].nonce = confirmed[signerFor(i)]
        /\ Feasible(i, tx[i][a].amount)
        /\ \/ job.at \in {"record", "confirm"} /\ job.step = i
           \/ job.at = "down" /\ steps[i].status \in {"sending", "sent"}

FateInv(i, a) ==
    /\ tx[i][a].status = "mined" => tx[i][a].nonce < confirmed[signerFor(i)]
    /\ Fruitless(i, a) => Faults \cap {"revert", "dropped", "manual"} # {}

SentInv(i) ==
    /\ steps[i].status = "sent" => steps[i].txHash # 0 /\ steps[i].txHash = steps[i].attempts
    /\ steps[i].status = "sent" \/ (job.at = "record" /\ job.step = i) =>
          tx[i][steps[i].attempts].status # "none"

PoolInv(i) == SentInv(i) /\ \A a \in Attempts : LiveInv(i, a) /\ FateInv(i, a)

Trusted(i) == "crash" \in Faults => \A a \in Attempts : ~Fruitless(i, a)

(* Of a trusted step what is mined is the last attempt, and the document   *)
(* knows it.                                                               *)
Counts(i, a) == tx[i][a].status = "mined" \/ Live(i, a)

CountInv(i, a) ==
    Counts(i, a) =>
        /\ a = steps[i].attempts
        /\ steps[i].status \in {"sending", "sent", "done", "needs-review"}
        /\ steps[i].status = "sending" => tx[i][a].nonce = steps[i].nonce
        /\ ~(job.at \in {"plan", "send"} /\ job.step = i)

HashIsLast(i) ==
    "crash" \in Faults /\ steps[i].txHash # 0 =>
        steps[i].status \in {"sent", "done"} /\ steps[i].txHash = steps[i].attempts

TxInv(i) == Trusted(i) => HashIsLast(i) /\ \A a \in Attempts : CountInv(i, a)

(* A process that lives has every send of the document in its hands, and   *)
(* pinned the nonce that was next, or that others have taken since.        *)
WorkerKnows ==
    /\ "crash" \notin Faults =>
          /\ job.at # "down"
          /\ \A i \in ChainSteps : steps[i].status \in {"sending", "sent"} => WorksOn(i)
    /\ job.at = "send" => steps[job.step].nonce <= confirmed[signerFor(job.step)]

OnceInv == AllocInv /\ WorkerKnows /\ \A i \in ChainSteps : PoolInv(i) /\ TxInv(i)

LEMMA OnceParts ==
    ASSUME OnceInv
    PROVE  /\ TypeOK /\ SeqInv /\ JobInv /\ OrderInv /\ HashInv /\ DoneInv /\ AttemptInv /\ WorkerKnows
           /\ \A k \in ChainSteps : PoolInv(k) /\ TxInv(k) /\ SentInv(k)
           /\ \A k \in ChainSteps, b \in Attempts : LiveInv(k, b) /\ FateInv(k, b)
  BY DEF OnceInv, AllocInv, DoneInv, SeqInv, PoolInv

NoCounts(i) == \A a \in Attempts : ~Counts(i, a)

NoneLive(i) == \A a \in Attempts : ~Live(i, a)

LEMMA SameTx ==
    ASSUME NEW i \in ChainSteps, tx'[i] = tx[i], confirmed' = confirmed
    PROVE  /\ \A a \in Attempts : /\ Live(i, a)' <=> Live(i, a)
                                  /\ Counts(i, a)' <=> Counts(i, a)
                                  /\ FateInv(i, a)' <=> FateInv(i, a)
           /\ Trusted(i)' <=> Trusted(i)
  <1>1. \A a \in Attempts : (Live(i, a)' <=> Live(i, a)) /\ tx'[i][a] = tx[i][a]
    BY DEF Live
  <1>2. \A a \in Attempts : Fruitless(i, a)' <=> Fruitless(i, a)
    BY <1>1 DEF Fruitless
  <1> QED BY <1>1, <1>2 DEF Counts, FateInv, Trusted

(* A worker's step about step i changes nothing for the others, of which   *)
(* none has a live transaction then.                                       *)
LEMMA OthersKeepTxInv ==
    ASSUME OnceInv, NEW i \in Steps, Others(i),
           \A k \in ChainSteps \ {i} : tx'[k] = tx[k], confirmed' = confirmed,
           job.at # "down", job.at \in {"record", "confirm"} => job.step = i,
           job'.at \in {"plan", "send", "record"} => job'.step = i,
           NEW k \in ChainSteps \ {i}
    PROVE  PoolInv(k)' /\ TxInv(k)'
  <1>0. /\ steps'[k] = steps[k] /\ tx'[k] = tx[k] /\ k \in ChainSteps
        /\ SentInv(k) /\ TxInv(k) /\ NoneLive(k) /\ \A a \in Attempts : FateInv(k, a)
    <2>1. steps'[k] = steps[k] /\ tx'[k] = tx[k] /\ k \in ChainSteps
      BY StepNumbers DEF Others
    <2>2. NoneLive(k)
      BY OnceParts, <2>1 DEF LiveInv, NoneLive
    <2> QED BY OnceParts, <2>1, <2>2
  <1>1. SentInv(k)'
    BY <1>0 DEF SentInv
  <1>2. PoolInv(k)'
    BY <1>0, <1>1, SameTx DEF PoolInv, LiveInv, NoneLive
  <1>3. TxInv(k)'
    <2> SUFFICES ASSUME Trusted(k)' PROVE HashIsLast(k)' /\ \A a \in Attempts : CountInv(k, a)'
      BY DEF TxInv
    <2>1. HashIsLast(k) /\ \A a \in Attempts : CountInv(k, a) /\ (Counts(k, a)' => Counts(k, a))
      BY <1>0, SameTx DEF TxInv
    <2> QED BY <1>0, <2>1 DEF HashIsLast, CountInv
  <1> QED BY <1>2, <1>3

(* Nor does a step of the worker that leaves nothing live and sends        *)
(* nothing, for its own step, unless it says so.                           *)
LEMMA QuietPool ==
    ASSUME OnceInv, NEW i \in ChainSteps, tx'[i] = tx[i], confirmed' = confirmed, NoneLive(i),
           steps'[i].status # "sent", ~(job'.at = "record" /\ job'.step = i)
    PROVE  PoolInv(i)'
  BY OnceParts, SameTx DEF PoolInv, LiveInv, NoneLive, SentInv

LEMMA QuietCounts ==
    ASSUME OnceInv, NEW i \in ChainSteps, tx'[i] = tx[i], confirmed' = confirmed,
           Trusted(i) => NoCounts(i) /\ ("crash" \in Faults => steps[i].txHash = 0),
           steps'[i].txHash = steps[i].txHash
    PROVE  TxInv(i)'
  BY SameTx DEF TxInv, HashIsLast, CountInv, NoCounts

LEMMA LastCounts ==
    ASSUME OnceInv, NEW i \in ChainSteps, tx'[i] = tx[i], confirmed' = confirmed,
           steps'[i].attempts = steps[i].attempts,
           steps'[i].status \in {"sent", "done", "needs-review"},
           ~(job'.at \in {"plan", "send"} /\ job'.step = i),
           Trusted(i) /\ "crash" \in Faults /\ steps'[i].txHash # 0 =>
               steps'[i].status \in {"sent", "done"} /\ steps'[i].txHash = steps'[i].attempts
    PROVE  TxInv(i)'
  <1> SUFFICES ASSUME Trusted(i)' PROVE HashIsLast(i)' /\ \A a \in Attempts : CountInv(i, a)'
    BY DEF TxInv
  <1>1. Trusted(i) /\ \A a \in Attempts : CountInv(i, a) /\ (Counts(i, a)' => Counts(i, a))
    BY OnceParts, SameTx DEF TxInv
  <1>2. HashIsLast(i)'
    BY <1>1 DEF HashIsLast
  <1> QED BY <1>1, <1>2 DEF CountInv

(* When confirm gives up without a timeout the transaction is fruitless.   *)
LEMMA GivenUp ==
    ASSUME OnceInv, NoLateAnswers, NEW i \in ChainSteps, steps[i].status = "sent", Unconfirmed(i)
    PROVE  /\ steps[i].txHash \in Attempts /\ steps[i].txHash = steps[i].attempts
           /\ Fruitless(i, steps[i].txHash) /\ ~Counts(i, steps[i].txHash)
  <1>1. /\ steps[i].txHash \in Attempts /\ steps[i].txHash = steps[i].attempts
        /\ tx[i][steps[i].txHash].status # "none"
    BY OnceParts, HashIsAttempt, StepNumbers DEF SentInv
  <1>2. tx[i][steps[i].txHash].status # "mined" /\ ~Mineable(i, steps[i].txHash)
    BY DEF Unconfirmed, Confirmed, NoLateAnswers
  <1>3. ~Live(i, steps[i].txHash)
    <2> SUFFICES ASSUME Live(i, steps[i].txHash) PROVE FALSE
      OBVIOUS
    <2>1. tx[i][steps[i].txHash].nonce = confirmed[signerFor(i)] /\ confirmed[signerFor(i)] \in Nat
      BY <1>1, OnceParts, TypeParts, WalletOf DEF LiveInv
    <2>2. confirmed[signerFor(i)] .. tx[i][steps[i].txHash].nonce - 1 = {}
      BY <2>1
    <2> QED BY <1>2, <2>2 DEF Mineable
  <1> QED BY <1>1, <1>2, <1>3 DEF Fruitless, Counts

LEMMA StepKeepsTxInv ==
    ASSUME NoLateAnswers, OnceInv, NEW i \in Steps, StepNext(i), i \in ChainSteps
    PROVE  PoolInv(i)' /\ TxInv(i)'
  <1>0. /\ TypeOK /\ JobInv /\ HashInv /\ AttemptInv /\ WorkerKnows /\ PoolInv(i) /\ TxInv(i) /\ SentInv(i)
        /\ \A a \in Attempts : LiveInv(i, a) /\ FateInv(i, a)
    BY OnceParts
  <1>q. /\ "lostResponse" \notin Faults /\ "readFails" \notin Faults
    BY DEF NoLateAnswers
  <1>l. job.at \notin {"record", "confirm", "down"} => NoneLive(i)
    BY <1>0 DEF NoneLive, LiveInv
  <1>n. ASSUME steps[i].status \in {"pending", "failed"} \/ (job.at = "send" /\ job.step = i), Trusted(i)
        PROVE  NoCounts(i) /\ ("crash" \in Faults => steps[i].txHash = 0)
    BY <1>n, <1>0 DEF NoCounts, TxInv, CountInv, HashIsLast, JobInv
  (* Only a restart finds a send that nobody has in hand.                  *)
  <1>k. ASSUME job.at = "idle", steps[i].status \in {"sending", "sent"} PROVE "crash" \in Faults
    BY <1>k, <1>0 DEF WorkerKnows, WorksOn, Working
  <1>1. CASE BeginStep(i)
    <2>1. /\ job.at = "idle" /\ steps[i].status \in {"pending", "failed"} /\ tx'[i] = tx[i]
          /\ confirmed' = confirmed /\ steps'[i].status = "pending" /\ job'.at = "plan"
          /\ steps'[i].txHash = steps[i].txHash
      BY <1>1, <1>0, BeginView DEF Becomes
    <2> QED BY <2>1, <1>l, <1>n, QuietPool, QuietCounts
  <1>2. CASE Skip(i)
    <2>1. /\ job.at = "plan" /\ steps[i].status = "pending" /\ tx'[i] = tx[i]
          /\ confirmed' = confirmed /\ steps'[i].status = "done" /\ job'.at = "idle"
          /\ steps'[i].txHash = steps[i].txHash
      BY <1>2, <1>0, SkipView DEF Becomes, JobInv
    <2> QED BY <2>1, <1>l, <1>n, QuietPool, QuietCounts
  <1>3. CASE ResolveByHash(i)
    <2>0. /\ job.at = "idle" /\ steps[i].status \in {"sending", "sent"} /\ steps[i].txHash # 0
          /\ Keeps(i) /\ UNCHANGED <<job, tx, confirmed, book>>
          /\ \/ Confirmed(i) /\ Becomes(i, "done")
             \/ Unconfirmed(i) /\ Becomes(i, "failed")
      BY <1>3, <1>0, ByHashView
    <2>1. PoolInv(i)'
      BY <2>0, <1>l, QuietPool DEF Becomes
    <2>c. "crash" \in Faults
      BY <2>0, <1>k
    <2>2. Trusted(i) => /\ steps[i].status = "sent" /\ steps[i].txHash = steps[i].attempts
                        /\ steps'[i].status = "done"
      <3> SUFFICES ASSUME Trusted(i)
                   PROVE  /\ steps[i].status = "sent" /\ steps[i].txHash = steps[i].attempts
                          /\ steps'[i].status = "done"
        OBVIOUS
      <3>1. steps[i].status = "sent" /\ steps[i].txHash = steps[i].attempts
        BY <2>0, <2>c, <1>0 DEF TxInv, HashIsLast
      <3>2. ~Unconfirmed(i)
        BY <2>c, <3>1, GivenUp DEF Trusted
      <3> QED BY <2>0, <3>1, <3>2 DEF Becomes
    <2>u. /\ tx'[i] = tx[i] /\ confirmed' = confirmed /\ job'.at = "idle"
          /\ steps'[i].attempts = steps[i].attempts /\ steps'[i].txHash = steps[i].txHash
      BY <2>0 DEF Keeps
    <2>3. Trusted(i) => TxInv(i)'
      BY <2>u, <2>2, LastCounts
    <2>4. ~Trusted(i) => TxInv(i)'
      BY <2>u, SameTx DEF TxInv
    <2> QED BY <2>1, <2>3, <2>4
  <1>4. CASE ResolveByNonce(i)
    <2>1. /\ steps[i].status = "sending" /\ steps[i].txHash = 0 /\ job.at = "idle"
          /\ job'.at \in {"idle", "giveUp"} /\ UNCHANGED <<tx, confirmed, book>>
          /\ steps'[i].txHash = 0 /\ steps'[i].attempts = steps[i].attempts
      BY <1>4, <1>0, ByNonceView DEF SentInv, Keeps
    <2>2. CASE ~NonceSpent(i) /\ Becomes(i, "pending")
      <3>1. Trusted(i) => NoCounts(i)
        <4> SUFFICES ASSUME Trusted(i), NEW a \in Attempts, tx[i][a].status = "mined" PROVE FALSE
          BY <2>1, <1>l DEF NoneLive, NoCounts, Counts
        <4>1. tx[i][a].nonce = steps[i].nonce /\ tx[i][a].nonce < confirmed[signerFor(i)]
          BY <2>1, <1>0 DEF TxInv, CountInv, FateInv, Counts
        <4>2. steps[i].nonce \in Nat /\ confirmed[signerFor(i)] \in Nat
          BY <1>0, TypeParts, WalletOf DEF StepRecord
        <4> QED BY <2>2, <4>1, <4>2 DEF NonceSpent
      <3> QED BY <2>1, <2>2, <3>1, <1>l, QuietPool, QuietCounts DEF Becomes
    <2>3. CASE NonceSpent(i) /\ Becomes(i, "needs-review")
      BY <2>1, <2>3, <1>l, QuietPool, LastCounts DEF Becomes
    <2> QED BY <1>4, <1>0, <2>2, <2>3, ByNonceView
  <1>5. CASE PinNonce(i)
    <2>1. /\ job.at = "plan" /\ steps[i].status = "pending" /\ tx'[i] = tx[i]
          /\ confirmed' = confirmed /\ steps'[i].status = "sending" /\ job'.at = "send"
          /\ steps'[i].txHash = steps[i].txHash
      BY <1>5, <1>0, PinView DEF Becomes, JobInv
    <2> QED BY <2>1, <1>l, <1>n, QuietPool, QuietCounts
  <1>6. CASE SendRefused(i)
    <2>1. /\ job.at = "send" /\ job.step = i /\ tx'[i] = tx[i]
          /\ confirmed' = confirmed /\ steps'[i].status = "failed" /\ job'.at \in {"idle", "giveUp"}
          /\ steps'[i].txHash = steps[i].txHash
      BY <1>6, <1>0, RefusedView DEF Becomes, Keeps
    <2> QED BY <2>1, <1>l, <1>n, QuietPool, QuietCounts
  <1>7. CASE Broadcast(i)
    <2>1. /\ job.at = "send" /\ job.step = i /\ steps' = steps
          /\ job'.at = "record" /\ job'.step = i /\ UNCHANGED <<confirmed, book>>
          /\ steps[i].status = "sending" /\ steps[i].attempts \in Attempts
          /\ Feasible(i, job.amount) /\ steps[i].nonce >= confirmed[signerFor(i)]
      BY <1>7, <1>0, <1>q, BroadcastView, HashIsAttempt DEF JobInv, HashInv, Working
    <2>n. steps[i].nonce = confirmed[signerFor(i)]
      <3>1. steps[i].nonce \in Nat /\ confirmed[signerFor(i)] \in Nat
        BY <1>0, TypeParts, WalletOf DEF StepRecord
      <3>2. steps[i].nonce <= confirmed[signerFor(i)]
        BY <2>1, <1>0 DEF WorkerKnows
      <3> QED BY <2>1, <3>1, <3>2
    <2>a. PICK n \in Attempts : n = steps[i].attempts
      BY <2>1
    <2>2. /\ tx'[i][n] = [status |-> "pool", nonce |-> steps[i].nonce, amount |-> job.amount]
          /\ \A a \in Attempts \ {n} : tx'[i][a] = tx[i][a]
          /\ tx[i][n] = NoTx
      BY <1>7, <1>0, <2>1, <2>a, BroadcastView, TypeParts DEF AttemptInv
    <2>3. \A a \in Attempts \ {n} : ~Live(i, a)' /\ (Fruitless(i, a)' <=> Fruitless(i, a))
      BY <2>1, <2>2, <1>l DEF NoneLive, Live, Fruitless
    <2>4. Live(i, n)' /\ ~Fruitless(i, n)' /\ ~Fruitless(i, n)
      <3>1. confirmed[signerFor(i)] \in Nat
        BY <1>0, TypeParts, WalletOf
      <3>2. Live(i, n)'
        BY <2>1, <2>2, <2>n, <3>1 DEF Live
      <3> QED BY <2>2, <3>2 DEF Fruitless, NoTx
    <2>5. \A a \in Attempts : FateInv(i, a)' /\ LiveInv(i, a)'
      <3>1. ASSUME NEW a \in Attempts \ {n} PROVE FateInv(i, a)' /\ LiveInv(i, a)'
        BY <1>0, <2>1, <2>2, <2>3 DEF FateInv, LiveInv
      <3>2. FateInv(i, n)'
        BY <2>2, <2>4 DEF FateInv
      <3>3. LiveInv(i, n)'
        <4>1. tx'[i][n].amount = job.amount /\ tx'[i][n].nonce = steps[i].nonce
          BY <2>2
        <4>2. Feasible(i, tx[i][n].amount)'
          BY <2>1, <4>1 DEF Feasible
        <4> QED BY <2>1, <2>a, <2>n, <4>1, <4>2 DEF LiveInv
      <3> QED BY <3>1, <3>2, <3>3
    <2>6. PoolInv(i)'
      <3>1. SentInv(i)'
        BY <2>1, <2>2, <2>a DEF SentInv
      <3> QED BY <2>5, <3>1 DEF PoolInv
    <2>7. TxInv(i)'
      <3> SUFFICES ASSUME Trusted(i)' PROVE HashIsLast(i)' /\ \A a \in Attempts : CountInv(i, a)'
        BY DEF TxInv
      <3>1. Trusted(i)
        BY <2>3, <2>4 DEF Trusted
      <3>2. NoCounts(i) /\ ("crash" \in Faults => steps[i].txHash = 0)
        BY <2>1, <3>1, <1>n
      <3>3. \A a \in Attempts \ {n} : ~Counts(i, a)'
        BY <2>2, <2>3, <3>2 DEF NoCounts, Counts
      <3>4. CountInv(i, n)'
        BY <2>1, <2>2, <2>a DEF CountInv
      <3> QED BY <2>1, <3>2, <3>3, <3>4 DEF CountInv, HashIsLast
    <2> QED BY <2>6, <2>7
  <1>8. CASE RecordHash(i)
    <2>1. /\ job.at = "record" /\ job.step = i /\ steps[i].status = "sending"
          /\ steps'[i].status = "sent" /\ steps'[i].txHash = steps[i].attempts
          /\ steps'[i].attempts = steps[i].attempts /\ steps[i].attempts > 0
          /\ job'.at = "confirm" /\ job'.step = i /\ UNCHANGED <<tx, confirmed, book>>
      BY <1>8, <1>0, RecordView DEF Becomes, JobInv, HashInv, Working
    <2>2. \A a \in Attempts : Feasible(i, tx[i][a].amount)' <=> Feasible(i, tx[i][a].amount)
      BY <2>1 DEF Feasible
    <2>3. steps[i].attempts \in Nat /\ SentInv(i)'
      BY <1>0, <2>1, HashIsAttempt DEF SentInv
    <2>4. PoolInv(i)'
      BY <1>0, <2>1, <2>2, <2>3, SameTx DEF PoolInv, LiveInv
    <2> QED BY <2>1, <2>4, LastCounts
  <1>9. CASE Confirm(i)
    <2>1. /\ job.at = "confirm" /\ job.step = i /\ UNCHANGED <<tx, confirmed, book>>
          /\ steps[i].status = "sent" /\ steps[i].txHash = steps[i].attempts
      BY <1>9, <1>0, ConfirmView DEF JobInv, SentInv
    <2>2. CASE Confirmed(i) /\ steps' = steps /\ job'.at = "settle"
      <3>1. NoneLive(i)
        BY <2>1, <2>2, <1>0 DEF NoneLive, LiveInv, Confirmed, Live
      <3>2. SentInv(i)'
        BY <1>0, <2>1, <2>2 DEF SentInv
      <3>3. PoolInv(i)'
        BY <1>0, <2>1, <3>1, <3>2, SameTx DEF PoolInv, LiveInv, NoneLive
      <3> QED BY <2>1, <2>2, <3>3, LastCounts
    <2>3. CASE Unconfirmed(i) /\ Becomes(i, "failed") /\ Keeps(i) /\ job'.at \in {"idle", "giveUp"}
      <3>1. /\ steps[i].txHash \in Attempts /\ Fruitless(i, steps[i].txHash)
            /\ ~Counts(i, steps[i].txHash)
        BY <2>1, <2>3, GivenUp
      <3>2. NoneLive(i)
        BY <2>1, <3>1, <1>0 DEF NoneLive, LiveInv, Counts
      <3>3. Trusted(i) => "crash" \notin Faults /\ NoCounts(i)
        BY <2>1, <3>1, <1>0 DEF Trusted, NoCounts, TxInv, CountInv
      <3> QED BY <2>1, <2>3, <3>2, <3>3, QuietPool, QuietCounts DEF Becomes, Keeps
    <2> QED BY <1>9, <1>0, <2>2, <2>3, ConfirmView
  <1>10. CASE Settle(i)
    <2>1. /\ job.at = "settle" /\ job.step = i /\ UNCHANGED <<tx, confirmed, book>>
          /\ job'.at \in {"idle", "giveUp"} /\ steps'[i].status = "done"
          /\ steps'[i].attempts = steps[i].attempts /\ steps'[i].txHash = steps[i].txHash
          /\ steps[i].txHash = steps[i].attempts
      BY <1>10, <1>0, <1>q, SettleView DEF Becomes, Keeps, AttemptInv
    <2> QED BY <2>1, <1>l, QuietPool, LastCounts
  <1> QED
    BY <1>1, <1>2, <1>3, <1>4, <1>5, <1>6, <1>7, <1>8, <1>9, <1>10 DEF StepNext

LEMMA OnlyOneLive ==
    ASSUME OnceInv,
           NEW i \in ChainSteps, NEW a \in Attempts, Live(i, a),
           NEW k \in ChainSteps, NEW b \in Attempts, Live(k, b)
    PROVE  i = k /\ a = b
  <1>0. /\ JobInv /\ OrderInv
        /\ \A h \in ChainSteps, c \in Attempts : LiveInv(h, c)
    BY OnceParts
  <1>1. /\ steps[i].status \in {"sending", "sent"} /\ steps[k].status \in {"sending", "sent"}
        /\ a = steps[i].attempts /\ b = steps[k].attempts
    BY <1>0 DEF LiveInv, JobInv
  <1>2. Touched(i) /\ Touched(k)
    BY <1>1 DEF Touched
  <1>3. i = k
    <2>1. i \in Steps /\ k \in Steps /\ i \in Int /\ k \in Int
      BY StepNumbers
    <2>2. ~(i \in 1 .. k - 1) /\ ~(k \in 1 .. i - 1)
      BY <1>0, <1>1, <1>2, <2>1 DEF OrderInv
    <2> QED BY <2>1, <2>2, StepNumbers
  <1> QED BY <1>1, <1>3

(* The chain gets on, or the worker leaves off: less is live, and what was *)
(* fruitless stays so.                                                     *)
LEMMA LessLive ==
    ASSUME OnceInv, steps' = steps, NEW k \in ChainSteps,
           \A b \in Attempts :
               /\ tx'[k][b].nonce = tx[k][b].nonce
               /\ tx[k][b].status # "none" => tx'[k][b].status # "none"
               /\ Counts(k, b)' => Counts(k, b)
               /\ Fruitless(k, b) => Fruitless(k, b)'
               /\ Live(k, b)' => /\ Live(k, b) /\ tx'[k][b] = tx[k][b] /\ book' = book
                                 /\ confirmed'[signerFor(k)] = confirmed[signerFor(k)]
               /\ FateInv(k, b)',
           \/ job' = job
           \/ job'.at \in {"idle", "giveUp"} /\ NoneLive(k)
           \/ job'.at = "down"
    PROVE  PoolInv(k)' /\ TxInv(k)'
  <1>0. /\ SentInv(k) /\ TxInv(k) /\ JobInv /\ HashInv /\ TypeOK /\ k \in Steps
        /\ \A b \in Attempts : LiveInv(k, b)
    BY OnceParts, StepNumbers
  <1>1. SentInv(k)'
    <2>1. steps[k].status = "sent" \/ (job.at = "record" /\ job.step = k) => steps[k].attempts \in Attempts
      BY <1>0, HashIsAttempt DEF SentInv, HashInv, Working
    <2> QED BY <1>0, <2>1 DEF SentInv
  <1>2. ASSUME NEW b \in Attempts, Live(k, b)' PROVE LiveInv(k, b)'
    <2>1. Live(k, b) /\ tx'[k][b] = tx[k][b] /\ book' = book /\ confirmed'[signerFor(k)] = confirmed[signerFor(k)]
      BY <1>2
    <2>2. Feasible(k, tx[k][b].amount)'
      BY <1>0, <2>1 DEF LiveInv, Feasible
    <2>3. steps[k].status \in {"sending", "sent"}
      BY <1>0, <2>1 DEF LiveInv, JobInv
    <2> QED BY <1>0, <2>1, <2>2, <2>3 DEF LiveInv, NoneLive
  <1>3. PoolInv(k)'
    BY <1>1, <1>2 DEF PoolInv, LiveInv
  <1>4. TxInv(k)'
    <2> SUFFICES ASSUME Trusted(k)' PROVE HashIsLast(k)' /\ \A b \in Attempts : CountInv(k, b)'
      BY DEF TxInv
    <2>1. Trusted(k)
      BY DEF Trusted
    <2> QED BY <1>0, <2>1 DEF TxInv, HashIsLast, CountInv
  <1> QED BY <1>3, <1>4

LEMMA MineKeepsTxInv ==
    ASSUME OnceInv, NEW i \in ChainSteps, NEW a \in Attempts, Mine(i, a),
           NEW k \in ChainSteps
    PROVE  PoolInv(k)' /\ TxInv(k)'
  <1>0. TypeOK /\ Live(i, a) /\ LiveInv(i, a) /\ \A b \in Attempts : FateInv(k, b)
    BY OnceParts DEF Mine
  <1>1. /\ steps' = steps /\ job' = job
        /\ confirmed' = [confirmed EXCEPT ![signerFor(i)] = @ + 1]
    BY <1>0, MineTypes
  <1>2. PICK st : /\ tx' = [tx EXCEPT ![i][a].status = st]
                  /\ st = "mined" \/ (st = "reverted" /\ "revert" \in Faults)
    <2>1. Feasible(i, tx[i][a].amount)
      BY <1>0 DEF LiveInv
    <2> QED BY <2>1 DEF Mine
  <1>3. tx[i][a].nonce = confirmed[signerFor(i)] /\ confirmed[signerFor(i)] \in Nat
    BY <1>0, TypeParts, WalletOf DEF Mine
  <1>4. \A w \in Wallets : confirmed[w] \in Nat /\ confirmed'[w] \in Nat /\ confirmed[w] <= confirmed'[w]
    BY <1>0, <1>1, TypeParts
  <1>5. ASSUME NEW b \in Attempts
        PROVE  /\ tx'[k][b].nonce = tx[k][b].nonce
               /\ tx[k][b].status # "none" => tx'[k][b].status # "none"
               /\ Counts(k, b)' => Counts(k, b)
               /\ Fruitless(k, b) => Fruitless(k, b)'
               /\ ~Live(k, b)'
               /\ FateInv(k, b)'
    <2>1. tx[k][b].nonce \in Nat /\ signerFor(k) \in Wallets
      BY <1>0, TypeParts, WalletOf DEF TxRecord
    <2>2. CASE k = i /\ b = a
      <3>1. tx'[k][b].status = st /\ tx'[k][b].nonce = tx[k][b].nonce
        BY <1>0, <1>2, <2>2, TypeParts DEF TxRecord
      <3>2. tx'[k][b].nonce < confirmed'[signerFor(k)]
        BY <1>0, <1>1, <1>3, <2>1, <2>2, <3>1, TypeParts
      <3>3. Counts(k, b) /\ ~Fruitless(k, b)
        BY <1>0, <2>2 DEF Counts, Fruitless
      <3>4. ~Live(k, b)' /\ (st = "mined" => ~Fruitless(k, b)')
        BY <1>2, <3>1 DEF Live, Fruitless
      <3>5. FateInv(k, b)'
        BY <1>2, <3>1, <3>2, <3>4 DEF FateInv
      <3> QED BY <1>2, <3>1, <3>3, <3>4, <3>5
    <2>3. CASE ~(k = i /\ b = a)
      <3>1. tx'[k][b] = tx[k][b]
        BY <1>0, <1>2, <2>3, TypeParts
      <3>2. ~Live(k, b)
        BY <1>0, <2>3, OnlyOneLive
      <3>3. ~Live(k, b)'
        BY <1>4, <2>1, <3>1, <3>2 DEF Live
      <3>4. (Fruitless(k, b)' <=> Fruitless(k, b)) /\ (Counts(k, b)' => Counts(k, b))
        BY <3>1, <3>2, <3>3 DEF Fruitless, Counts
      <3>5. FateInv(k, b)'
        BY <1>0, <1>4, <2>1, <3>1, <3>4 DEF FateInv
      <3> QED BY <3>1, <3>3, <3>4, <3>5
    <2> QED BY <2>2, <2>3
  <1> QED BY <1>1, <1>5, LessLive

LEMMA BackgroundKeepsTxInv ==
    ASSUME NoLateAnswers, OnceInv, Background, NEW k \in ChainSteps
    PROVE  PoolInv(k)' /\ TxInv(k)'
  <1>0. /\ TypeOK /\ k \in Steps /\ signerFor(k) \in Wallets
        /\ \A b \in Attempts : LiveInv(k, b) /\ FateInv(k, b) /\ tx[k][b].nonce \in Nat
    BY OnceParts, StepNumbers, WalletOf, TypeParts DEF TxRecord
  <1>q. job.at = "down" => "slowPool" \notin Faults
    BY OnceParts DEF NoLateAnswers, WorkerKnows
  <1>u. ASSUME tx' = tx, confirmed' = confirmed, book' = book
        PROVE  \A b \in Attempts :
                   /\ tx'[k][b].nonce = tx[k][b].nonce
                   /\ tx[k][b].status # "none" => tx'[k][b].status # "none"
                   /\ Counts(k, b)' => Counts(k, b)
                   /\ Fruitless(k, b) => Fruitless(k, b)'
                   /\ Live(k, b)' => /\ Live(k, b) /\ tx'[k][b] = tx[k][b] /\ book' = book
                                     /\ confirmed'[signerFor(k)] = confirmed[signerFor(k)]
                   /\ FateInv(k, b)'
    BY <1>u, <1>0, SameTx DEF Fruitless, Live
  <1>1. CASE PlanFails
    <2>1. job.at = "plan" /\ job'.at = "idle" /\ UNCHANGED <<steps, tx, confirmed, book>>
      BY <1>1, IdleView DEF PlanFails, At, docVars, chainVars
    <2>2. NoneLive(k)
      BY <2>1, <1>0 DEF NoneLive, LiveInv
    <2> QED BY <2>1, <2>2, <1>u, LessLive
  <1>2. CASE FinishFlow \/ UNCHANGED vars
    <2>1. UNCHANGED <<steps, job, tx, confirmed, book>>
      BY <1>2 DEF FinishFlow, vars, docVars, chainVars
    <2> QED BY <2>1, <1>u, LessLive
  <1>3. CASE GiveUp
    <2>1. /\ job.at \in {"idle", "giveUp"} /\ job'.at = "idle"
          /\ UNCHANGED <<steps, tx, confirmed, book>>
      BY <1>3, IdleView DEF GiveUp, At, Ticking, chainVars
    <2>2. NoneLive(k)
      BY <2>1, <1>0 DEF NoneLive, LiveInv
    <2> QED BY <2>1, <2>2, <1>u, LessLive
  <1>4. CASE Crash
    <2>1. job'.at = "down" /\ UNCHANGED <<steps, tx, confirmed, book>>
      BY <1>4, IdleView DEF Crash, docVars, chainVars
    <2> QED BY <2>1, <1>u, LessLive
  <1>5. CASE Restart
    <2>1. job'.at = "idle" /\ UNCHANGED <<steps, tx, confirmed, book>>
      BY <1>5, IdleView DEF Restart, docVars, chainVars
    <2>2. NoneLive(k)
      BY <1>5, <1>q DEF Restart, PoolIsEmpty, At, NoneLive
    <2> QED BY <2>1, <2>2, <1>u, LessLive
  <1>6. CASE ManualSend
    <2>1. /\ UNCHANGED <<steps, job, tx, book>> /\ "manual" \in Faults
          /\ confirmed' = [confirmed EXCEPT !["admin"] = @ + 1]
      BY <1>6 DEF ManualSend, docVars
    <2>2. \A w \in Wallets : /\ confirmed[w] \in Nat /\ confirmed'[w] \in Nat
                             /\ confirmed'[w] = confirmed[w] \/ confirmed'[w] = confirmed[w] + 1
      BY <1>0, <2>1, TypeParts
    <2>3. ASSUME NEW b \in Attempts
          PROVE  /\ Counts(k, b)' => Counts(k, b)
                 /\ Fruitless(k, b) => Fruitless(k, b)'
                 /\ Live(k, b)' => Live(k, b) /\ confirmed'[signerFor(k)] = confirmed[signerFor(k)]
                 /\ FateInv(k, b)'
      <3>1. Live(k, b)' => Live(k, b) /\ confirmed'[signerFor(k)] = confirmed[signerFor(k)]
        BY <2>1, <2>2, <1>0 DEF Live, LiveInv
      <3>2. Fruitless(k, b) => Fruitless(k, b)'
        BY <2>1, <3>1 DEF Fruitless
      <3>3. FateInv(k, b)'
        BY <2>1, <2>2, <1>0 DEF FateInv
      <3> QED BY <2>1, <3>1, <3>2, <3>3 DEF Counts
    <2> QED BY <2>1, <2>3, LessLive
  <1>7. ASSUME NEW i \in ChainSteps, NEW a \in Attempts, Mine(i, a)
        PROVE  PoolInv(k)' /\ TxInv(k)'
    BY <1>7, MineKeepsTxInv
  <1>8. ASSUME NEW i \in ChainSteps, NEW a \in Attempts, Drop(i, a)
        PROVE  PoolInv(k)' /\ TxInv(k)'
    <2>1. /\ UNCHANGED <<steps, job, confirmed, book>> /\ tx' = [tx EXCEPT ![i][a].status = "dropped"]
          /\ Live(i, a) /\ "dropped" \in Faults
      BY <1>8 DEF Drop, docVars
    <2>2. ASSUME NEW b \in Attempts
          PROVE  /\ tx'[k][b].nonce = tx[k][b].nonce
                 /\ \/ tx'[k][b] = tx[k][b]
                    \/ Live(k, b) /\ tx'[k][b].status = "dropped"
      BY <2>1, <1>0, TypeParts DEF TxRecord
    <2>3. ASSUME NEW b \in Attempts
          PROVE  /\ tx[k][b].status # "none" => tx'[k][b].status # "none"
                 /\ Counts(k, b)' => Counts(k, b)
                 /\ Fruitless(k, b) => Fruitless(k, b)'
                 /\ Live(k, b)' => Live(k, b) /\ tx'[k][b] = tx[k][b]
                 /\ FateInv(k, b)'
      <3>1. CASE tx'[k][b] = tx[k][b]
        BY <2>1, <3>1, <1>0 DEF Live, Counts, Fruitless, FateInv
      <3>2. CASE Live(k, b) /\ tx'[k][b].status = "dropped"
        BY <2>1, <3>2 DEF Live, Counts, Fruitless, FateInv
      <3> QED BY <2>2, <3>1, <3>2
    <2> QED BY <2>1, <2>2, <2>3, LessLive
  <1> QED
    BY <1>1, <1>2, <1>3, <1>4, <1>5, <1>6, <1>7, <1>8 DEF Background, MineNext, DropNext

(* What a step of the worker about step i takes in hand and leaves there.  *)
LEMMA StepInHand ==
    ASSUME TypeOK, NEW i \in Steps, StepNext(i)
    PROVE  /\ job.at \in Working => job.step = i
           /\ steps'[i].status \in {"sending", "sent"} => WorksOn(i)'
           /\ job'.at # "down"
           /\ job'.at = "record" => job'.step = i
           /\ job'.at = "send" => PinNonce(i)
  <1>1. CASE BeginStep(i) \/ Skip(i) \/ PinNonce(i) \/ SendRefused(i)
    BY <1>1, BeginView, SkipView, PinView, RefusedView DEF Becomes, WorksOn, Working
  <1>2. CASE Broadcast(i)
    BY <1>2, BroadcastView DEF Becomes, WorksOn, Working
  <1>3. CASE RecordHash(i) \/ Settle(i)
    BY <1>3, RecordView, SettleView DEF Becomes, WorksOn, Working
  <1>4. CASE Confirm(i)
    BY <1>4, ConfirmView DEF Becomes, WorksOn, Working
  <1>5. CASE ResolveByHash(i) \/ ResolveByNonce(i)
    BY <1>5, ByHashView, ByNonceView DEF Becomes, WorksOn, Working
  <1> QED BY <1>1, <1>2, <1>3, <1>4, <1>5 DEF StepNext

(* With an empty mempool the pending count is the confirmed one.           *)
LEMMA PinsTheNext ==
    ASSUME OnceInv, NEW i \in Steps, PinNonce(i)
    PROVE  job'.step = i /\ steps'[i].nonce <= confirmed'[signerFor(i)]
  <1>0. /\ TypeOK /\ \A k \in ChainSteps, a \in Attempts : LiveInv(k, a)
        /\ job.at = "plan" /\ job'.step = i /\ confirmed' = confirmed /\ confirmed[signerFor(i)] \in Nat
    BY OnceParts, PinView, WalletOf, TypeParts
  <1>1. PICK n \in confirmed[signerFor(i)] .. confirmed[signerFor(i)] + 6 * AttemptBound :
            /\ PendingCount(signerFor(i), n)
            /\ steps' = [steps EXCEPT ![i].status = "sending", ![i].nonce = n]
    BY DEF PinNonce
  <1>2. steps'[i].nonce = n
    BY <1>0, <1>1, TypeParts DEF StepRecord
  <1>3. ~NonceTaken(signerFor(i), confirmed[signerFor(i)])
    <2> SUFFICES ASSUME NEW k \in ChainSteps, NEW a \in Attempts, signerFor(k) = signerFor(i),
                        tx[k][a].status = "pool", tx[k][a].nonce = confirmed[signerFor(i)]
                 PROVE  FALSE
      BY DEF NonceTaken
    <2>1. Live(k, a)
      BY <1>0 DEF Live
    <2> QED BY <1>0, <2>1 DEF LiveInv
  <1>4. AttemptBound \in Nat /\ n \in Nat
    BY <1>0, Bounds
  <1>5. n <= confirmed[signerFor(i)]
    BY <1>0, <1>1, <1>3, <1>4 DEF PendingCount
  <1> QED BY <1>0, <1>2, <1>5

LEMMA WorkerKnowsNext ==
    ASSUME OnceInv, [Next]_vars
    PROVE  WorkerKnows'
  <1>0. /\ TypeOK /\ JobInv /\ WorkerKnows /\ ChainSteps \subseteq Steps
        /\ openShort \notin ChainSteps
    BY OnceParts, StepNumbers
  <1>1. ASSUME NEW i \in Steps, StepNext(i) PROVE WorkerKnows'
    <2>1. job'.at = "send" => steps'[job'.step].nonce <= confirmed'[signerFor(job'.step)]
      BY <1>0, <1>1, StepInHand, PinsTheNext
    <2> QED BY <1>0, <1>1, <2>1, StepInHand, StepShape DEF Others, WorksOn, WorkerKnows
  <1>2. CASE OrderAccepted \/ OrderFails \/ RecordShort
    <2>1. /\ Others(openShort) /\ job.at \in {"plan", "fill"} /\ job'.at \in {"fill", "idle", "giveUp"}
          /\ job.step = openShort
      BY <1>2, <1>0, OrderView DEF Becomes, Others, JobInv
    <2> QED BY <1>0, <2>1 DEF Others, WorksOn, WorkerKnows
  <1>3. CASE Background
    <2>1. steps' = steps
      BY <1>0, <1>3, BackgroundView
    <2>2. CASE PlanFails \/ GiveUp
      <3>1. job.at \in {"plan", "idle", "giveUp"} /\ job'.at = "idle"
        BY <2>2, IdleView DEF PlanFails, GiveUp, At, Ticking
      <3>2. "crash" \notin Faults => \A k \in ChainSteps : steps[k].status \notin {"sending", "sent"}
        BY <1>0, <3>1 DEF WorkerKnows, WorksOn, Working, JobInv
      <3> QED BY <2>1, <3>1, <3>2 DEF WorkerKnows
    <2>3. CASE Crash \/ Restart
      <3>1. "crash" \in Faults /\ job'.at # "send"
        BY <1>0, <2>3, IdleView DEF Crash, Restart, At, WorkerKnows
      <3> QED BY <3>1 DEF WorkerKnows
    <2>4. CASE FinishFlow \/ MineNext \/ DropNext \/ ManualSend \/ UNCHANGED vars
      <3>1. job' = job
        BY <2>4 DEF FinishFlow, MineNext, Mine, DropNext, Drop, ManualSend, vars
      <3>2. \A w \in Wallets : confirmed[w] \in Nat /\ confirmed'[w] \in Nat /\ confirmed[w] <= confirmed'[w]
        <4>1. ASSUME NEW i \in ChainSteps, NEW a \in Attempts, Mine(i, a)
              PROVE  confirmed' = [confirmed EXCEPT ![signerFor(i)] = @ + 1]
          BY <4>1 DEF Mine
        <4>2. \/ confirmed' = confirmed
              \/ \E w \in Wallets : confirmed' = [confirmed EXCEPT ![w] = @ + 1]
          BY <2>4, <4>1, WalletOf DEF FinishFlow, MineNext, DropNext, Drop, ManualSend, vars, chainVars, Wallets
        <4> QED BY <1>0, <4>2, TypeParts
      <3>3. job.at = "send" => steps'[job.step].nonce <= confirmed'[signerFor(job.step)]
        <4>1. steps[job.step].nonce \in Nat /\ signerFor(job.step) \in Wallets
          BY <1>0, TypeParts, WalletOf DEF StepRecord, JobRecord
        <4> QED BY <1>0, <2>1, <3>2, <4>1 DEF WorkerKnows
      <3> QED BY <1>0, <2>1, <3>1, <3>3 DEF WorksOn, WorkerKnows
    <2> QED BY <1>3, <2>2, <2>3, <2>4 DEF Background
  <1> QED BY <1>1, <1>2, <1>3, NextIsOneOf

LEMMA OnceInvInit == Init => OnceInv
  <1> SUFFICES ASSUME Init PROVE OnceInv
    OBVIOUS
  <1>1. AllocInv
    BY AllocInvInit
  <1>2. \A k \in Steps : steps[k].txHash = 0 /\ steps[k].status = "pending"
    BY DEF Init
  <1>3. \A k \in ChainSteps, a \in Attempts : tx[k][a].status = "none"
    BY DEF Init, NoTx
  <1>4. job.at = "idle"
    BY DEF Init, Idle
  <1>5. \A k \in ChainSteps, a \in Attempts : ~Live(k, a) /\ ~Counts(k, a) /\ ~Fruitless(k, a)
    BY <1>3 DEF Live, Counts, Fruitless
  <1> QED
    BY <1>1, <1>2, <1>3, <1>4, <1>5, StepNumbers DEF OnceInv, HashIsLast, TxInv, CountInv, LiveInv,
       FateInv, PoolInv, SentInv, WorkerKnows

LEMMA OnceInvNext == ASSUME NoLateAnswers PROVE OnceInv /\ [Next]_vars => OnceInv'
  <1> SUFFICES ASSUME OnceInv, [Next]_vars PROVE OnceInv'
    OBVIOUS
  <1>0. /\ AllocInv' /\ TypeOK /\ JobInv /\ WorkerKnows'
        /\ openShort \in Steps /\ openShort \notin ChainSteps
    BY OnceParts, AllocInvNext, WorkerKnowsNext, StepNumbers DEF OnceInv
  <1>1. ASSUME NEW i \in Steps, StepNext(i) PROVE OnceInv'
    <2>1. /\ Others(i) /\ job.at # "down" /\ confirmed' = confirmed
          /\ job.at \in {"record", "confirm"} => job.step = i
          /\ job'.at \in {"plan", "send", "record"} => job'.step = i
          /\ \A k \in ChainSteps \ {i} : tx'[k] = tx[k]
      BY <1>1, <1>0, StepShape, StepInHand
    <2>2. \A k \in ChainSteps \ {i} : PoolInv(k)' /\ TxInv(k)'
      BY <2>1, OthersKeepTxInv
    <2>3. i \in ChainSteps => PoolInv(i)' /\ TxInv(i)'
      BY <1>1, StepKeepsTxInv
    <2> QED BY <1>0, <2>2, <2>3 DEF OnceInv
  <1>2. CASE OrderAccepted \/ OrderFails \/ RecordShort
    <2>1. /\ Others(openShort) /\ tx' = tx /\ confirmed' = confirmed
          /\ job.at \in {"plan", "fill"} /\ job'.at \in {"fill", "idle", "giveUp"}
      BY <1>2, <1>0, OrderView DEF Becomes, Others
    <2>2. \A k \in ChainSteps : PoolInv(k)' /\ TxInv(k)'
      BY <2>1, <1>0, OthersKeepTxInv
    <2> QED BY <1>0, <2>2 DEF OnceInv
  <1>3. CASE Background
    BY <1>0, <1>3, BackgroundKeepsTxInv DEF OnceInv
  <1> QED BY <1>1, <1>2, <1>3, NextIsOneOf

LEMMA TrustedOnce ==
    ASSUME OnceInv, NEW i \in ChainSteps, Trusted(i)
    PROVE  OnlyOnce(i)
  BY OnceParts DEF TxInv, CountInv, Counts, OnlyOnce, Executed

(* txRunner.ts 5-8, over crashes: if no receipt, answer or read is late or *)
(* lost and a restart finds the mempool empty, a step whose transactions   *)
(* were neither reverted, forgotten nor replaced is mined at most once,    *)
(* whatever else fails and however often it is tried.                      *)
THEOREM MinedOnceOverCrashes == ASSUME NoLateAnswers PROVE Spec => []SentOnce
  <1>1. OnceInv => SentOnce
    BY TrustedOnce DEF SentOnce, Trusted
  <1>2. OnceInv /\ [Next]_vars => OnceInv'
    BY OnceInvNext
  <1> QED BY <1>1, <1>2, OnceInvInit, PTL DEF Spec

LEMMA AllTrusted ==
    ASSUME NoSecondSend, OnceInv, NEW i \in ChainSteps
    PROVE  Trusted(i)
  BY OnceParts DEF Trusted, FateInv, NoSecondSend

(* txRunner.ts 5: in the same conditions every step's transaction is mined *)
(* at most once: through reverts, drops, manual sends and the retries they *)
(* cause, as long as nothing crashes, and through crashes as long as there *)
(* are none of those.                                                      *)
THEOREM SentAtMostOnce == ASSUME NoSecondSend PROVE Spec => []AtMostOnce
  <1>0. NoLateAnswers
    BY DEF NoSecondSend
  <1>1. OnceInv => AtMostOnce
    BY TrustedOnce, AllTrusted DEF AtMostOnce
  <1>2. OnceInv /\ [Next]_vars => OnceInv'
    BY <1>0, OnceInvNext
  <1> QED BY <1>1, <1>2, OnceInvInit, PTL DEF Spec

(* flowEngine.ts 28-29, in the conditions of SentAtMostOnce: nothing is    *)
(* sent for a step whose transaction is mined.                             *)
THEOREM NothingSentAgain == ASSUME NoSecondSend PROVE Spec => NeverResent
  <1>1. OnceInv /\ [Next]_vars =>
            [\A i \in ChainSteps, a \in Attempts :
                tx[i][a] = NoTx /\ tx'[i][a] # NoTx => Executed(i) = {}]_vars
    <2> SUFFICES ASSUME OnceInv, Next, NEW k \in ChainSteps, NEW a \in Attempts,
                        tx[k][a] = NoTx, tx'[k][a] # NoTx
                 PROVE  Executed(k) = {}
      OBVIOUS
    <2>0. TypeOK /\ JobInv /\ TxInv(k) /\ Trusted(k)
      BY OnceParts, AllTrusted
    <2>1. ASSUME NEW i \in Steps, StepNext(i) PROVE Executed(k) = {}
      <3>1. PICK j \in Steps : Broadcast(j)
        BY <2>1, <2>0, OnlyBroadcastSends
      <3>2. job.at = "send" /\ job.step = j /\ (k # j => tx'[k] = tx[k])
        BY <3>1, <2>0, BroadcastView, TypeParts
      <3> QED BY <3>2, <2>0 DEF TxInv, CountInv, Counts, Executed
    <2>2. ~(OrderAccepted \/ OrderFails \/ RecordShort)
      BY <2>0, OrderView
    <2>3. ~Background
      BY <2>0, BackgroundView
    <2> QED BY <2>1, <2>2, <2>3, NextIsOneOf
  <1>2. OnceInv /\ [Next]_vars => OnceInv'
    BY OnceInvNext DEF NoSecondSend
  <1> QED BY <1>1, <1>2, OnceInvInit, PTL DEF Spec, NeverResent

=============================================================================
