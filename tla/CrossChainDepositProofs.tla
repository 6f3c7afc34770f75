----------------------- MODULE CrossChainDepositProofs -----------------------
(***************************************************************************)
(* Proofs about CrossChainDeposit, for any accounts, amounts and numbers   *)
(* of executions, transfers, reloads and changes of account.               *)
(*                                                                         *)
(* MoneyFollowsSignature is not inductive: what lets a transfer go out is  *)
(* what the page believes, a status it was shown or a hash it has kept.    *)
(* DepositInv says when those beliefs are true: a hash is only kept for    *)
(* a signed execution, and a status that says "signed" is right about the  *)
(* session on the screen as long as that session is the account's own.     *)
(*                                                                         *)
(* TransferInv builds on it: as long as no session was dropped before it   *)
(* was over, the one slot in storage, the screen and the function in       *)
(* progress agree on the execution that can still move money.              *)
(***************************************************************************)
EXTENDS CrossChainDeposit, SequenceTheorems, TLAPS

Ids == Executions \cup {None}

States  == {"none", "unknown", "DEPOSIT_PENDING", "OPERATION_PENDING"} \cup Over
Kinds   == {"none", "deposit", "recovery"}
Places  == {"idle", "creating", "signing", "sending", "sent", "confirming", "recovering",
            "recoverySigning"}
TxState == {"pending", "ok", "reverted"}

SessionType == [id : Ids, hash : Nat, recovery : Ids, settled : BOOLEAN]
StatusType  == [state : States, signed : BOOLEAN, leftover : BOOLEAN, minted : BOOLEAN]
UiType == [session : SessionType, restored : Ids, started : Ids,
           quote : [ready : BOOLEAN, reused : Nat], status : StatusType,
           recovery : [of : Ids, state : States, signed : BOOLEAN]]
OpType   == [pc : Places, cur : SessionType, reused : Nat, acct : Accounts \cup {None}]
ExecType == [kind : Kinds, acct : Accounts \cup {None}, amount : Nat, state : States,
             signed : BOOLEAN, live : BOOLEAN, short : BOOLEAN]

(* The type invariant of the page and of what it keeps.                    *)
PageTypes ==
    /\ address \in Accounts
    /\ ui \in UiType /\ op \in OpType
    /\ stored \in SessionType /\ recent \in SessionType
    /\ op.pc = "creating" => op.acct \in Accounts
    /\ op.pc = "recovering" => op.acct \in Accounts

(* The type invariant of Aurora and the source chain.                      *)
ChainTypes ==
    /\ exec \in [Executions -> ExecType]
    /\ txs \in [Executions -> Seq(TxState)]
    /\ held \in [Accounts -> Nat]
    /\ \A id \in Executions : exec[id].kind # "none" => exec[id].acct \in Accounts
    /\ \A id \in Executions : exec[id].kind = "none" => exec[id].state = "none"

(* A session is of an execution that was made, and keeps a hash only once  *)
(* that execution was signed.                                              *)
SessionTrue(s) ==
    /\ s.id = None => s = NoSession
    /\ s.id # None => exec[s.id].kind # "none"
    /\ s.hash # 0 => s.id # None /\ exec[s.id].signed

(* The sessions there are: on the screen, in hand, and the two in storage. *)
SessionsTrue ==
    SessionTrue(ui.session) /\ SessionTrue(op.cur) /\ SessionTrue(stored) /\ SessionTrue(recent)

(* What the function in progress has behind it.                            *)
OpTrue ==
    /\ op.pc \notin {"idle", "creating"} => op.cur.id # None
    /\ op.pc \in {"sending", "sent", "confirming"} => exec[op.cur.id].signed

(* Aurora runs nothing that is not signed.                                 *)
RunsAreSigned ==
    \A id \in Executions :
        exec[id].state \in {"OPERATION_PENDING", "SUCCESS", "OPERATION_FAILED"} => exec[id].signed

(* What the screen says of the session of the connected account; without a *)
(* session it says nothing.                                                *)
StatusTrue ==
    /\ ui.status.signed /\ ui.session.id # None /\ exec[ui.session.id].acct = address
           => exec[ui.session.id].signed
    /\ ui.session.id = None => ~ui.status.leftover

DepositInv ==
    /\ PageTypes /\ ChainTypes
    /\ MoneyFollowsSignature /\ SessionsTrue /\ OpTrue /\ RunsAreSigned /\ StatusTrue

-----------------------------------------------------------------------------
LEMMA Blank ==
    /\ NoSession \in SessionType /\ NoStatus \in StatusType /\ FreshUi \in UiType
    /\ Idle \in OpType /\ NoExec \in ExecType
    /\ SessionTrue(NoSession)
    /\ NoSession.id = None /\ NoSession.recovery = None
    /\ ~NoStatus.signed /\ ~NoStatus.leftover /\ NoExec.kind = "none"
    /\ Idle.cur = NoSession /\ Idle.pc = "idle"
    /\ FreshUi.session = NoSession /\ FreshUi.status = NoStatus
  <1>1. /\ NoSession \in SessionType /\ SessionTrue(NoSession)
        /\ NoSession.id = None /\ NoSession.recovery = None
    BY DEF NoSession, SessionType, Ids, None, SessionTrue
  <1>2. NoStatus \in StatusType /\ ~NoStatus.signed /\ ~NoStatus.leftover
    BY DEF NoStatus, StatusType, States
  <1>3. FreshUi \in UiType /\ FreshUi.session = NoSession /\ FreshUi.status = NoStatus
    BY <1>1, <1>2 DEF FreshUi, UiType, NoQuote, NoRecovery, Ids, None, States
  <1>4. Idle \in OpType /\ Idle.cur = NoSession /\ Idle.pc = "idle"
    BY <1>1 DEF Idle, OpType, None, Places
  <1>5. NoExec \in ExecType /\ NoExec.kind = "none"
    BY DEF NoExec, ExecType, None, States, Kinds
  <1> QED BY <1>1, <1>2, <1>3, <1>4, <1>5

(* What Aurora does to an execution: it never touches whose it is, what    *)
(* it is for, or whether it is signed.                                     *)
SameExecution(id) ==
    /\ exec' \in [Executions -> ExecType]
    /\ \A e \in Executions : /\ exec'[e].kind = exec[e].kind
                             /\ exec'[e].acct = exec[e].acct
                             /\ exec'[e].signed = exec[e].signed
    /\ \A e \in Executions \ {id} : exec'[e] = exec[e]

LEMMA StateMoves ==
    ASSUME ChainTypes, NEW id \in Executions, NEW state \in States, Becomes(id, state)
    PROVE  SameExecution(id) /\ exec'[id].state = state
  <1>1. exec[id] \in ExecType /\ exec \in [Executions -> ExecType]
    BY DEF ChainTypes
  <1>2. [exec[id] EXCEPT !.state = state] \in ExecType
    BY <1>1 DEF ExecType
  <1>3. /\ exec' \in [Executions -> ExecType]
        /\ exec'[id] = [exec[id] EXCEPT !.state = state]
        /\ \A e \in Executions \ {id} : exec'[e] = exec[e]
    BY <1>1, <1>2 DEF Becomes
  <1> QED BY <1>1, <1>3 DEF SameExecution, ExecType

LEMMA DeadlinePasses ==
    ASSUME ChainTypes, NEW id \in Executions, exec' = [exec EXCEPT ![id].live = FALSE]
    PROVE  SameExecution(id) /\ exec'[id].state = exec[id].state
  <1>1. exec[id] \in ExecType /\ exec \in [Executions -> ExecType]
    BY DEF ChainTypes
  <1>2. [exec[id] EXCEPT !.live = FALSE] \in ExecType
    BY <1>1 DEF ExecType
  <1>3. /\ exec' \in [Executions -> ExecType]
        /\ exec'[id] = [exec[id] EXCEPT !.live = FALSE]
        /\ \A e \in Executions \ {id} : exec'[e] = exec[e]
    BY <1>1, <1>2
  <1> QED BY <1>1, <1>3 DEF SameExecution, ExecType

LEMMA OperationFails ==
    ASSUME ChainTypes, NEW id \in Executions, NEW b \in BOOLEAN,
           exec' = [exec EXCEPT ![id].state = "OPERATION_FAILED", ![id].short = b]
    PROVE  SameExecution(id) /\ exec'[id].state = "OPERATION_FAILED"
  <1>1. exec[id] \in ExecType /\ exec \in [Executions -> ExecType]
    BY DEF ChainTypes
  <1>2. [exec[id] EXCEPT !.state = "OPERATION_FAILED", !.short = b] \in ExecType
    BY <1>1 DEF ExecType, States, Over, Failed
  <1>3. /\ exec' \in [Executions -> ExecType]
        /\ exec'[id] = [exec[id] EXCEPT !.state = "OPERATION_FAILED", !.short = b]
        /\ \A e \in Executions \ {id} : exec'[e] = exec[e]
    BY <1>1, <1>2
  <1> QED BY <1>1, <1>3 DEF SameExecution, ExecType

LEMMA DepositInvInit == DepositInit => DepositInv
  <1> SUFFICES ASSUME DepositInit PROVE DepositInv
    OBVIOUS
  <1> USE Blank DEF DepositInit
  <1>1. PageTypes
    BY DEF PageTypes
  <1>2. ChainTypes
    BY DEF ChainTypes, NoExec
  <1>3. MoneyFollowsSignature /\ SessionsTrue /\ OpTrue /\ RunsAreSigned /\ StatusTrue
    BY DEF MoneyFollowsSignature, SessionsTrue, OpTrue, RunsAreSigned, StatusTrue, NoExec
  <1> QED BY <1>1, <1>2, <1>3 DEF DepositInv

(* The steps of Aurora and the chain: executions keep their kind, their    *)
(* account and their signature, transfers are only mined.                  *)
LEMMA AuroraIsSafe ==
    ASSUME DepositInv, Aurora
    PROVE  DepositInv'
  <1> USE DepositAssumption DEF DepositAssumption, States, Over, Failed, TxState, Kinds
  <1>1. PICK id \in Executions : Mined(id) \/ Deadline(id) \/ Expire(id) \/ Route(id) \/ Operate(id)
    BY DEF Aurora
  <1>2. UNCHANGED <<address, ui, op, stored, recent>>
    BY DEF Aurora
  <1>3. exec \in [Executions -> ExecType] /\ txs \in [Executions -> Seq(TxState)] /\ held \in [Accounts -> Nat]
    BY DEF DepositInv, ChainTypes
  <1>4. /\ ChainTypes'
        /\ \A e \in Executions :
              /\ exec'[e].kind = exec[e].kind /\ exec'[e].acct = exec[e].acct
              /\ exec'[e].signed = exec[e].signed
              /\ txs'[e] # <<>> => txs[e] # <<>>
              /\ exec'[e].state \in {"OPERATION_PENDING", "SUCCESS", "OPERATION_FAILED"} =>
                    exec[e].state \in {"OPERATION_PENDING", "SUCCESS", "OPERATION_FAILED"} \/ exec[e].signed
    <2>1. CASE Mined(id)
      <3>1. PICK i \in DOMAIN txs[id], outcome \in {"ok", "reverted"} :
               txs' = [txs EXCEPT ![id][i] = outcome]
        BY <2>1 DEF Mined
      <3>2. txs[id] \in Seq(TxState) /\ i \in 1 .. Len(txs[id])
        BY <1>3, <3>1
      <3>4. txs[id] # <<>> /\ [txs[id] EXCEPT ![i] = outcome] \in Seq(TxState)
        BY <3>2, ExceptSeq
      <3>3. UNCHANGED <<exec, held>>
        BY <2>1 DEF Mined
      <3> QED BY <1>3, <3>1, <3>3, <3>4 DEF DepositInv, ChainTypes
    <2>2. CASE Deadline(id)
      <3>1. SameExecution(id) /\ exec'[id].state = exec[id].state /\ UNCHANGED <<txs, held>>
        BY <2>2, DeadlinePasses DEF Deadline, DepositInv
      <3> QED BY <1>3, <3>1 DEF SameExecution, DepositInv, ChainTypes
    <2>3. CASE Expire(id)
      <3>1. SameExecution(id) /\ exec'[id].state = "EXPIRED" /\ UNCHANGED <<txs, held>>
        BY <2>3, StateMoves DEF Expire, DepositInv
      <3>2. exec[id].kind # "none"
        BY <2>3 DEF Expire, Pending, DepositInv, ChainTypes
      <3> QED BY <1>3, <3>1, <3>2 DEF SameExecution, DepositInv, ChainTypes
    <2>4. CASE Route(id)
      <3>1. SameExecution(id) /\ txs' = txs /\ exec[id].signed /\ exec[id].kind # "none"
        BY <2>4, StateMoves DEF Route, DepositInv
      <3>2. held' \in [Accounts -> Nat]
        BY <1>3, <2>4 DEF Route
      <3> QED BY <1>3, <3>1, <3>2 DEF SameExecution, DepositInv, ChainTypes
    <2>5. CASE Operate(id)
      <3>1. txs' = txs /\ exec[id].kind # "none" /\ exec[id].signed
        BY <2>5 DEF Operate, Pending, DepositInv, ChainTypes, RunsAreSigned
      <3> DEFINE a    == exec[id].acct
                 cost == exec[id].amount + IF exec[id].kind = "recovery" THEN Fee ELSE 0
      <3>2. \/ cost <= held[a] /\ held' = [held EXCEPT ![a] = @ - cost] /\ Becomes(id, "SUCCESS")
            \/ /\ exec' = [exec EXCEPT ![id].state = "OPERATION_FAILED", ![id].short = cost > held[a]]
               /\ held' = held
        BY <2>5 DEF Operate
      <3>3. cost \in Nat /\ a \in Accounts /\ held[a] \in Nat
        BY <1>3, <3>1 DEF ExecType, DepositInv, ChainTypes
      <3>4. held' \in [Accounts -> Nat]
        <4>1. CASE cost <= held[a] /\ held' = [held EXCEPT ![a] = held[a] - cost]
          <5> HIDE DEF cost, a
          <5>1. held[a] - cost \in Nat
            BY <3>3, <4>1
          <5> QED BY <1>3, <4>1, <5>1
        <4> QED BY <1>3, <3>2, <4>1
      <3>5. SameExecution(id)
        <4>1. CASE Becomes(id, "SUCCESS")
          BY <4>1, StateMoves DEF DepositInv
        <4>2. CASE exec' = [exec EXCEPT ![id].state = "OPERATION_FAILED", ![id].short = cost > held[a]]
          <5>1. (cost > held[a]) \in BOOLEAN
            OBVIOUS
          <5> HIDE DEF cost, a
          <5> QED BY <4>2, <5>1, OperationFails DEF DepositInv
        <4> QED BY <3>2, <4>1, <4>2
      <3> QED BY <1>3, <3>1, <3>4, <3>5 DEF SameExecution, DepositInv, ChainTypes
    <2> QED BY <1>1, <2>1, <2>2, <2>3, <2>4, <2>5
  <1>5. PageTypes'
    BY <1>2 DEF DepositInv, PageTypes
  <1>6. ui.session.id \in Ids /\ op.cur.id \in Ids /\ stored.id \in Ids /\ recent.id \in Ids
    BY DEF DepositInv, PageTypes, UiType, OpType, SessionType
  <1>7. SessionsTrue'
    BY <1>2, <1>4, <1>6 DEF DepositInv, SessionsTrue, SessionTrue, Ids
  <1>8. OpTrue' /\ StatusTrue'
    BY <1>2, <1>4, <1>6 DEF DepositInv, OpTrue, StatusTrue, Ids
  <1>9. MoneyFollowsSignature' /\ RunsAreSigned'
    BY <1>4 DEF DepositInv, MoneyFollowsSignature, RunsAreSigned
  <1> QED BY <1>4, <1>5, <1>7, <1>8, <1>9 DEF DepositInv

-----------------------------------------------------------------------------
(* The steps of the page that leave Aurora and the chain alone.            *)
LEMMA PageStep ==
    ASSUME DepositInv, UNCHANGED auroraVars, PageTypes', SessionsTrue', OpTrue', StatusTrue'
    PROVE  DepositInv'
  <1>1. UNCHANGED <<exec, txs, held>>
    BY DEF auroraVars
  <1>2. ChainTypes' /\ MoneyFollowsSignature' /\ RunsAreSigned'
    BY <1>1 DEF DepositInv, ChainTypes, MoneyFollowsSignature, RunsAreSigned
  <1> QED BY <1>2 DEF DepositInv

(* What a load or a change of account puts on the screen is what storage   *)
(* held, with no status yet.                                               *)
LEMMA RestoreIsSafe ==
    ASSUME DepositInv, NEW a \in Accounts, NEW base \in UiType, Restore(a, base), exec' = exec
    PROVE  /\ address' = a /\ ui' \in UiType /\ stored' \in SessionType /\ recent' \in SessionType
           /\ SessionTrue(ui.session)' /\ SessionTrue(stored)' /\ SessionTrue(recent)'
           /\ ~ui'.status.signed /\ ~ui'.status.leftover
  <1> DEFINE active   == IF stored.id # None /\ Owner(stored) = a THEN stored ELSE NoSession
             archived == active.settled /\ active.recovery = None
             shown    == IF archived THEN NoSession ELSE active
  <1>1. /\ stored \in SessionType /\ recent \in SessionType
        /\ SessionTrue(stored) /\ SessionTrue(recent)
    BY DEF DepositInv, PageTypes, SessionsTrue
  <1>2. active \in SessionType /\ SessionTrue(active) /\ shown \in SessionType /\ SessionTrue(shown)
    BY <1>1, Blank
  <1>3. /\ address' = a /\ stored' = IF archived THEN NoSession ELSE stored
        /\ recent' = IF archived THEN active ELSE recent
        /\ ui' = [FreshUi EXCEPT !.session = shown, !.restored = shown.id,
                                 !.recovery = base.recovery]
    BY DEF Restore
  <1> HIDE DEF active, archived, shown
  <1>4. ui' \in UiType /\ ui'.session = shown /\ ui'.status = NoStatus
    BY <1>2, <1>3, Blank DEF UiType, SessionType
  <1>5. SessionTrue(ui.session)' /\ SessionTrue(stored)' /\ SessionTrue(recent)'
    BY <1>1, <1>2, <1>3, <1>4, Blank DEF SessionTrue
  <1> QED BY <1>1, <1>2, <1>3, <1>4, <1>5, Blank

LEMMA ReloadIsSafe ==
    ASSUME DepositInv, Reload
    PROVE  DepositInv'
  <1>1. address \in Accounts /\ FreshUi \in UiType /\ UNCHANGED <<exec, txs, held>> /\ op' = Idle
    BY Blank DEF DepositInv, PageTypes, Reload, Done, auroraVars
  <1>2. /\ address' = address /\ ui' \in UiType /\ stored' \in SessionType /\ recent' \in SessionType
        /\ SessionTrue(ui.session)' /\ SessionTrue(stored)' /\ SessionTrue(recent)'
        /\ ~ui'.status.signed /\ ~ui'.status.leftover
    BY <1>1, RestoreIsSafe DEF Reload
  <1>3. PageTypes' /\ OpTrue' /\ StatusTrue'
    BY <1>1, <1>2, Blank DEF PageTypes, OpTrue, StatusTrue
  <1>4. SessionsTrue'
    BY <1>1, <1>2, Blank DEF SessionsTrue, SessionTrue
  <1> QED BY <1>3, <1>4, PageStep DEF Reload

LEMMA SwitchIsSafe ==
    ASSUME DepositInv, NEW a \in Accounts, SwitchAccount(a)
    PROVE  DepositInv'
  <1>1. ui \in UiType /\ UNCHANGED <<exec, txs, held>> /\ op' = op
    BY DEF DepositInv, PageTypes, SwitchAccount, auroraVars
  <1>2. /\ address' = a /\ ui' \in UiType /\ stored' \in SessionType /\ recent' \in SessionType
        /\ SessionTrue(ui.session)' /\ SessionTrue(stored)' /\ SessionTrue(recent)'
        /\ ~ui'.status.signed /\ ~ui'.status.leftover
    BY <1>1, RestoreIsSafe DEF SwitchAccount
  <1>3. PageTypes' /\ OpTrue' /\ StatusTrue'
    BY <1>1, <1>2 DEF PageTypes, OpTrue, StatusTrue, DepositInv
  <1>4. SessionsTrue'
    BY <1>1, <1>2 DEF SessionsTrue, SessionTrue, DepositInv
  <1> QED BY <1>3, <1>4, PageStep DEF SwitchAccount

(* The steps that change only what is shown or what is in hand.            *)
LEMMA AskingIsSafe ==
    ASSUME DepositInv, Review \/ Start \/ StartRecovery \/ ResumeRecovery
    PROVE  DepositInv'
  <1>1. UNCHANGED <<address, stored, recent, exec, txs, held>>
    BY DEF Review, Start, StartRecovery, ResumeRecovery, auroraVars
  <1>2. /\ address \in Accounts /\ ui \in UiType /\ op \in OpType /\ held[address] \in Nat
        /\ ui.session \in SessionType /\ ui.quote.reused \in Nat
    BY DEF DepositInv, PageTypes, UiType, ChainTypes
  <1>3. CASE Review
    <2>1. op' = op /\ ui' = [ui EXCEPT !.quote = [ready |-> TRUE, reused |-> held[address]]]
      BY <1>3 DEF Review
    <2>2. ui' \in UiType /\ ui'.session = ui.session /\ ui'.status = ui.status
      BY <1>2, <2>1 DEF UiType
    <2>3. PageTypes' /\ OpTrue' /\ StatusTrue' /\ SessionsTrue'
      BY <1>1, <2>1, <2>2 DEF DepositInv, PageTypes, OpTrue, StatusTrue, SessionsTrue, SessionTrue
    <2> QED BY <1>1, <2>3, PageStep DEF auroraVars
  <1>4. CASE Start \/ StartRecovery \/ ResumeRecovery
    <2>1. /\ ui' = ui
          /\ \/ op' = [Idle EXCEPT !.pc = "creating", !.reused = ui.quote.reused, !.acct = address]
             \/ /\ ui.status.leftover /\ ui.session.recovery = None
                /\ op' = [Idle EXCEPT !.pc = "recovering", !.cur = ui.session, !.acct = address]
             \/ /\ ui.session.recovery # None
                /\ op' = [Idle EXCEPT !.pc = "recoverySigning", !.cur = ui.session, !.acct = address]
      BY <1>4 DEF Start, StartRecovery, ResumeRecovery
    <2>2. op' \in OpType /\ op'.cur \in {NoSession, ui.session} /\ op'.acct = address
      BY <1>2, <2>1, Blank DEF OpType, Places
    <2>3. op'.pc \in {"creating", "recovering", "recoverySigning"}
      BY <2>1, Blank DEF OpType
    <2>4. op'.pc # "creating" => ui.session.id # None
      <3>1. ui.session.id = None => ui.session = NoSession /\ ~ui.status.leftover
        BY <1>2 DEF DepositInv, SessionsTrue, SessionTrue, StatusTrue
      <3> QED BY <2>1, <3>1, Blank DEF OpType
    <2>5. PageTypes' /\ StatusTrue'
      BY <1>1, <1>2, <2>1, <2>2 DEF DepositInv, PageTypes, StatusTrue
    <2>6. OpTrue'
      BY <2>1, <2>2, <2>3, <2>4, Blank DEF OpTrue, OpType
    <2>7. SessionsTrue'
      BY <1>1, <2>1, <2>2, Blank DEF DepositInv, SessionsTrue, SessionTrue
    <2> QED BY <1>1, <2>5, <2>6, <2>7, PageStep DEF auroraVars
  <1> QED BY <1>3, <1>4

(* Continue goes to the transfer only when the screen says that Aurora has *)
(* the signature of the connected account's own session, and to the        *)
(* receipt only with a hash in hand.                                       *)
LEMMA ContinueIsSafe ==
    ASSUME DepositInv, Continue
    PROVE  DepositInv'
  <1>1. UNCHANGED <<address, stored, recent, exec, txs, held>>
    BY DEF Continue, auroraVars
  <1>2. /\ address \in Accounts /\ ui \in UiType /\ op \in OpType /\ op.pc = "idle"
        /\ ui.session \in SessionType /\ ui.session # NoSession
        /\ ui.session.id # None /\ SessionTrue(ui.session)
    BY DEF DepositInv, PageTypes, UiType, Continue, busy, SessionsTrue, SessionTrue
  <1>3. ui' \in UiType /\ ui'.session = ui.session /\ ui'.status = ui.status
    BY <1>2 DEF Continue, UiType, SessionType
  <1>4. \/ op' = op
        \/ /\ address = Owner(ui.session)
           /\ op' = [Idle EXCEPT !.pc = NextAfter(ui.status.signed), !.cur = ui.session, !.acct = address]
        \/ /\ ui.session.hash # 0
           /\ op' = [Idle EXCEPT !.pc = "confirming", !.cur = ui.session, !.acct = address]
    BY DEF Continue, AuthorizeAndSend
  <1>5. /\ op' \in OpType
        /\ op' = op \/ op'.pc \in {"signing", "sending", "confirming"}
        /\ op'.cur = op.cur \/ op'.cur = ui.session
    <2>1. NextAfter(ui.status.signed) \in {"signing", "sending"}
      BY DEF NextAfter
    <2> QED BY <1>2, <1>4, <2>1, Blank DEF OpType, Places
  <1>6. op'.pc \in {"sending", "confirming"} => op'.cur = ui.session /\ exec[ui.session.id].signed
    <2>1. ui.session.hash # 0 => exec[ui.session.id].signed
      BY <1>2 DEF SessionTrue
    <2>2. address = Owner(ui.session) /\ ui.status.signed => exec[ui.session.id].signed
      BY <1>2 DEF DepositInv, StatusTrue, Owner
    <2> QED BY <1>2, <1>4, <2>1, <2>2, Blank DEF NextAfter, OpType
  <1>7. PageTypes' /\ StatusTrue'
    BY <1>1, <1>2, <1>3, <1>5 DEF DepositInv, PageTypes, StatusTrue
  <1>8. OpTrue'
    <2>1. CASE op' = op
      BY <1>1, <2>1 DEF DepositInv, OpTrue
    <2>2. CASE op' # op
      BY <1>1, <1>2, <1>4, <1>5, <1>6, <2>2, Blank DEF OpTrue, OpType
    <2> QED BY <2>1, <2>2
  <1>9. SessionsTrue'
    BY <1>1, <1>3, <1>5 DEF DepositInv, SessionsTrue, SessionTrue
  <1> QED BY <1>1, <1>7, <1>8, <1>9, PageStep DEF auroraVars

(* The transfer itself: it goes to an execution that is signed.            *)
LEMMA SendIsSafe ==
    ASSUME DepositInv, Send
    PROVE  DepositInv'
  <1>1. UNCHANGED <<address, ui, stored, recent, exec, held>> /\ op.pc = "sending"
    BY DEF Send
  <1>2. op \in OpType /\ op.cur.id \in Executions /\ exec[op.cur.id].signed
    BY <1>1 DEF DepositInv, PageTypes, OpTrue, OpType, SessionType, Ids
  <1>3. /\ op' = Idle \/ op' = [op EXCEPT !.pc = "sent"]
        /\ txs' = txs \/ txs' = [txs EXCEPT ![op.cur.id] = Append(txs[op.cur.id], "pending")]
    BY DEF Send, Done
  <1>4. op' \in OpType /\ (op' = Idle \/ (op'.pc = "sent" /\ op'.cur = op.cur))
    BY <1>2, <1>3, Blank DEF OpType, Places
  <1>5. txs' \in [Executions -> Seq(TxState)] /\ \A id \in Executions \ {op.cur.id} : txs'[id] = txs[id]
    <2>1. txs \in [Executions -> Seq(TxState)] /\ "pending" \in TxState
      BY DEF DepositInv, ChainTypes, TxState
    <2>2. Append(txs[op.cur.id], "pending") \in Seq(TxState)
      BY <1>2, <2>1
    <2> QED BY <1>2, <1>3, <2>1, <2>2
  <1>6. PageTypes' /\ SessionsTrue' /\ OpTrue' /\ StatusTrue'
    BY <1>1, <1>2, <1>4, Blank
       DEF DepositInv, PageTypes, SessionsTrue, SessionTrue, OpTrue, StatusTrue
  <1>7. ChainTypes' /\ RunsAreSigned' /\ MoneyFollowsSignature'
    BY <1>1, <1>2, <1>5 DEF DepositInv, ChainTypes, RunsAreSigned, MoneyFollowsSignature
  <1> QED BY <1>6, <1>7 DEF DepositInv

(* The hash goes into the session of a signed execution.                   *)
LEMMA HashIsSafe ==
    ASSUME DepositInv, HashComes
    PROVE  DepositInv'
  <1>1. UNCHANGED <<address, recent, exec, txs, held>> /\ op.pc = "sent"
    BY DEF HashComes, auroraVars
  <1>2. /\ op \in OpType /\ ui \in UiType /\ op.cur \in SessionType
        /\ op.cur.id \in Executions /\ exec[op.cur.id].signed
        /\ Len(txs[op.cur.id]) \in Nat
    BY <1>1 DEF DepositInv, PageTypes, ChainTypes, OpTrue, OpType, SessionType, Ids
  <1>3. CASE op' = Idle /\ UNCHANGED <<ui, stored>>
    <2>1. PageTypes' /\ SessionsTrue' /\ OpTrue' /\ StatusTrue'
      BY <1>1, <1>3, Blank DEF DepositInv, PageTypes, SessionsTrue, SessionTrue, OpTrue, StatusTrue
    <2> QED BY <1>1, <2>1, PageStep DEF auroraVars
  <1>4. CASE ~(op' = Idle /\ UNCHANGED <<ui, stored>>)
    <2> DEFINE next == [op.cur EXCEPT !.hash = Len(txs[op.cur.id])]
    <2>1. /\ stored' = next /\ ui' = [ui EXCEPT !.session = next]
          /\ op' = [op EXCEPT !.pc = "confirming", !.cur = next]
      BY <1>4 DEF HashComes, Done, Kept, Save
    <2>2. next \in SessionType /\ next.id = op.cur.id
      BY <1>2 DEF SessionType
    <2> HIDE DEF next
    <2>3. SessionTrue(next)
      BY <1>2, <2>2 DEF SessionTrue, DepositInv, SessionsTrue, NoSession, None, Executions
    <2>4. /\ op' \in OpType /\ op'.pc = "confirming" /\ op'.cur = next
          /\ ui' \in UiType /\ ui'.session = next
      BY <1>2, <2>1, <2>2 DEF OpType, UiType, Places
    <2>5. PageTypes' /\ OpTrue' /\ StatusTrue'
      BY <1>1, <1>2, <2>1, <2>2, <2>4
         DEF DepositInv, PageTypes, OpTrue, StatusTrue, None, Executions
    <2>6. SessionsTrue'
      BY <1>1, <2>1, <2>3, <2>4 DEF DepositInv, SessionsTrue, SessionTrue
    <2> QED BY <1>1, <2>5, <2>6, PageStep DEF auroraVars
  <1> QED BY <1>3, <1>4

(* A session whose transfer reverted loses its hash, and nothing else.     *)
LEMMA ReceiptIsSafe ==
    ASSUME DepositInv, Receipt
    PROVE  DepositInv'
  <1>1. UNCHANGED <<address, recent, exec, txs, held>> /\ op.pc = "confirming" /\ op' = Idle
    BY DEF Receipt, auroraVars, Done
  <1>2. /\ op \in OpType /\ ui \in UiType /\ op.cur \in SessionType
        /\ op.cur.id \in Executions /\ exec[op.cur.id].signed /\ SessionTrue(op.cur)
    BY <1>1 DEF DepositInv, PageTypes, SessionsTrue, OpTrue, OpType, SessionType, Ids
  <1> DEFINE retry == [op.cur EXCEPT !.hash = 0]
  <1>3. \/ stored' = retry /\ ui' = [ui EXCEPT !.session = retry]
        \/ UNCHANGED <<ui, stored>>
    BY DEF Receipt, Save
  <1>4. retry \in SessionType /\ retry.id = op.cur.id /\ retry.hash = 0
    BY <1>2 DEF SessionType
  <1> HIDE DEF retry
  <1>5. SessionTrue(retry)
    BY <1>2, <1>4 DEF SessionTrue, None, Executions
  <1>6. /\ ui' \in UiType
        /\ UNCHANGED <<ui, stored>> \/ (ui'.session = retry /\ ui'.status = ui.status /\ stored' = retry)
    BY <1>2, <1>3, <1>4 DEF UiType
  <1>7. PageTypes' /\ OpTrue' /\ StatusTrue'
    BY <1>1, <1>2, <1>4, <1>6, Blank DEF DepositInv, PageTypes, OpTrue, StatusTrue, None, Executions
  <1>8. SessionsTrue'
    BY <1>1, <1>5, <1>6, Blank DEF DepositInv, SessionsTrue, SessionTrue
  <1> QED BY <1>1, <1>7, <1>8, PageStep DEF auroraVars

(* Settling a session, or taking its recovery out, leaves it true.         *)
LEMMA Variants ==
    ASSUME NEW s \in SessionType, SessionTrue(s), s.id # None
    PROVE  /\ [s EXCEPT !.settled = TRUE] \in SessionType /\ SessionTrue([s EXCEPT !.settled = TRUE])
           /\ [s EXCEPT !.recovery = None] \in SessionType /\ SessionTrue([s EXCEPT !.recovery = None])
           /\ [s EXCEPT !.settled = TRUE].id = s.id /\ [s EXCEPT !.recovery = None].id = s.id
  BY DEF SessionType, SessionTrue, Ids

(* The screen, storage and the recent session after a step that leaves the *)
(* function in progress and the account alone.                             *)
LEMMA ScreenStep ==
    ASSUME DepositInv, UNCHANGED <<address, op, exec, txs, held>>,
           NEW shown \in UiType, NEW kept \in SessionType, NEW last \in SessionType,
           ui' = shown, stored' = kept, recent' = last,
           SessionTrue(shown.session), SessionTrue(kept), SessionTrue(last),
           shown.status.signed /\ shown.session.id # None => exec[shown.session.id].signed
                                                  \/ exec[shown.session.id].acct # address,
           shown.session.id = None => ~shown.status.leftover
    PROVE  DepositInv'
  <1>1. PageTypes' /\ OpTrue' /\ StatusTrue'
    BY DEF DepositInv, PageTypes, OpTrue, StatusTrue
  <1>2. SessionsTrue'
    BY DEF DepositInv, SessionsTrue, SessionTrue
  <1> QED BY <1>1, <1>2, PageStep DEF auroraVars

LEMMA PollIsSafe ==
    ASSUME DepositInv, Poll
    PROVE  DepositInv'
  <1> DEFINE s == ui.session
             e == exec[s.id]
             settled == [s EXCEPT !.settled = TRUE]
  <1>1. UNCHANGED <<address, op, exec, txs, held>> /\ s # NoSession
    BY DEF Poll, auroraVars
  <1>2. /\ ui \in UiType /\ stored \in SessionType /\ recent \in SessionType
        /\ SessionTrue(stored) /\ SessionTrue(recent) /\ SessionTrue(s)
        /\ s \in SessionType /\ s.id \in Executions /\ e \in ExecType
    BY <1>1 DEF DepositInv, PageTypes, ChainTypes, SessionsTrue, UiType, SessionType, SessionTrue, Ids
  <1>3. PICK left \in BOOLEAN, minted \in BOOLEAN :
           LET shown == [ui EXCEPT !.status = [state |-> e.state, signed |-> e.signed,
                                               leftover |-> left, minted |-> minted]]
           IN  \/ ui' = shown /\ UNCHANGED <<stored, recent>>
               \/ /\ recent' = settled /\ stored' = NoSession
                  /\ ui' = [ui EXCEPT !.session = NoSession, !.status = NoStatus, !.restored = None]
               \/ ui' = shown /\ stored' = settled /\ UNCHANGED recent
    <2>1. (e.state \in {"SUCCESS", "OPERATION_FAILED"} /\ held[address] > 0) \in BOOLEAN
      OBVIOUS
    <2>2. \A b \in IF e.state = "SUCCESS" THEN BOOLEAN ELSE {FALSE} : b \in BOOLEAN
      OBVIOUS
    <2> QED BY <2>1, <2>2 DEF Poll, Save
  <1> DEFINE shown == [ui EXCEPT !.status = [state |-> e.state, signed |-> e.signed,
                                             leftover |-> left, minted |-> minted]]
             gone  == [ui EXCEPT !.session = NoSession, !.status = NoStatus, !.restored = None]
  <1>4. /\ shown \in UiType /\ shown.session = s /\ shown.status.signed = exec[s.id].signed
    BY <1>2 DEF UiType, StatusType, ExecType
  <1>5. /\ gone \in UiType /\ gone.session = NoSession /\ gone.status = NoStatus
    BY <1>2, Blank DEF UiType, Ids
  <1>6. settled \in SessionType /\ SessionTrue(settled) /\ s.id # None
    <2>1. s.id # None
      BY <1>2 DEF None, Executions
    <2> QED BY <1>2, <2>1, Variants
  <1>7. \/ ui' = shown /\ stored' = stored /\ recent' = recent
        \/ ui' = gone /\ stored' = NoSession /\ recent' = settled
        \/ ui' = shown /\ stored' = settled /\ recent' = recent
    BY <1>3
  <1> HIDE DEF shown, gone, settled
  <1>8. CASE ui' = gone /\ stored' = NoSession /\ recent' = settled
    BY <1>1, <1>5, <1>6, <1>8, Blank, ScreenStep
  <1>9. CASE ui' = shown /\ stored' = stored /\ recent' = recent
    BY <1>1, <1>2, <1>4, <1>6, <1>9, ScreenStep
  <1>10. CASE ui' = shown /\ stored' = settled /\ recent' = recent
    BY <1>1, <1>2, <1>4, <1>6, <1>10, ScreenStep
  <1> QED BY <1>7, <1>8, <1>9, <1>10

LEMMA PollRecoveryIsSafe ==
    ASSUME DepositInv, PollRecovery
    PROVE  DepositInv'
  <1> DEFINE s == ui.session
             r == exec[s.recovery]
             seen == [of |-> s.recovery, state |-> r.state, signed |-> r.signed]
             settled == [s EXCEPT !.settled = TRUE]
             shown == [ui EXCEPT !.recovery = seen]
             gone == [ui EXCEPT !.session = NoSession, !.status = NoStatus, !.restored = None,
                                !.recovery = seen]
  <1>1. UNCHANGED <<address, op, exec, txs, held>> /\ s.recovery # None
    BY DEF PollRecovery, auroraVars
  <1>2. /\ ui \in UiType /\ stored \in SessionType /\ recent \in SessionType
        /\ SessionTrue(stored) /\ SessionTrue(recent) /\ SessionTrue(s)
        /\ s \in SessionType /\ s.recovery \in Executions /\ r \in ExecType
    BY <1>1 DEF DepositInv, PageTypes, ChainTypes, SessionsTrue, UiType, SessionType, Ids
  <1>3. s.id # None
    BY <1>1, <1>2, Blank DEF SessionTrue
  <1>4. \/ ui' = shown /\ stored' = stored /\ recent' = recent
        \/ ui' = gone /\ stored' = NoSession /\ recent' = settled
    BY DEF PollRecovery, Save
  <1>5. seen \in [of : Ids, state : States, signed : BOOLEAN]
    BY <1>2 DEF ExecType, Ids
  <1> HIDE DEF seen
  <1>6. shown \in UiType /\ shown.session = s /\ shown.status = ui.status
    BY <1>2, <1>5 DEF UiType
  <1>7. gone \in UiType /\ gone.session = NoSession /\ gone.status = NoStatus
    BY <1>2, <1>5, Blank DEF UiType, Ids
  <1>8. settled \in SessionType /\ SessionTrue(settled)
    BY <1>2, <1>3, Variants
  <1>9. ui.status.signed => exec[s.id].signed \/ exec[s.id].acct # address
    BY <1>3 DEF DepositInv, StatusTrue
  <1> HIDE DEF shown, gone, settled
  <1>10. CASE ui' = shown /\ stored' = stored /\ recent' = recent
    BY <1>1, <1>2, <1>3, <1>6, <1>9, <1>10, ScreenStep
  <1>11. CASE ui' = gone /\ stored' = NoSession /\ recent' = settled
    BY <1>1, <1>7, <1>8, <1>11, Blank, ScreenStep
  <1> QED BY <1>4, <1>10, <1>11

(* The buttons that change which session is on the screen.                 *)
LEMMA ButtonsAreSafe ==
    ASSUME DepositInv, ReviewRemaining \/ StartAnother \/ ViewDetails
    PROVE  DepositInv'
  <1>1. UNCHANGED <<address, op, exec, txs, held>>
    BY DEF ReviewRemaining, StartAnother, ViewDetails, auroraVars
  <1>2. /\ ui \in UiType /\ stored \in SessionType /\ recent \in SessionType
        /\ ui.session \in SessionType /\ ui.recovery \in [of : Ids, state : States, signed : BOOLEAN]
        /\ SessionTrue(stored) /\ SessionTrue(recent) /\ SessionTrue(ui.session)
    BY DEF DepositInv, PageTypes, SessionsTrue, UiType
  <1>3. CASE ReviewRemaining
    <2> DEFINE retry == [ui.session EXCEPT !.recovery = None]
               shown == [ui EXCEPT !.session = retry, !.recovery = NoRecovery]
    <2>1. ui.session.id # None
      BY <1>2, <1>3, Blank DEF ReviewRemaining, SessionTrue
    <2>2. ui' = shown /\ stored' = retry /\ recent' = recent
      BY <1>3 DEF ReviewRemaining
    <2>3. retry \in SessionType /\ SessionTrue(retry) /\ retry.id = ui.session.id
      BY <1>2, <2>1, Variants
    <2> HIDE DEF retry
    <2>4. shown \in UiType /\ shown.session = retry /\ shown.status = ui.status
      BY <1>2, <2>3, Blank DEF UiType, NoRecovery, Ids, States, None
    <2>5. ui.status.signed => exec[ui.session.id].signed \/ exec[ui.session.id].acct # address
      BY <2>1 DEF DepositInv, StatusTrue
    <2> HIDE DEF shown
    <2> QED BY <1>1, <1>2, <2>1, <2>2, <2>3, <2>4, <2>5, ScreenStep
  <1>4. CASE StartAnother
    <2> DEFINE shown == [FreshUi EXCEPT !.recovery = ui.recovery]
               settled == [ui.session EXCEPT !.settled = TRUE]
    <2>1. ui' = shown /\ stored' = NoSession /\ (recent' = recent \/ recent' = settled)
      BY <1>4 DEF StartAnother
    <2>2. shown \in UiType /\ shown.session = NoSession /\ shown.status = NoStatus
      BY <1>2, Blank DEF UiType
    <2>3. ui.session.id # None
      BY <1>2, <1>4 DEF StartAnother, SessionTrue
    <2>4. settled \in SessionType /\ SessionTrue(settled)
      BY <1>2, <2>3, Variants
    <2> HIDE DEF shown, settled
    <2>5. CASE recent' = recent
      BY <1>1, <1>2, <2>1, <2>2, <2>5, Blank, ScreenStep
    <2>6. CASE recent' = settled
      BY <1>1, <2>1, <2>2, <2>4, <2>6, Blank, ScreenStep
    <2> QED BY <2>1, <2>5, <2>6
  <1>5. CASE ViewDetails
    <2> DEFINE shown == [ui EXCEPT !.session = recent, !.status = NoStatus, !.restored = None]
    <2>1. ui' = shown /\ stored' = stored /\ recent' = recent
      BY <1>5 DEF ViewDetails
    <2>2. shown \in UiType /\ shown.session = recent /\ shown.status = NoStatus
      BY <1>2, Blank DEF UiType, Ids
    <2> HIDE DEF shown
    <2> QED BY <1>1, <1>2, <2>1, <2>2, Blank, ScreenStep
  <1> QED BY <1>3, <1>4, <1>5

-----------------------------------------------------------------------------
(* The steps that make or sign an execution.                               *)
LEMMA SignatureArrives ==
    ASSUME DepositInv, NEW x \in Ids, exec' = [exec EXCEPT ![x].signed = TRUE]
    PROVE  /\ exec' \in [Executions -> ExecType]
           /\ \A id \in Executions : /\ exec'[id].kind = exec[id].kind
                                     /\ exec'[id].acct = exec[id].acct
                                     /\ exec'[id].state = exec[id].state
                                     /\ exec[id].signed => exec'[id].signed
           /\ x \in Executions => exec'[x].signed
  <1>1. exec \in [Executions -> ExecType]
    BY DEF DepositInv, ChainTypes
  <1>2. CASE x \in Executions
    <2>1. exec[x] \in ExecType /\ [exec[x] EXCEPT !.signed = TRUE] \in ExecType
      BY <1>1, <1>2 DEF ExecType
    <2>2. /\ exec' \in [Executions -> ExecType]
          /\ exec'[x] = [exec[x] EXCEPT !.signed = TRUE]
          /\ \A e \in Executions \ {x} : exec'[e] = exec[e]
      BY <1>1, <1>2, <2>1
    <2> QED BY <1>2, <2>1, <2>2 DEF ExecType
  <1>3. CASE x \notin Executions
    <2>1. exec' = exec
      BY <1>1, <1>3
    <2> QED BY <1>1, <1>3, <2>1
  <1> QED BY <1>2, <1>3

LEMMA SignIsSafe ==
    ASSUME DepositInv, Sign
    PROVE  DepositInv'
  <1>1. UNCHANGED <<address, ui, stored, recent, txs, held>> /\ op.pc = "signing"
    BY DEF Sign
  <1>2. /\ op \in OpType /\ op.cur.id \in Executions /\ op.cur.id \in Ids
        /\ address \in Accounts /\ ui \in UiType /\ ui.session \in SessionType
        /\ ui.session.id \in Ids
        /\ stored \in SessionType /\ recent \in SessionType /\ op.cur \in SessionType
    BY <1>1 DEF DepositInv, PageTypes, OpTrue, OpType, SessionType, UiType, Ids
  <1>3. CASE op' = Idle /\ exec' = exec
    <2>1. PageTypes' /\ SessionsTrue' /\ OpTrue' /\ StatusTrue'
      BY <1>1, <1>3, Blank DEF DepositInv, PageTypes, SessionsTrue, SessionTrue, OpTrue, StatusTrue
    <2> QED BY <1>1, <1>3, <2>1, PageStep DEF auroraVars
  <1>4. CASE ~(op' = Idle /\ exec' = exec)
    <2>1. /\ exec' = [exec EXCEPT ![op.cur.id].signed = TRUE]
          /\ op' = [op EXCEPT !.pc = "sending"]
      BY <1>4 DEF Sign, Done
    <2>2. /\ exec' \in [Executions -> ExecType]
          /\ \A id \in Executions : /\ exec'[id].kind = exec[id].kind
                                    /\ exec'[id].acct = exec[id].acct
                                    /\ exec'[id].state = exec[id].state
                                    /\ exec[id].signed => exec'[id].signed
          /\ exec'[op.cur.id].signed
      BY <1>2, <2>1, SignatureArrives
    <2>3. op' \in OpType /\ op'.cur = op.cur /\ op'.pc = "sending"
      BY <1>2, <2>1 DEF OpType, Places
    <2>4. PageTypes' /\ OpTrue' /\ StatusTrue'
      BY <1>1, <1>2, <2>2, <2>3 DEF DepositInv, PageTypes, OpTrue, StatusTrue, Ids, None, Executions
    <2>5. SessionsTrue'
      BY <1>1, <1>2, <2>2, <2>3 DEF DepositInv, SessionsTrue, SessionTrue, SessionType, Ids
    <2>6. ChainTypes' /\ MoneyFollowsSignature' /\ RunsAreSigned'
      BY <1>1, <2>2 DEF DepositInv, ChainTypes, MoneyFollowsSignature, RunsAreSigned
    <2> QED BY <2>4, <2>5, <2>6 DEF DepositInv
  <1> QED BY <1>3, <1>4

LEMMA SignRecoveryIsSafe ==
    ASSUME DepositInv, SignRecovery
    PROVE  DepositInv'
  <1> DEFINE seen == [of |-> op.cur.recovery, state |-> "DEPOSIT_PENDING", signed |-> FALSE]
  <1>1. UNCHANGED <<address, stored, recent, txs, held>> /\ op' = Idle
    BY DEF SignRecovery, Done
  <1>2. /\ op \in OpType /\ op.cur.recovery \in Ids
        /\ ui \in UiType /\ ui.session \in SessionType /\ ui.session.id \in Ids
        /\ stored \in SessionType /\ recent \in SessionType
    BY DEF DepositInv, PageTypes, OpType, SessionType, UiType
  <1>3. \/ exec' = exec /\ ui' = ui
        \/ exec' = [exec EXCEPT ![op.cur.recovery].signed = TRUE] /\ ui' = [ui EXCEPT !.recovery = seen]
    BY DEF SignRecovery
  <1>4. seen \in [of : Ids, state : States, signed : BOOLEAN]
    BY <1>2 DEF States
  <1> HIDE DEF seen
  <1>5. ui' \in UiType /\ ui'.session = ui.session /\ ui'.status = ui.status
    BY <1>2, <1>3, <1>4 DEF UiType
  <1>6. /\ exec' \in [Executions -> ExecType]
        /\ \A id \in Executions : /\ exec'[id].kind = exec[id].kind
                                  /\ exec'[id].acct = exec[id].acct
                                  /\ exec'[id].state = exec[id].state
                                  /\ exec[id].signed => exec'[id].signed
    BY <1>2, <1>3, SignatureArrives DEF DepositInv, ChainTypes
  <1>7. PageTypes' /\ OpTrue' /\ StatusTrue'
    BY <1>1, <1>2, <1>5, <1>6, Blank DEF DepositInv, PageTypes, OpTrue, StatusTrue, Ids, None, Executions
  <1>8. SessionsTrue'
    BY <1>1, <1>2, <1>5, <1>6, Blank DEF DepositInv, SessionsTrue, SessionTrue, SessionType, Ids
  <1>9. ChainTypes' /\ MoneyFollowsSignature' /\ RunsAreSigned'
    BY <1>1, <1>6 DEF DepositInv, ChainTypes, MoneyFollowsSignature, RunsAreSigned
  <1> QED BY <1>7, <1>8, <1>9 DEF DepositInv

LEMMA NewExecution ==
    ASSUME DepositInv, NEW new \in Executions, exec[new] = NoExec,
           NEW kind \in {"deposit", "recovery"}, NEW acct \in Accounts, NEW amount \in Nat,
           exec' = [exec EXCEPT ![new] = NewExec(kind, acct, amount)],
           UNCHANGED <<txs, held>>
    PROVE  /\ ChainTypes' /\ MoneyFollowsSignature' /\ RunsAreSigned'
           /\ exec'[new].kind # "none" /\ ~exec'[new].signed
           /\ \A id \in Executions : exec[id].kind # "none" => id # new /\ exec'[id] = exec[id]
  <1>1. exec \in [Executions -> ExecType]
    BY DEF DepositInv, ChainTypes
  <1>2. /\ NewExec(kind, acct, amount) \in ExecType
        /\ NewExec(kind, acct, amount).kind = kind /\ NewExec(kind, acct, amount).acct = acct
        /\ ~NewExec(kind, acct, amount).signed
        /\ NewExec(kind, acct, amount).state = "DEPOSIT_PENDING"
    BY DEF NewExec, NoExec, ExecType, Kinds, States, None
  <1>3. /\ exec' \in [Executions -> ExecType] /\ exec'[new] = NewExec(kind, acct, amount)
        /\ \A e \in Executions \ {new} : exec'[e] = exec[e]
    BY <1>1, <1>2
  <1>4. \A id \in Executions : exec[id].kind # "none" => id # new /\ exec'[id] = exec[id]
    BY <1>3, Blank
  <1>5. ChainTypes'
    BY <1>2, <1>3 DEF DepositInv, ChainTypes
  <1>6. RunsAreSigned'
    BY <1>2, <1>3 DEF DepositInv, RunsAreSigned
  <1>7. MoneyFollowsSignature'
    <2>1. ~exec[new].signed
      BY DEF NoExec
    <2> QED BY <1>3, <2>1 DEF DepositInv, MoneyFollowsSignature
  <1> QED BY <1>2, <1>3, <1>4, <1>5, <1>6, <1>7

(* No session is of an execution that was not made yet, so whatever a      *)
(* session says stays true when one is made.                               *)
LEMMA SessionsStay ==
    ASSUME DepositInv, NEW new \in Executions,
           \A id \in Executions : exec[id].kind # "none" => id # new /\ exec'[id] = exec[id],
           NEW s \in SessionType, SessionTrue(s)
    PROVE  /\ s.id = None => s = NoSession
           /\ s.id # None => exec'[s.id].kind # "none" /\ exec'[s.id] = exec[s.id]
           /\ s.hash # 0 => s.id # None /\ exec'[s.id].signed
  BY DEF SessionTrue, SessionType, Ids

LEMMA CreateIsSafe ==
    ASSUME DepositInv, Create
    PROVE  DepositInv'
  <1>1. UNCHANGED <<address, recent, txs, held>> /\ op.pc = "creating"
    BY DEF Create
  <1>2. /\ op \in OpType /\ op.acct \in Accounts /\ ui \in UiType /\ ui.session \in SessionType
        /\ stored \in SessionType /\ recent \in SessionType /\ address \in Accounts
        /\ SessionTrue(ui.session) /\ SessionTrue(stored) /\ SessionTrue(recent)
        /\ MinOut + held[op.acct] \in Nat
    BY <1>1, DepositAssumption
       DEF DepositAssumption, DepositInv, PageTypes, ChainTypes, SessionsTrue, UiType
  <1>3. CASE op' = Idle /\ UNCHANGED <<exec, ui, stored>>
    <2>1. PageTypes' /\ SessionsTrue' /\ OpTrue' /\ StatusTrue'
      BY <1>1, <1>3, Blank DEF DepositInv, PageTypes, SessionsTrue, SessionTrue, OpTrue, StatusTrue
    <2> QED BY <1>1, <1>3, <2>1, PageStep DEF auroraVars
  <1>4. CASE ~(op' = Idle /\ UNCHANGED <<exec, ui, stored>>)
    <2>1. PICK new \in Executions :
             /\ exec[new] = NoExec
             /\ exec' = [exec EXCEPT ![new] = NewExec("deposit", op.acct, MinOut + held[op.acct])]
             /\ LET s == [NoSession EXCEPT !.id = new]
                IN  \/ op' = Idle /\ UNCHANGED <<ui, stored>>
                    \/ /\ stored' = s
                       /\ ui' = [ui EXCEPT !.session = s, !.started = new,
                                    !.status = [NoStatus EXCEPT !.state = "DEPOSIT_PENDING"]]
                       /\ op' = [Idle EXCEPT !.pc = "signing", !.cur = s, !.acct = op.acct]
      BY <1>4 DEF Create, FirstFree, Save, Done, AuthorizeAndSend, NextAfter
    <2>2. /\ ChainTypes' /\ MoneyFollowsSignature' /\ RunsAreSigned'
          /\ exec'[new].kind # "none" /\ ~exec'[new].signed
          /\ \A id \in Executions : exec[id].kind # "none" => id # new /\ exec'[id] = exec[id]
      BY <1>1, <1>2, <2>1, NewExecution
    <2> DEFINE s == [NoSession EXCEPT !.id = new]
               shown == [ui EXCEPT !.session = s, !.started = new,
                                   !.status = [NoStatus EXCEPT !.state = "DEPOSIT_PENDING"]]
               next == [Idle EXCEPT !.pc = "signing", !.cur = s, !.acct = op.acct]
    <2>3. new # None /\ new \in Ids
      BY DEF None, Executions, Ids
    <2>4. s \in SessionType /\ s.id = new /\ s.hash = 0
      BY <2>3 DEF SessionType, NoSession, None, Ids
    <2> HIDE DEF s
    <2>5. /\ shown \in UiType /\ shown.session = s
          /\ ~shown.status.signed /\ ~shown.status.leftover
      BY <1>2, <2>3, <2>4 DEF UiType, StatusType, NoStatus, States
    <2>6. next \in OpType /\ next.cur = s /\ next.pc = "signing"
      BY <1>2, <2>4, Blank DEF OpType, Places
    <2>7. \/ op' = Idle /\ ui' = ui /\ stored' = stored
          \/ op' = next /\ ui' = shown /\ stored' = s
      BY <2>1 DEF s
    <2> HIDE DEF shown, next
    <2>8. PageTypes'
      BY <1>1, <1>2, <2>4, <2>5, <2>6, <2>7, Blank DEF PageTypes
    <2>9. OpTrue'
      BY <2>3, <2>4, <2>6, <2>7, Blank DEF OpTrue
    <2>10. StatusTrue'
      <3>1. CASE ui' = ui
        BY <1>1, <1>2, <2>2, <3>1, SessionsStay DEF DepositInv, StatusTrue
      <3>2. CASE ui' = shown
        BY <2>3, <2>4, <2>5, <3>2 DEF StatusTrue
      <3> QED BY <2>7, <3>1, <3>2
    <2>11. SessionTrue(ui.session)' /\ SessionTrue(stored)'
      <3>1. CASE ui' = ui /\ stored' = stored
        BY <1>2, <2>2, <3>1, SessionsStay DEF SessionTrue
      <3>2. CASE ui' = shown /\ stored' = s
        BY <2>2, <2>3, <2>4, <2>5, <3>2 DEF SessionTrue
      <3> QED BY <2>7, <3>1, <3>2
    <2>12. SessionTrue(recent)' /\ SessionTrue(op.cur)'
      <3>1. SessionTrue(recent)'
        BY <1>1, <1>2, <2>2, SessionsStay DEF SessionTrue
      <3>2. CASE op' = Idle
        BY <3>1, <3>2, Blank DEF SessionTrue, NoSession
      <3>3. CASE op' = next
        BY <2>2, <2>3, <2>4, <2>6, <3>1, <3>3 DEF SessionTrue
      <3> QED BY <2>7, <3>2, <3>3, <3>1
    <2> QED BY <2>2, <2>8, <2>9, <2>10, <2>11, <2>12 DEF DepositInv, SessionsTrue
  <1> QED BY <1>3, <1>4

(* A recovery is only made for a deposit that ran, and what ran was signed. *)
LEMMA CreateRecoveryIsSafe ==
    ASSUME DepositInv, CreateRecovery
    PROVE  DepositInv'
  <1>1. UNCHANGED <<address, recent, txs, held>> /\ op.pc = "recovering"
    BY DEF CreateRecovery
  <1>2. /\ op \in OpType /\ op.acct \in Accounts /\ ui \in UiType /\ ui.session \in SessionType
        /\ stored \in SessionType /\ recent \in SessionType /\ address \in Accounts
        /\ op.cur \in SessionType /\ op.cur.id \in Executions /\ op.cur.id # None
        /\ SessionTrue(ui.session) /\ SessionTrue(stored) /\ SessionTrue(recent)
        /\ SessionTrue(op.cur) /\ held[op.acct] \in Nat
    BY <1>1
       DEF DepositInv, PageTypes, ChainTypes, SessionsTrue, UiType, OpType, OpTrue, SessionType, Ids
  <1>3. CASE op' = Idle /\ UNCHANGED <<exec, ui, stored>>
    <2>1. PageTypes' /\ SessionsTrue' /\ OpTrue' /\ StatusTrue'
      BY <1>1, <1>3, Blank DEF DepositInv, PageTypes, SessionsTrue, SessionTrue, OpTrue, StatusTrue
    <2> QED BY <1>1, <1>3, <2>1, PageStep DEF auroraVars
  <1>4. CASE ~(op' = Idle /\ UNCHANGED <<exec, ui, stored>>)
    <2>1. PICK new \in Executions :
             /\ exec[op.cur.id].state \in {"SUCCESS", "OPERATION_FAILED"}
             /\ held[op.acct] > 2 * Fee + 1
             /\ exec[new] = NoExec
             /\ exec' = [exec EXCEPT ![new] = NewExec("recovery", op.acct, held[op.acct] - 2 * Fee)]
             /\ LET updated == [op.cur EXCEPT !.recovery = new]
                IN  \/ op' = Idle /\ UNCHANGED <<ui, stored>>
                    \/ /\ stored' = updated
                       /\ ui' = [ui EXCEPT !.session = updated]
                       /\ op' = [op EXCEPT !.pc = "recoverySigning", !.cur = updated]
      BY <1>4 DEF CreateRecovery, FirstFree, Save, Done
    <2>2. held[op.acct] - 2 * Fee \in Nat
      BY <1>2, <2>1, DepositAssumption DEF DepositAssumption
    <2>3. /\ ChainTypes' /\ MoneyFollowsSignature' /\ RunsAreSigned'
          /\ exec'[new].kind # "none" /\ ~exec'[new].signed
          /\ \A id \in Executions : exec[id].kind # "none" => id # new /\ exec'[id] = exec[id]
      BY <1>1, <1>2, <2>1, <2>2, NewExecution
    <2> DEFINE updated == [op.cur EXCEPT !.recovery = new]
               shown == [ui EXCEPT !.session = updated]
               next == [op EXCEPT !.pc = "recoverySigning", !.cur = updated]
    <2>4. updated \in SessionType /\ updated.id = op.cur.id /\ updated.hash = op.cur.hash
      BY <1>2 DEF SessionType, Ids
    <2> HIDE DEF updated
    <2>5. shown \in UiType /\ shown.session = updated /\ shown.status = ui.status
      BY <1>2, <2>4 DEF UiType
    <2>6. next \in OpType /\ next.cur = updated /\ next.pc = "recoverySigning"
      BY <1>2, <2>4 DEF OpType, Places
    <2>7. \/ op' = Idle /\ ui' = ui /\ stored' = stored
          \/ op' = next /\ ui' = shown /\ stored' = updated
      BY <2>1 DEF updated
    <2> HIDE DEF shown, next
    <2>8. exec[op.cur.id].signed /\ exec'[op.cur.id] = exec[op.cur.id]
      BY <1>2, <2>1, <2>3 DEF DepositInv, RunsAreSigned, SessionTrue
    <2>9. PageTypes'
      BY <1>1, <1>2, <2>4, <2>5, <2>6, <2>7, Blank DEF PageTypes
    <2>10. OpTrue'
      BY <1>2, <2>4, <2>6, <2>7, Blank DEF OpTrue
    <2>11. StatusTrue'
      <3>1. CASE ui' = ui
        BY <1>1, <1>2, <2>3, <3>1, SessionsStay DEF DepositInv, StatusTrue
      <3>2. CASE ui' = shown
        BY <1>2, <2>4, <2>5, <2>8, <3>2 DEF StatusTrue
      <3> QED BY <2>7, <3>1, <3>2
    <2>12. exec'[updated.id].kind # "none" /\ (updated.hash # 0 => exec'[updated.id].signed)
      BY <1>2, <2>3, <2>4, SessionsStay
    <2>13. SessionTrue(ui.session)' /\ SessionTrue(stored)'
      <3>1. CASE ui' = ui /\ stored' = stored
        BY <1>2, <2>3, <3>1, SessionsStay DEF SessionTrue
      <3>2. CASE ui' = shown /\ stored' = updated
        BY <1>2, <2>4, <2>5, <2>12, <3>2 DEF SessionTrue
      <3> QED BY <2>7, <3>1, <3>2
    <2>14. SessionTrue(recent)' /\ SessionTrue(op.cur)'
      <3>1. SessionTrue(recent)'
        BY <1>1, <1>2, <2>3, SessionsStay DEF SessionTrue
      <3>2. CASE op' = Idle
        BY <3>1, <3>2, Blank DEF SessionTrue, NoSession
      <3>3. CASE op' = next
        BY <1>2, <2>4, <2>6, <2>12, <3>1, <3>3 DEF SessionTrue
      <3> QED BY <2>7, <3>2, <3>3, <3>1
    <2> QED BY <2>3, <2>9, <2>10, <2>11, <2>13, <2>14 DEF DepositInv, SessionsTrue
  <1> QED BY <1>3, <1>4

-----------------------------------------------------------------------------
LEMMA DepositInvStep == DepositInv /\ [DepositNext]_depositVars => DepositInv'
  <1> SUFFICES ASSUME DepositInv, [DepositNext]_depositVars PROVE DepositInv'
    OBVIOUS
  <1>1. CASE Reload
    BY <1>1, ReloadIsSafe
  <1>2. CASE \E a \in Accounts : SwitchAccount(a)
    BY <1>2, SwitchIsSafe
  <1>3. CASE Review \/ Start \/ StartRecovery \/ ResumeRecovery
    BY <1>3, AskingIsSafe
  <1>4. CASE Create \/ CreateRecovery
    BY <1>4, CreateIsSafe, CreateRecoveryIsSafe
  <1>5. CASE Continue \/ Sign \/ Send \/ SignRecovery
    BY <1>5, ContinueIsSafe, SignIsSafe, SendIsSafe, SignRecoveryIsSafe
  <1>6. CASE HashComes \/ Receipt
    BY <1>6, HashIsSafe, ReceiptIsSafe
  <1>7. CASE Poll \/ PollRecovery
    BY <1>7, PollIsSafe, PollRecoveryIsSafe
  <1>8. CASE ReviewRemaining \/ StartAnother \/ ViewDetails
    BY <1>8, ButtonsAreSafe
  <1>9. CASE Aurora
    BY <1>9, AuroraIsSafe
  <1>10. CASE UNCHANGED depositVars
    <2>1. UNCHANGED <<address, ui, op, stored, recent, exec, txs, held>>
      BY <1>10 DEF depositVars
    <2>2. PageTypes' /\ SessionsTrue' /\ OpTrue' /\ StatusTrue'
      BY <2>1 DEF DepositInv, PageTypes, SessionsTrue, SessionTrue, OpTrue, StatusTrue
    <2> QED BY <2>1, <2>2, PageStep DEF auroraVars
  <1> QED
    BY <1>1, <1>2, <1>3, <1>4, <1>5, <1>6, <1>7, <1>8, <1>9, <1>10 DEF DepositNext

(* The page never sends money for an execution whose signature Aurora does *)
(* not hold, over every retry, resumption, recovery, reload and change of  *)
(* account, with a transfer that reverted or an answer that got lost       *)
(* (CrossChainDepositPanel.tsx 394-437).                                   *)
THEOREM SignatureComesFirst == DepositSpec => []MoneyFollowsSignature
  <1>1. DepositInv => MoneyFollowsSignature
    BY DEF DepositInv
  <1> QED BY <1>1, DepositInvInit, DepositInvStep, PTL DEF DepositSpec

(* What the page keeps is about executions Aurora has: a hash is kept only *)
(* for a signed one, in storage, on the screen and in the hands of the     *)
(* function in progress (256-288, 370-380).                                *)
THEOREM KeptSessionsAreTrue == DepositSpec => [](PageTypes /\ SessionsTrue)
  <1>1. DepositInv => PageTypes /\ SessionsTrue
    BY DEF DepositInv
  <1> QED BY <1>1, DepositInvInit, DepositInvStep, PTL DEF DepositSpec

-----------------------------------------------------------------------------
(***************************************************************************)
(* One transfer, one slot, one claim on the leftover.                      *)
(*                                                                         *)
(* While no session was dropped before it was over, what is in storage,    *)
(* on the screen and in hand agrees: a session that can still move money   *)
(* is the one in storage, and its hash is that of the last transfer.       *)
(* Copies that do not know of the last transfer exist (the recent session, *)
(* a screen left behind by a change of account), but only of sessions that *)
(* are over, and the screen says so before it offers to send.              *)
(***************************************************************************)

(* The transfers the page should know of: all but the one whose hash the   *)
(* wallet has not told yet.                                                *)
Known(id) == {i \in DOMAIN txs[id] : ~(op.pc = "sent" /\ op.cur.id = id /\ i = Len(txs[id]))}

(* A session knows of the only transfer that did not revert.               *)
HashRight(s) ==
    s.id # None /\ s.id \notin lostHash =>
        /\ s.hash # 0 => s.hash \in Known(s.id)
        /\ \A i \in Known(s.id) : i # s.hash => txs[s.id][i] = "reverted"

Closed(s) == ~Open(s.id) /\ ~Open(s.recovery)
Mine(s)   == s.id # None /\ exec[s.id].acct = address
Working   == op.pc \notin {"idle", "creating"}
SameSession(s, t) == s.id = t.id /\ s.hash = t.hash /\ s.recovery = t.recovery

(* What the screen says does not offer to send.                            *)
NothingToSend == ui.status = NoStatus \/ ui.status.state \in Over

(* A session is of a deposit, and a recovery comes after its end; a session *)
(* is settled by what the screen says of it, which may be of another.      *)
SessionMade(s) ==
    /\ s.id # None => exec[s.id].kind = "deposit"
    /\ s.recovery # None => s.id # None /\ exec[s.recovery].kind = "recovery"
    /\ s.recovery # None \/ (s.settled /\ ~overlapped) => ~Open(s.id)

SessionsMade ==
    SessionMade(ui.session) /\ SessionMade(op.cur) /\ SessionMade(stored) /\ SessionMade(recent)

(* What the screen says of a recovery, and what it says of no session.     *)
ScreenTrue ==
    /\ ui.recovery.of # None => exec[ui.recovery.of].kind # "none"
    /\ ui.recovery.state \in Over => ui.recovery.of # None /\ ~Open(ui.recovery.of)
    /\ ui.session.id = None => ui.status = NoStatus
    /\ ui.status.leftover => ui.status.state \in Over

(* What the function in progress has done, or is about to do.              *)
HandTrue ==
    /\ op.pc = "recovering" => op.cur.recovery = None
    /\ op.pc = "recoverySigning" => op.cur.recovery # None
    /\ op.pc = "sent" => txs[op.cur.id] # <<>>

(* The screen shows what is in storage, or one that is over while storage  *)
(* holds another account's session or none.                                *)
ScreenIsStored ==
    \/ SameSession(ui.session, stored)
    \/ /\ ~Mine(stored) /\ (ui.session.id = None \/ Mine(ui.session))
       /\ Closed(ui.session) /\ NothingToSend

StatusRight ==
    Mine(ui.session) =>
        /\ ui.status.state \in Over => ~Open(ui.session.id)
        /\ NothingToSend \/ HashRight(ui.session)

StorageRight == (Open(stored.id) => HashRight(stored)) /\ Closed(recent)

(* What the function in progress has in hand is as good as what is stored. *)
HandRight ==
    Working =>
        /\ Open(op.cur.id) => stored.id = op.cur.id /\ HashRight(op.cur)
        /\ Open(op.cur.recovery) => stored.id = op.cur.id /\ stored.recovery = op.cur.recovery
        /\ stored.id = op.cur.id /\ Open(stored.recovery) => op.cur.recovery = stored.recovery
        /\ Open(stored.id) /\ stored.id # op.cur.id => exec[stored.id].acct # exec[op.cur.id].acct
        /\ op.pc \in {"signing", "sending", "sent"} => op.cur.hash = 0 /\ HashRight(op.cur)
        /\ /\ exec[op.cur.id].acct = address
           /\ ui.session.id \notin {None, op.cur.id} \/ ~HashRight(op.cur)
           => NothingToSend

(* What was signed and can still run is in storage, and what is in storage *)
(* finds the money its calls were made for.                                *)
SignedIsStored ==
    \A id \in Executions : exec[id].signed /\ Open(id) => id \in {stored.id, stored.recovery}

Due(id)  == exec[id].amount + (IF exec[id].kind = "recovery" THEN Fee ELSE 0)
Come(id) == IF exec[id].kind = "deposit" /\ Pending(id) THEN MinOut ELSE 0
Covered  == \A id \in {stored.id, stored.recovery} : Open(id) => Due(id) <= held[exec[id].acct] + Come(id)

SlotInv ==
    /\ ScreenIsStored /\ StatusRight /\ StorageRight /\ HandRight
    /\ SignedIsStored /\ Covered

TransferInv ==
    /\ DepositInv /\ SessionsMade /\ ScreenTrue /\ HandTrue
    /\ overlapped \/ SlotInv
    /\ NoSecondTransfer /\ VaultCallCovered

LEMMA Shapes ==
    ASSUME DepositInv
    PROVE  /\ address \in Accounts /\ ui \in UiType /\ op \in OpType
           /\ ui.session \in SessionType /\ op.cur \in SessionType
           /\ stored \in SessionType /\ recent \in SessionType
           /\ exec \in [Executions -> ExecType] /\ txs \in [Executions -> Seq(TxState)]
           /\ held \in [Accounts -> Nat]
           /\ None \notin Executions /\ Ids = Executions \cup {None}
  BY DEF DepositInv, PageTypes, ChainTypes, UiType, OpType, None, Executions, Ids

(* Nothing made is unmade, and what is over stays over.                    *)
ExecutionsStay ==
    \A id \in Executions : exec[id].kind # "none" =>
        exec'[id].kind = exec[id].kind /\ exec'[id].acct = exec[id].acct /\ (Open(id)' => Open(id))

LEMMA MadeStays ==
    ASSUME ExecutionsStay, overlapped => overlapped', NEW s \in SessionType, SessionMade(s)
    PROVE  /\ SessionMade(s)'
           /\ Open(s.id)' => Open(s.id)
           /\ Open(s.recovery)' => Open(s.recovery)
           /\ Closed(s) => Closed(s)'
           /\ s.id # None => exec'[s.id].acct = exec[s.id].acct
  <1>1. s.id \in Executions \cup {None} /\ s.recovery \in Executions \cup {None}
    BY DEF SessionType, Ids
  <1>2. s.id # None => exec'[s.id].kind = "deposit" /\ exec'[s.id].acct = exec[s.id].acct /\ (Open(s.id)' => Open(s.id))
    BY <1>1 DEF ExecutionsStay, SessionMade
  <1>3. s.recovery # None => exec'[s.recovery].kind = "recovery" /\ (Open(s.recovery)' => Open(s.recovery))
    BY <1>1 DEF ExecutionsStay, SessionMade
  <1>4. (Open(s.id)' => Open(s.id)) /\ (Open(s.recovery)' => Open(s.recovery))
    BY <1>2, <1>3 DEF Open
  <1>5. SessionMade(s)'
    BY <1>2, <1>3, <1>4 DEF SessionMade
  <1> QED BY <1>2, <1>4, <1>5 DEF Closed

LEMMA NothingRuns ==
    ASSUME exec' = exec
    PROVE  /\ \A id : Open(id)' <=> Open(id)
           /\ \A s : Closed(s)' <=> Closed(s)
           /\ (overlapped => overlapped') => \A s : SessionMade(s) => SessionMade(s)'
           /\ VaultCallCovered /\ (overlapped => overlapped') => VaultCallCovered'
  <1>1. \A id : Open(id)' <=> Open(id)
    BY DEF Open
  <1>2. /\ \A s : Closed(s)' <=> Closed(s)
        /\ (overlapped => overlapped') => \A s : SessionMade(s) => SessionMade(s)'
    BY <1>1 DEF SessionMade, Closed
  <1>3. VaultCallCovered /\ (overlapped => overlapped') => VaultCallCovered'
    BY DEF VaultCallCovered
  <1> QED BY <1>1, <1>2, <1>3

(* What the page knows does not change unless a wallet's answer comes.     *)
LEMMA KnownStays ==
    ASSUME UNCHANGED txs, lostHash \subseteq lostHash',
           op.pc = "sent" => (op'.pc = "sent" /\ op'.cur = op.cur) \/ (op.cur.id \in lostHash' /\ op'.pc # "sent"),
           op.pc # "sent" => op'.pc # "sent"
    PROVE  /\ \A s : HashRight(s) => HashRight(s)'
           /\ NoSecondTransfer /\ (overlapped => overlapped') => NoSecondTransfer'
  <1>1. ASSUME NEW s, HashRight(s) PROVE HashRight(s)'
    <2> SUFFICES ASSUME s.id # None, s.id \notin lostHash'
                 PROVE  Known(s.id)' = Known(s.id) /\ s.id \notin lostHash
      BY <1>1 DEF HashRight
    <2>1. (op'.pc = "sent" /\ op'.cur.id = s.id) <=> (op.pc = "sent" /\ op.cur.id = s.id)
      OBVIOUS
    <2>2. txs'[s.id] = txs[s.id]
      OBVIOUS
    <2> QED BY <2>1, <2>2 DEF Known
  <1>2. NoSecondTransfer /\ (overlapped => overlapped') => NoSecondTransfer'
    BY DEF NoSecondTransfer
  <1> QED BY <1>1, <1>2

(* Steps that leave executions, screen and storage as they are.            *)
LEMMA HandStep ==
    ASSUME TransferInv, DepositInv', UNCHANGED <<address, stored, recent, exec, txs, held, overlapped>>,
           ui'.session = ui.session, ui'.status = ui.status, ui'.recovery = ui.recovery,
           lostHash \subseteq lostHash',
           op.pc = "sent" => (op'.pc = "sent" /\ op'.cur = op.cur) \/ (op.cur.id \in lostHash' /\ op'.pc # "sent"),
           op.pc # "sent" => op'.pc # "sent",
           SessionMade(op'.cur), HandTrue', SlotInv => HandRight'
    PROVE  TransferInv'
  <1>1. /\ \A id : Open(id)' <=> Open(id)
        /\ \A s : (SessionMade(s) => SessionMade(s)') /\ (Closed(s)' <=> Closed(s))
        /\ VaultCallCovered'
    BY NothingRuns DEF TransferInv
  <1>2. (\A s : HashRight(s) => HashRight(s)') /\ NoSecondTransfer'
    BY KnownStays DEF TransferInv
  <1>3. SessionsMade'
    BY <1>1 DEF TransferInv, SessionsMade, SessionMade
  <1>4. ScreenTrue'
    BY <1>1 DEF TransferInv, ScreenTrue
  <1>5. ASSUME SlotInv PROVE SlotInv'
    <2>1. ScreenIsStored' /\ StorageRight' /\ StatusRight'
      <3>1. ScreenIsStored'
        BY <1>1, <1>5 DEF SlotInv, ScreenIsStored, SameSession, Mine, Closed, NothingToSend
      <3>2. StorageRight'
        <4>1. (Open(stored.id) => HashRight(stored)) /\ Closed(recent)
          BY <1>5 DEF SlotInv, StorageRight
        <4>2. HashRight(stored) => HashRight(stored)'
          BY <1>2 DEF HashRight
        <4>3. Open(stored.id)' <=> Open(stored.id)
          BY <1>1 DEF Open
        <4> QED BY <1>1, <4>1, <4>2, <4>3 DEF StorageRight, Closed
      <3>3. StatusRight'
        <4>1. HashRight(ui.session) => HashRight(ui.session)'
          BY <1>2 DEF HashRight
        <4> QED BY <1>1, <1>5, <4>1 DEF SlotInv, StatusRight, Mine, NothingToSend, Open
      <3> QED BY <3>1, <3>2, <3>3
    <2>2. HandRight'
      BY <1>5
    <2>3. SignedIsStored' /\ Covered'
      BY <1>1, <1>5 DEF SlotInv, SignedIsStored, Covered, Due, Come, Pending, Open
    <2> QED BY <2>1, <2>2, <2>3 DEF SlotInv
  <1> QED BY <1>1, <1>2, <1>3, <1>4, <1>5 DEF TransferInv

(* A function that has just been started works on what is on the screen.   *)
LEMMA TakenFromScreen ==
    ASSUME TransferInv, SlotInv, UNCHANGED <<address, stored, exec, txs, lostHash>>,
           ui'.session = ui.session, ui'.status = ui.status, ui.session.id # None,
           op.pc = "idle", op'.cur = ui.session, op'.pc # "sent",
           op'.pc \in {"signing", "sending"} => ui.session.hash = 0 /\ Mine(ui.session) /\ ~NothingToSend
    PROVE  HandRight'
  <1>1. HashRight(ui.session) => HashRight(op.cur)'
    BY KnownStays DEF HashRight
  <1>2. HashRight(stored) /\ SameSession(ui.session, stored) => HashRight(op.cur)'
    BY <1>1 DEF HashRight, SameSession
  <1>3. /\ Open(op.cur.id)' => stored.id = ui.session.id /\ HashRight(op.cur)'
        /\ Open(op.cur.recovery)' => stored.id = ui.session.id /\ stored.recovery = ui.session.recovery
        /\ stored.id = ui.session.id /\ Open(stored.recovery)' => ui.session.recovery = stored.recovery
        /\ Open(stored.id)' /\ stored.id # ui.session.id
              => exec[stored.id].acct # exec[ui.session.id].acct
    <2>1. /\ Open(op.cur.id)' <=> Open(ui.session.id)
          /\ Open(op.cur.recovery)' <=> Open(ui.session.recovery)
          /\ Open(stored.id)' => stored.id # None
      BY DEF Open
    <2>2. CASE SameSession(ui.session, stored)
      <3>1. Open(stored.id) => HashRight(stored)
        BY DEF SlotInv, StorageRight
      <3>2. Open(ui.session.id) <=> Open(stored.id)
        BY <2>2 DEF SameSession
      <3> QED BY <1>2, <2>1, <2>2, <3>1, <3>2 DEF SameSession
    <2>3. CASE ~SameSession(ui.session, stored)
      <3>1. Closed(ui.session) /\ ~Mine(stored) /\ Mine(ui.session)
        BY <2>3 DEF SlotInv, ScreenIsStored
      <3>2. stored.id # ui.session.id
        BY <3>1 DEF Mine
      <3> QED BY <2>1, <3>1, <3>2 DEF Closed, Mine
    <2> QED BY <2>2, <2>3
  <1>4. Mine(ui.session) /\ ~NothingToSend => HashRight(ui.session)
    BY DEF SlotInv, StatusRight
  <1>5. exec'[op'.cur.id].acct = address' => Mine(ui.session)
    BY DEF Mine
  <1>6. NothingToSend' <=> NothingToSend
    BY DEF NothingToSend
  <1> QED BY <1>1, <1>3, <1>4, <1>5, <1>6 DEF HandRight

LEMMA AskingKeeps ==
    ASSUME TransferInv, Review \/ Start \/ StartRecovery \/ ResumeRecovery \/ Continue
    PROVE  TransferInv'
  <1>1. DepositInv'
    BY AskingIsSafe, ContinueIsSafe DEF TransferInv
  <1>2. /\ UNCHANGED <<address, stored, recent, exec, txs, held, overlapped, lostHash>>
        /\ ui'.session = ui.session /\ ui'.status = ui.status /\ ui'.recovery = ui.recovery
    <2>1. ui \in UiType
      BY Shapes DEF TransferInv
    <2> QED BY <2>1 DEF Review, Start, StartRecovery, ResumeRecovery, Continue, auroraVars, UiType
  <1>3. ui.session.id = None => ui.session = NoSession /\ ~ui.status.leftover
    BY DEF TransferInv, DepositInv, SessionsTrue, SessionTrue, StatusTrue
  <1>4. \/ op' = op
        \/ op'.pc = "creating" /\ op'.cur = NoSession /\ op.pc = "idle"
        \/ /\ op.pc = "idle" /\ op'.cur = ui.session /\ ui.session.id # None
           /\ op'.pc \in {"signing", "sending", "confirming", "recovering", "recoverySigning"}
           /\ op'.pc = "recovering" => ui.session.recovery = None
           /\ op'.pc = "recoverySigning" => ui.session.recovery # None
           /\ op'.pc \in {"signing", "sending"} =>
                 ui.session.hash = 0 /\ Mine(ui.session) /\ ~NothingToSend
    <2>1. CASE Review
      BY <2>1 DEF Review
    <2>2. CASE Start
      BY <2>2, Blank DEF Start, busy, OpType
    <2>3. CASE StartRecovery
      BY <2>3, <1>3, Blank DEF StartRecovery, busy, OpType
    <2>4. CASE ResumeRecovery
      BY <2>4, <1>3, Blank DEF ResumeRecovery, busy, OpType
    <2>5. CASE Continue
      <3>1. op.pc = "idle" /\ ui.session.id # None /\ ui.status # NoStatus
        BY <1>3, <2>5 DEF Continue, busy
      <3>2. \/ op' = op
            \/ /\ ui.session.hash = 0 /\ ui.status.state \notin Over /\ address = Owner(ui.session)
               /\ op' = [Idle EXCEPT !.pc = NextAfter(ui.status.signed), !.cur = ui.session, !.acct = address]
            \/ op' = [Idle EXCEPT !.pc = "confirming", !.cur = ui.session, !.acct = address]
        BY <2>5 DEF Continue, AuthorizeAndSend
      <3>3. NextAfter(ui.status.signed) \in {"signing", "sending"}
        BY DEF NextAfter
      <3>4. ui.status.state \notin Over => ~NothingToSend
        BY <3>1 DEF NothingToSend
      <3> QED BY <3>1, <3>2, <3>3, <3>4, Blank DEF OpType, Owner, Mine
    <2> QED BY <2>1, <2>2, <2>3, <2>4, <2>5
  <1>5. op.pc # "sent" => op'.pc # "sent"
    BY <1>4
  <1>6. SessionMade(op'.cur) /\ HandTrue'
    <2>1. SessionMade(NoSession)
      BY Blank DEF SessionMade, Open, NoSession
    <2> QED BY <1>2, <1>4, <1>5, <2>1 DEF TransferInv, SessionsMade, HandTrue
  <1>7. ASSUME SlotInv PROVE HandRight'
    <2>1. CASE op' = op
      <3>1. (\A s : HashRight(s) => HashRight(s)')
        BY <1>2, <2>1, KnownStays
      <3>2. HashRight(op.cur) => HashRight(op.cur)'
        BY <3>1, <2>1 DEF HashRight
      <3>3. \A id : Open(id)' <=> Open(id)
        BY <1>2, NothingRuns
      <3>4. (NothingToSend' <=> NothingToSend) /\ (Working' <=> Working)
        BY <1>2, <2>1 DEF NothingToSend, Working
      <3>5. /\ Open(op.cur.id)' <=> Open(op.cur.id)
            /\ Open(op.cur.recovery)' <=> Open(op.cur.recovery)
            /\ Open(stored.recovery)' <=> Open(stored.recovery)
            /\ Open(stored.id)' <=> Open(stored.id)
        BY <1>2, <2>1 DEF Open
      <3> QED BY <1>2, <1>7, <2>1, <3>2, <3>4, <3>5 DEF SlotInv, HandRight
    <2>2. CASE op'.pc = "creating"
      BY <2>2 DEF HandRight, Working
    <2>3. CASE op' # op /\ op'.pc # "creating"
      BY <1>2, <1>4, <1>7, <2>3, TakenFromScreen
    <2> QED BY <2>1, <2>2, <2>3
  <1> QED BY <1>1, <1>2, <1>4, <1>5, <1>6, <1>7, HandStep

(* A function that ends leaves everything as it was; the hash of a         *)
(* transfer it had not heard of is lost with it.                           *)
LEMMA EndingKeeps ==
    ASSUME TransferInv, DepositInv', op' = Idle, op.pc = "sent" => op.cur.id \in lostHash',
           lostHash \subseteq lostHash',
           UNCHANGED <<address, ui, stored, recent, exec, txs, held, overlapped>>
    PROVE  TransferInv'
  <1>1. op'.pc = "idle" /\ op'.cur = NoSession
    BY Blank
  <1>2. SessionMade(op'.cur) /\ HandTrue' /\ HandRight'
    BY <1>1, Blank DEF SessionMade, Open, NoSession, HandTrue, HandRight, Working
  <1> QED BY <1>1, <1>2, HandStep

(* A session that is put back where it came from.                          *)
LEMMA PutBack ==
    ASSUME TransferInv, ~overlapped, UNCHANGED <<address, recent, exec, txs, held>>,
           Working, op.cur.id # None, ui'.status = ui.status,
           NEW next, ~Crowds(next), stored' = next, ui'.session = next,
           next.id = op.cur.id, next.recovery = op.cur.recovery,
           HashRight(op.cur) => HashRight(stored)',
           \/ ~Working'
           \/ op'.cur = next /\ op'.pc = "confirming" /\ HashRight(op.cur)
    PROVE  SlotInv'
  <1>1. SlotInv
    BY DEF TransferInv
  <1>2. /\ Open(op.cur.id) => stored.id = op.cur.id /\ HashRight(op.cur)
        /\ Open(op.cur.recovery) => stored.id = op.cur.id /\ stored.recovery = op.cur.recovery
        /\ stored.id = op.cur.id /\ Open(stored.recovery) => op.cur.recovery = stored.recovery
        /\ exec[op.cur.id].acct = address /\ ~HashRight(op.cur) => NothingToSend
    BY <1>1 DEF SlotInv, HandRight
  <1>3. /\ Open(next.id)' <=> Open(op.cur.id)
        /\ Open(next.recovery)' <=> Open(op.cur.recovery)
        /\ Open(stored.id)' <=> Open(op.cur.id)
    BY DEF Open
  <1>4. HashRight(stored)' <=> HashRight(ui.session)'
    BY DEF HashRight
  <1>5. ScreenIsStored'
    BY DEF ScreenIsStored, SameSession
  <1>6. StatusRight'
    <2>1. Mine(ui.session)' => exec[op.cur.id].acct = address
      BY DEF Mine
    <2>2. ASSUME Mine(ui.session)', ui'.status.state \in Over, Open(op.cur.id) PROVE FALSE
      <3>1. Mine(stored) /\ stored.id = op.cur.id
        BY <1>2, <2>1, <2>2 DEF Mine
      <3>2. SameSession(ui.session, stored)
        BY <1>1, <3>1 DEF SlotInv, ScreenIsStored
      <3>3. Mine(ui.session) /\ ui.session.id = op.cur.id
        BY <3>1, <3>2 DEF Mine, SameSession
      <3> QED BY <1>1, <2>2, <3>3 DEF SlotInv, StatusRight
    <2>3. Open(ui.session.id)' <=> Open(op.cur.id)
      BY DEF Open
    <2>4. NothingToSend' <=> NothingToSend
      BY DEF NothingToSend
    <2> QED BY <1>2, <1>4, <2>1, <2>2, <2>3, <2>4 DEF StatusRight
  <1>7. StorageRight'
    <2>1. Closed(recent)
      BY <1>1 DEF SlotInv, StorageRight
    <2>2. Closed(recent)'
      BY <2>1 DEF Closed, Open
    <2> QED BY <1>2, <1>3, <2>2 DEF StorageRight
  <1>8. HandRight'
    <2>1. CASE ~Working'
      BY <2>1 DEF HandRight
    <2>2. CASE op'.cur = next /\ op'.pc = "confirming" /\ HashRight(op.cur)
      <3>1. HashRight(op.cur)'
        BY <2>2 DEF HashRight
      <3> QED BY <2>2, <3>1 DEF HandRight
    <2> QED BY <2>1, <2>2
  <1>9. SignedIsStored'
    <2> SUFFICES ASSUME NEW id \in Executions, exec[id].signed, Open(id)
                 PROVE  id \in {next.id, next.recovery}
      BY DEF SignedIsStored, Open
    <2>1. id = stored.id \/ id = stored.recovery
      BY <1>1 DEF SlotInv, SignedIsStored
    <2>2. stored.id # None
      BY <2>1 DEF Open, NoSession, TransferInv, DepositInv, SessionsTrue, SessionTrue
    <2>3. stored.id = next.id
      BY <2>1, <2>2 DEF Crowds
    <2> QED BY <1>2, <2>1, <2>3
  <1>10. Covered'
    <2> SUFFICES ASSUME NEW id \in {next.id, next.recovery}, Open(id)
                 PROVE  Due(id) <= held[exec[id].acct] + Come(id)
      BY DEF Covered, Open, Due, Come, Pending
    <2>1. id \in {stored.id, stored.recovery}
      BY <1>2
    <2> QED BY <1>1, <2>1 DEF SlotInv, Covered
  <1> QED BY <1>5, <1>6, <1>7, <1>8, <1>9, <1>10 DEF SlotInv

LEMMA HashKeeps ==
    ASSUME TransferInv, HashComes
    PROVE  TransferInv'
  <1>1. DepositInv'
    BY HashIsSafe DEF TransferInv
  <1>2. op.pc = "sent" /\ UNCHANGED <<address, recent, exec, txs, held>>
    BY DEF HashComes, auroraVars
  <1>3. CASE op' = Idle /\ lostHash' = lostHash \cup {op.cur.id} /\ UNCHANGED <<ui, stored, overlapped>>
    BY <1>1, <1>2, <1>3, EndingKeeps
  <1>4. CASE ~(op' = Idle /\ lostHash' = lostHash \cup {op.cur.id} /\ UNCHANGED <<ui, stored, overlapped>>)
    <2> DEFINE next == [op.cur EXCEPT !.hash = Len(txs[op.cur.id])]
    <2>1. /\ stored' = next /\ overlapped' = (overlapped \/ Crowds(next))
          /\ ui' = [ui EXCEPT !.session = next]
          /\ op' = [op EXCEPT !.pc = "confirming", !.cur = next] /\ lostHash' = lostHash
      BY <1>4 DEF HashComes, Done, Kept, Save
    <2>2. /\ op \in OpType /\ ui \in UiType /\ op.cur \in SessionType /\ op.cur.id \in Executions
          /\ op.cur.id # None
          /\ txs[op.cur.id] \in Seq(TxState) /\ txs[op.cur.id] # <<>>
      BY <1>2, Shapes DEF TransferInv, HandTrue, DepositInv, OpTrue, OpType, SessionType
    <2>3. /\ next.id = op.cur.id /\ next.recovery = op.cur.recovery /\ next.settled = op.cur.settled
          /\ next.hash = Len(txs[op.cur.id])
      BY <2>2 DEF SessionType
    <2> HIDE DEF next
    <2>4. /\ ui'.session = next /\ ui'.status = ui.status /\ ui'.recovery = ui.recovery
          /\ op'.pc = "confirming" /\ op'.cur = next
      BY <2>1, <2>2 DEF UiType, OpType
    <2>5. NoSecondTransfer' /\ VaultCallCovered'
      <3>1. overlapped => overlapped'
        BY <2>1
      <3> QED BY <1>2, <2>1, <3>1 DEF TransferInv, NoSecondTransfer, VaultCallCovered
    <2>6. SessionsMade' /\ ScreenTrue' /\ HandTrue'
      <3>1. overlapped => overlapped'
        BY <2>1
      <3>2. SessionMade(next) /\ SessionMade(recent)
        BY <2>3 DEF TransferInv, SessionsMade, SessionMade
      <3>3. SessionsMade'
        BY <1>2, <2>1, <2>4, <3>1, <3>2 DEF SessionsMade, SessionMade, Open
      <3>4. ScreenTrue /\ next.id # None
        BY <2>2, <2>3 DEF TransferInv
      <3> QED BY <1>2, <2>4, <3>3, <3>4 DEF ScreenTrue, HandTrue, Open
    <2>7. ASSUME ~overlapped' PROVE SlotInv'
      <3>1. ~overlapped /\ ~Crowds(next)
        BY <2>1, <2>7
      <3>2. HashRight(op.cur)
        BY <1>2, <3>1 DEF TransferInv, SlotInv, HandRight, Working
      <3>3. op.cur.hash = 0
        BY <1>2, <3>1 DEF TransferInv, SlotInv, HandRight, Working
      <3>4. HashRight(stored)'
        <4>1. stored'.id = op.cur.id /\ stored'.hash = Len(txs[op.cur.id])
          BY <2>1, <2>3
        <4>2. Len(txs[op.cur.id]) \in DOMAIN txs[op.cur.id] /\ Len(txs[op.cur.id]) # 0
          BY <2>2, EmptySeq, LenProperties
        <4>3. op.cur.id \notin lostHash =>
                 \A i \in DOMAIN txs[op.cur.id] : i # Len(txs[op.cur.id]) => txs[op.cur.id][i] = "reverted"
          <5>1. \A i \in DOMAIN txs[op.cur.id] : i # Len(txs[op.cur.id]) => i \in Known(op.cur.id) /\ i # 0
            BY <2>2, LenProperties DEF Known
          <5> QED BY <2>2, <3>2, <3>3, <5>1 DEF HashRight
        <4>4. Known(stored.id)' = DOMAIN txs[op.cur.id]
          BY <1>2, <2>4, <4>1 DEF Known
        <4> QED BY <1>2, <2>1, <4>1, <4>2, <4>3, <4>4 DEF HashRight
      <3> QED BY <1>2, <2>1, <2>2, <2>3, <2>4, <3>1, <3>2, <3>4, PutBack DEF Working
    <2> QED BY <1>1, <2>5, <2>6, <2>7 DEF TransferInv
  <1> QED BY <1>3, <1>4

LEMMA ReceiptKeeps ==
    ASSUME TransferInv, Receipt
    PROVE  TransferInv'
  <1>1. DepositInv'
    BY ReceiptIsSafe DEF TransferInv
  <1>2. op.pc = "confirming" /\ op' = Idle /\ UNCHANGED <<address, recent, exec, txs, held, lostHash>>
    BY DEF Receipt, auroraVars, Done
  <1>3. CASE UNCHANGED <<ui, stored, overlapped>>
    BY <1>1, <1>2, <1>3, EndingKeeps
  <1>4. CASE ~UNCHANGED <<ui, stored, overlapped>>
    <2> DEFINE retry == [op.cur EXCEPT !.hash = 0]
    <2>1. /\ txs[op.cur.id][op.cur.hash] = "reverted"
          /\ stored' = retry /\ overlapped' = (overlapped \/ Crowds(retry))
          /\ ui' = [ui EXCEPT !.session = retry]
      BY <1>4 DEF Receipt, Save
    <2>2. /\ op \in OpType /\ ui \in UiType /\ op.cur \in SessionType /\ op.cur.id # None
      BY <1>2, Shapes DEF TransferInv, DepositInv, OpTrue
    <2>3. /\ retry.id = op.cur.id /\ retry.recovery = op.cur.recovery /\ retry.settled = op.cur.settled
          /\ retry.hash = 0
      BY <2>2 DEF SessionType
    <2> HIDE DEF retry
    <2>4. /\ ui'.session = retry /\ ui'.status = ui.status /\ ui'.recovery = ui.recovery
          /\ op'.pc = "idle" /\ op'.cur = NoSession
      BY <1>2, <2>1, <2>2, Blank DEF UiType
    <2>5. NoSecondTransfer' /\ VaultCallCovered'
      <3>1. overlapped => overlapped'
        BY <2>1
      <3> QED BY <1>2, <2>1, <3>1 DEF TransferInv, NoSecondTransfer, VaultCallCovered
    <2>6. SessionsMade' /\ ScreenTrue' /\ HandTrue'
      <3>1. overlapped => overlapped'
        BY <2>1
      <3>2. SessionMade(retry) /\ SessionMade(recent) /\ SessionMade(NoSession)
        BY <2>3 DEF TransferInv, SessionsMade, SessionMade, Open, NoSession
      <3>3. SessionsMade'
        BY <1>2, <2>1, <2>4, <3>1, <3>2 DEF SessionsMade, SessionMade, Open
      <3>4. ScreenTrue /\ retry.id # None
        BY <2>2, <2>3 DEF TransferInv
      <3> QED BY <1>2, <2>4, <3>3, <3>4 DEF ScreenTrue, HandTrue, Open
    <2>7. ASSUME ~overlapped' PROVE SlotInv'
      <3>1. ~overlapped /\ ~Crowds(retry)
        BY <2>1, <2>7
      <3>2. HashRight(op.cur) => HashRight(stored)'
        <4>1. Known(stored.id)' = Known(op.cur.id)
          BY <1>2, <2>1, <2>3, <2>4 DEF Known
        <4> QED BY <1>2, <2>1, <2>3, <4>1 DEF HashRight
      <3> QED BY <1>2, <2>1, <2>2, <2>3, <2>4, <3>1, <3>2, PutBack DEF Working
    <2> QED BY <1>1, <2>5, <2>6, <2>7 DEF TransferInv
  <1> QED BY <1>3, <1>4

(* The transfer that goes out is one the page does not know of yet, and    *)
(* all before it reverted.                                                 *)
LEMMA SendKeeps ==
    ASSUME TransferInv, Send
    PROVE  TransferInv'
  <1>1. DepositInv'
    BY SendIsSafe DEF TransferInv
  <1>2. /\ op.pc = "sending"
        /\ UNCHANGED <<address, ui, stored, recent, exec, held, lostHash, overlapped>>
    BY DEF Send
  <1>3. CASE op' = Idle /\ txs' = txs
    BY <1>1, <1>2, <1>3, EndingKeeps
  <1>4. CASE ~(op' = Idle /\ txs' = txs)
    <2> DEFINE x == op.cur.id
    <2>1. /\ txs' = [txs EXCEPT ![x] = Append(@, "pending")]
          /\ op' = [op EXCEPT !.pc = "sent"]
      BY <1>4 DEF Send, Done
    <2>2. /\ op \in OpType /\ op.cur \in SessionType /\ x \in Executions /\ x # None
          /\ txs \in [Executions -> Seq(TxState)] /\ stored \in SessionType
          /\ ui.session \in SessionType
      BY <1>2, Shapes DEF TransferInv, DepositInv, OpTrue, SessionType
    <2>3. op'.pc = "sent" /\ op'.cur = op.cur
      BY <2>1, <2>2 DEF OpType
    <2>4. /\ Len(txs'[x]) = Len(txs[x]) + 1 /\ Len(txs[x]) \in Nat
          /\ DOMAIN txs'[x] = 1 .. Len(txs[x]) + 1 /\ DOMAIN txs[x] = 1 .. Len(txs[x])
          /\ \A i \in DOMAIN txs[x] : txs'[x][i] = txs[x][i]
          /\ txs'[x] # <<>>
      <3>1. txs'[x] = Append(txs[x], "pending") /\ txs[x] \in Seq(TxState) /\ "pending" \in TxState
        BY <2>1, <2>2 DEF TxState
      <3> HIDE DEF x
      <3> QED BY <3>1, AppendProperties, LenProperties
    <2>5. ASSUME NEW id \in Executions
          PROVE  Known(id)' = Known(id) /\ \A i \in Known(id) : txs'[id][i] = txs[id][i]
      <3>1. CASE id = x
        <4>1. Known(id) = DOMAIN txs[x]
          BY <1>2, <3>1 DEF Known
        <4>2. Known(id)' = {i \in DOMAIN txs'[x] : i # Len(txs'[x])}
          BY <2>3, <3>1 DEF Known
        <4>3. {i \in DOMAIN txs'[x] : i # Len(txs'[x])} = DOMAIN txs[x]
          BY <2>4
        <4> QED BY <2>4, <3>1, <4>1, <4>2, <4>3
      <3>2. CASE id # x
        BY <1>2, <2>1, <2>2, <2>3, <3>2 DEF Known
      <3> QED BY <3>1, <3>2
    <2>6. ASSUME NEW s \in SessionType, HashRight(s) PROVE HashRight(s)'
      <3> SUFFICES ASSUME s.id # None, s.id \notin lostHash' PROVE
                /\ s.hash # 0 => s.hash \in Known(s.id)'
                /\ \A i \in Known(s.id)' : i # s.hash => txs'[s.id][i] = "reverted"
        BY DEF HashRight
      <3>1. s.id \in Executions /\ s.id \notin lostHash
        BY <1>2, Shapes DEF SessionType, TransferInv
      <3> QED BY <2>5, <2>6, <3>1 DEF HashRight
    <2>7. /\ \A id : Open(id)' <=> Open(id)
          /\ \A s : (SessionMade(s) => SessionMade(s)') /\ (Closed(s)' <=> Closed(s))
          /\ VaultCallCovered'
      BY <1>2, NothingRuns DEF TransferInv
    <2>8. SessionsMade' /\ ScreenTrue' /\ HandTrue'
      BY <1>2, <2>3, <2>4, <2>7
         DEF TransferInv, SessionsMade, SessionMade, ScreenTrue, HandTrue
    <2>9. NoSecondTransfer'
      <3> SUFFICES ASSUME NEW id \in Executions \ lostHash, ~overlapped,
                          NEW i \in DOMAIN txs'[id], NEW j \in DOMAIN txs'[id], i # j
                   PROVE  "reverted" \in {txs'[id][i], txs'[id][j]}
        BY <1>2 DEF NoSecondTransfer
      <3>1. CASE id # x
        BY <2>1, <2>2, <3>1 DEF TransferInv, NoSecondTransfer
      <3>2. CASE id = x
        <4>1. op.cur.hash = 0 /\ HashRight(op.cur)
          BY <1>2 DEF TransferInv, SlotInv, HandRight, Working
        <4>2. \A k \in DOMAIN txs[x] : txs[x][k] = "reverted"
          <5>1. \A k \in DOMAIN txs[x] : k \in Known(x) /\ k # 0
            BY <1>2, <2>4 DEF Known
          <5> QED BY <2>2, <3>2, <4>1, <5>1 DEF HashRight
        <4>3. i \in DOMAIN txs[x] \/ j \in DOMAIN txs[x]
          <5> HIDE DEF x
          <5>1. i \in 1 .. Len(txs[x]) + 1 /\ j \in 1 .. Len(txs[x]) + 1
            BY <2>4, <3>2
          <5>2. i \in 1 .. Len(txs[x]) \/ j \in 1 .. Len(txs[x])
            BY <2>4, <5>1
          <5> QED BY <2>4, <5>2
        <4> QED BY <2>4, <3>2, <4>2, <4>3
      <3> QED BY <3>1, <3>2
    <2>10. ASSUME SlotInv PROVE SlotInv'
      <3>1. /\ HashRight(stored) => HashRight(stored)'
            /\ HashRight(ui.session) => HashRight(ui.session)'
            /\ HashRight(op.cur) => HashRight(op.cur)'
        <4>1. \A id \in Executions : Known(id)' = Known(id) /\ \A i \in Known(id) : txs'[id][i] = txs[id][i]
          BY <2>5
        <4>2. \A s \in SessionType : s.id \in Executions \/ s.id = None
          BY DEF SessionType, Ids
        <4>3. UNCHANGED <<lostHash, stored, ui, op.cur>>
          BY <1>2, <2>3
        <4>4. HashRight(stored) => HashRight(stored)'
          BY <2>2, <4>1, <4>2, <4>3 DEF HashRight
        <4>5. HashRight(ui.session) => HashRight(ui.session)'
          BY <2>2, <4>1, <4>2, <4>3 DEF HashRight
        <4>6. HashRight(op.cur) => HashRight(op.cur)'
          BY <2>2, <4>1, <4>2, <4>3 DEF HashRight
        <4> QED BY <4>4, <4>5, <4>6
      <3>2. ScreenIsStored'
        BY <1>2, <2>7, <2>10 DEF SlotInv, ScreenIsStored, SameSession, Mine, Closed, NothingToSend
      <3>3. StatusRight' /\ StorageRight'
        BY <1>2, <2>7, <2>10, <3>1
           DEF SlotInv, StatusRight, StorageRight, Mine, NothingToSend, Open, Closed
      <3>4. HandRight'
        BY <1>2, <2>3, <2>7, <2>10, <3>1 DEF SlotInv, HandRight, Working, NothingToSend, Open
      <3>5. SignedIsStored' /\ Covered'
        BY <1>2, <2>10 DEF SlotInv, SignedIsStored, Covered, Due, Come, Pending, Open
      <3> QED BY <3>2, <3>3, <3>4, <3>5 DEF SlotInv
    <2> QED BY <1>1, <1>2, <2>7, <2>8, <2>9, <2>10 DEF TransferInv
  <1> QED BY <1>3, <1>4

(* Steps of Aurora and the chain that leave the screen and storage as they *)
(* are.                                                                    *)
LEMMA WorldStep ==
    ASSUME TransferInv, DepositInv', UNCHANGED <<address, stored, recent, overlapped>>,
           ui'.session = ui.session, ui'.status = ui.status,
           ExecutionsStay, \A s \in SessionType : HashRight(s) => HashRight(s)',
           SessionMade(op.cur)', ScreenTrue', HandTrue', NoSecondTransfer', VaultCallCovered',
           SlotInv => HandRight' /\ SignedIsStored' /\ Covered'
    PROVE  TransferInv'
  <1>1. /\ ui.session \in SessionType /\ stored \in SessionType /\ recent \in SessionType
        /\ SessionMade(ui.session) /\ SessionMade(stored) /\ SessionMade(recent)
    BY Shapes DEF TransferInv, SessionsMade
  <1>2. /\ SessionMade(ui.session)' /\ SessionMade(stored)' /\ SessionMade(recent)'
        /\ Open(stored.id)' => Open(stored.id)
        /\ Open(ui.session.id)' => Open(ui.session.id)
        /\ Closed(recent) => Closed(recent)'
        /\ Closed(ui.session) => Closed(ui.session)'
        /\ Mine(ui.session)' <=> Mine(ui.session)
        /\ Mine(stored)' <=> Mine(stored)
    <2>1. /\ SessionMade(ui.session)' /\ (Open(ui.session.id)' => Open(ui.session.id))
          /\ Closed(ui.session) => Closed(ui.session)'
          /\ Mine(ui.session)' <=> Mine(ui.session)
      BY <1>1, MadeStays DEF SessionMade, Open, Closed, Mine
    <2>2. /\ SessionMade(stored)' /\ (Open(stored.id)' => Open(stored.id))
          /\ Mine(stored)' <=> Mine(stored)
      BY <1>1, MadeStays DEF SessionMade, Open, Closed, Mine
    <2>3. SessionMade(recent)' /\ (Closed(recent) => Closed(recent)')
      BY <1>1, MadeStays DEF SessionMade, Open, Closed, Mine
    <2> QED BY <2>1, <2>2, <2>3
  <1>3. NothingToSend' <=> NothingToSend
    BY DEF NothingToSend
  <1>4. /\ HashRight(stored) => HashRight(stored)'
        /\ HashRight(ui.session) => HashRight(ui.session)'
    BY <1>1 DEF HashRight
  <1>5. ASSUME SlotInv PROVE SlotInv'
    <2>1. ScreenIsStored'
      BY <1>2, <1>3, <1>5 DEF SlotInv, ScreenIsStored, SameSession
    <2>2. StatusRight'
      BY <1>2, <1>3, <1>4, <1>5 DEF SlotInv, StatusRight
    <2>3. StorageRight'
      BY <1>2, <1>4, <1>5 DEF SlotInv, StorageRight
    <2> QED BY <1>5, <2>1, <2>2, <2>3 DEF SlotInv
  <1> QED BY <1>2, <1>5 DEF TransferInv, SessionsMade

LEMMA ScreenStays ==
    ASSUME TransferInv, ExecutionsStay, ui'.session = ui.session, ui'.status = ui.status,
           ui'.recovery = ui.recovery
    PROVE  ScreenTrue'
  <1>1. ui.recovery.of \in Executions \cup {None}
    BY Shapes DEF TransferInv, UiType
  <1>2. ui.recovery.of # None =>
           exec'[ui.recovery.of].kind # "none" /\ (Open(ui.recovery.of)' => Open(ui.recovery.of))
    BY <1>1 DEF TransferInv, ScreenTrue, ExecutionsStay
  <1> QED BY <1>2 DEF TransferInv, ScreenTrue, Open

(* What the function in progress has in hand stays right while it waits.   *)
LEMMA HandStays ==
    ASSUME TransferInv, SlotInv, UNCHANGED <<address, stored>>,
           ui'.session = ui.session, ui'.status = ui.status, ExecutionsStay, overlapped => overlapped',
           \A s \in SessionType : HashRight(s) => HashRight(s)',
           op'.cur = op.cur, Working' => Working,
           op'.pc \in {"signing", "sending", "sent"} => op.pc \in {"signing", "sending", "sent"}
    PROVE  HandRight'
  <1> SUFFICES ASSUME Working' PROVE HandRight'
    BY DEF HandRight
  <1>1. /\ op.cur \in SessionType /\ stored \in SessionType /\ op.cur.id # None
        /\ SessionMade(op.cur) /\ SessionMade(stored)
    BY Shapes DEF TransferInv, SessionsMade, DepositInv, OpTrue, Working
  <1>2. /\ Open(op.cur.id)' => Open(op.cur.id)
        /\ Open(op.cur.recovery)' => Open(op.cur.recovery)
        /\ exec'[op.cur.id].acct = exec[op.cur.id].acct
    BY <1>1, MadeStays DEF Open
  <1>3. /\ Open(stored.recovery)' => Open(stored.recovery)
        /\ Open(stored.id)' => Open(stored.id) /\ exec'[stored.id].acct = exec[stored.id].acct
    BY <1>1, MadeStays DEF Open
  <1>4. HashRight(op.cur) => HashRight(op.cur)'
    BY <1>1 DEF HashRight
  <1>5. NothingToSend' <=> NothingToSend
    BY DEF NothingToSend
  <1> QED BY <1>2, <1>3, <1>4, <1>5 DEF SlotInv, HandRight

(* A signature changes nothing but itself.                                 *)
LEMMA SignatureOnly ==
    ASSUME TransferInv, NEW x \in Executions, exec' = [exec EXCEPT ![x].signed = TRUE],
           UNCHANGED <<stored, held, overlapped>>
    PROVE  /\ ExecutionsStay /\ VaultCallCovered'
           /\ SignedIsStored /\ (Open(x) => x \in {stored.id, stored.recovery}) => SignedIsStored'
           /\ Covered => Covered'
  <1>1. exec \in [Executions -> ExecType]
    BY Shapes DEF TransferInv
  <1>2. \A id \in Executions :
           /\ exec'[id].kind = exec[id].kind /\ exec'[id].acct = exec[id].acct
           /\ exec'[id].state = exec[id].state /\ exec'[id].amount = exec[id].amount
           /\ exec'[id].short = exec[id].short
           /\ exec'[id].signed => exec[id].signed \/ id = x
    BY <1>1 DEF ExecType
  <1>3. \A id \in Executions : Open(id)' <=> Open(id)
    BY <1>2 DEF Open
  <1>4. ExecutionsStay
    BY <1>2, <1>3 DEF ExecutionsStay
  <1>5. VaultCallCovered'
    BY <1>2 DEF TransferInv, VaultCallCovered
  <1>6. SignedIsStored /\ (Open(x) => x \in {stored.id, stored.recovery}) => SignedIsStored'
    BY <1>2, <1>3 DEF SignedIsStored
  <1>7. ASSUME Covered PROVE Covered'
    <2> SUFFICES ASSUME NEW id \in {stored.id, stored.recovery}, Open(id)'
                 PROVE  Due(id)' <= held[exec'[id].acct] + Come(id)'
      BY DEF Covered
    <2>1. id \in Executions
      <3>1. stored \in SessionType
        BY Shapes DEF TransferInv
      <3> QED BY <3>1 DEF Open, SessionType, Ids
    <2>2. Due(id)' = Due(id) /\ Come(id)' = Come(id) /\ exec'[id].acct = exec[id].acct /\ Open(id)
      BY <1>2, <1>3, <2>1 DEF Due, Come, Pending
    <2> QED BY <1>7, <2>2 DEF Covered
  <1> QED BY <1>4, <1>5, <1>6, <1>7

LEMMA SignKeeps ==
    ASSUME TransferInv, Sign
    PROVE  TransferInv'
  <1>1. DepositInv'
    BY SignIsSafe DEF TransferInv
  <1>2. /\ op.pc = "signing"
        /\ UNCHANGED <<address, ui, stored, recent, txs, held, lostHash, overlapped>>
    BY DEF Sign
  <1>3. CASE op' = Idle /\ exec' = exec
    BY <1>1, <1>2, <1>3, EndingKeeps
  <1>4. CASE ~(op' = Idle /\ exec' = exec)
    <2>1. exec' = [exec EXCEPT ![op.cur.id].signed = TRUE] /\ op' = [op EXCEPT !.pc = "sending"]
      BY <1>4 DEF Sign, Done
    <2>2. op \in OpType /\ op.cur \in SessionType /\ op.cur.id \in Executions
      BY <1>2, Shapes DEF TransferInv, DepositInv, OpTrue, SessionType
    <2>3. op'.cur = op.cur /\ op'.pc = "sending"
      BY <2>1, <2>2 DEF OpType
    <2>4. /\ ExecutionsStay /\ VaultCallCovered'
          /\ SignedIsStored /\ (Open(op.cur.id) => op.cur.id \in {stored.id, stored.recovery})
                => SignedIsStored'
          /\ Covered => Covered'
      BY <1>2, <2>1, <2>2, SignatureOnly
    <2>5. (\A s : HashRight(s) => HashRight(s)') /\ NoSecondTransfer'
      BY <1>2, <2>3, KnownStays DEF TransferInv
    <2>6. SessionMade(op.cur)'
      <3>1. SessionMade(op.cur)
        BY DEF TransferInv, SessionsMade
      <3> QED BY <1>2, <2>2, <2>3, <2>4, <3>1, MadeStays DEF SessionMade, Open
    <2>7. ScreenTrue' /\ HandTrue'
      BY <1>2, <2>3, <2>4, ScreenStays DEF HandTrue
    <2>8. ASSUME SlotInv PROVE HandRight' /\ SignedIsStored' /\ Covered'
      <3>1. HandRight'
        BY <1>2, <2>3, <2>4, <2>5, <2>8, HandStays DEF Working
      <3>2. Open(op.cur.id) => op.cur.id = stored.id
        BY <1>2, <2>8 DEF SlotInv, HandRight, Working
      <3> QED BY <2>4, <2>8, <3>1, <3>2 DEF SlotInv
    <2> QED BY <1>1, <1>2, <2>4, <2>5, <2>6, <2>7, <2>8, WorldStep
  <1> QED BY <1>3, <1>4

LEMMA SignRecoveryKeeps ==
    ASSUME TransferInv, SignRecovery
    PROVE  TransferInv'
  <1>1. DepositInv'
    BY SignRecoveryIsSafe DEF TransferInv
  <1>2. /\ op.pc = "recoverySigning" /\ op' = Idle /\ op'.pc = "idle" /\ op'.cur = NoSession
        /\ UNCHANGED <<address, stored, recent, txs, held, lostHash, overlapped>>
    BY Blank DEF SignRecovery, Done
  <1>3. CASE UNCHANGED <<exec, ui>>
    BY <1>1, <1>2, <1>3, EndingKeeps
  <1>4. CASE ~UNCHANGED <<exec, ui>>
    <2> DEFINE x == op.cur.recovery
    <2>1. /\ exec' = [exec EXCEPT ![x].signed = TRUE]
          /\ ui' = [ui EXCEPT !.recovery = [of |-> x, state |-> "DEPOSIT_PENDING", signed |-> FALSE]]
      BY <1>4 DEF SignRecovery
    <2>2. op.cur \in SessionType /\ x \in Executions /\ x # None /\ exec[x].kind = "recovery"
      BY <1>2, Shapes DEF TransferInv, HandTrue, SessionType, SessionsMade, SessionMade
    <2> HIDE DEF x
    <2>3. /\ ui'.session = ui.session /\ ui'.status = ui.status
          /\ ui'.recovery.of = x /\ ui'.recovery.state = "DEPOSIT_PENDING"
      <3>1. ui \in UiType
        BY Shapes DEF TransferInv
      <3> QED BY <2>1, <3>1 DEF UiType
    <2>4. /\ ExecutionsStay /\ VaultCallCovered'
          /\ SignedIsStored /\ (Open(x) => x \in {stored.id, stored.recovery}) => SignedIsStored'
          /\ Covered => Covered'
      BY <1>2, <2>1, <2>2, SignatureOnly
    <2>5. (\A s : HashRight(s) => HashRight(s)') /\ NoSecondTransfer'
      BY <1>2, KnownStays DEF TransferInv
    <2>6. SessionMade(op.cur)' /\ HandTrue' /\ HandRight'
      BY <1>2, Blank DEF SessionMade, Open, NoSession, HandTrue, HandRight, Working
    <2>7. ScreenTrue'
      <3>1. exec'[x].kind # "none"
        BY <2>2, <2>4 DEF ExecutionsStay
      <3> QED BY <2>3, <3>1 DEF TransferInv, ScreenTrue, Over, Failed
    <2>8. ASSUME SlotInv PROVE SignedIsStored' /\ Covered'
      <3>1. Open(x) => x = stored.recovery
        BY <1>2, <2>8 DEF SlotInv, HandRight, Working, x
      <3> QED BY <2>4, <2>8, <3>1 DEF SlotInv
    <2> QED BY <1>1, <1>2, <2>3, <2>4, <2>5, <2>6, <2>7, <2>8, WorldStep
  <1> QED BY <1>3, <1>4

(* A new execution: nothing was sent for it, no session is of it, and      *)
(* everything made before is as it was.                                    *)
Makes(new, kind, acct, amount) ==
    /\ exec[new] = NoExec /\ UNCHANGED <<txs, held>>
    /\ exec' = [exec EXCEPT ![new] = NewExec(kind, acct, amount)]

Made(new, kind, acct, amount) ==
    /\ ExecutionsStay /\ ~Open(new) /\ txs[new] = <<>>
    /\ exec'[new].kind = kind /\ exec'[new].acct = acct /\ exec'[new].amount = amount
    /\ exec'[new].state = "DEPOSIT_PENDING" /\ ~exec'[new].signed
    /\ \A id \in Executions : id # new => exec'[id] = exec[id]
    /\ \A id \in Executions : id # new => (Open(id)' <=> Open(id))
    /\ (overlapped => overlapped') => VaultCallCovered'

LEMMA FreshExecution ==
    ASSUME TransferInv, NEW new \in Executions, NEW kind, NEW acct, NEW amount,
           Makes(new, kind, acct, amount)
    PROVE  Made(new, kind, acct, amount)
  <1> USE DEF Makes
  <1>1. /\ exec \in [Executions -> ExecType] /\ NoExec.kind = "none" /\ ~NoExec.signed /\ ~NoExec.short
        /\ NoExec.state = "none"
    BY Shapes DEF TransferInv, NoExec
  <1>2. /\ NewExec(kind, acct, amount).kind = kind /\ NewExec(kind, acct, amount).acct = acct
        /\ NewExec(kind, acct, amount).amount = amount
        /\ NewExec(kind, acct, amount).state = "DEPOSIT_PENDING"
        /\ ~NewExec(kind, acct, amount).signed /\ ~NewExec(kind, acct, amount).short
    BY DEF NewExec, NoExec
  <1>3. exec'[new] = NewExec(kind, acct, amount) /\ \A id \in Executions : id # new => exec'[id] = exec[id]
    BY <1>1
  <1>4. \A id \in Executions : id # new => (Open(id)' <=> Open(id))
    BY <1>3 DEF Open
  <1>5. ExecutionsStay /\ ~Open(new)
    BY <1>1, <1>3, <1>4 DEF ExecutionsStay, Open
  <1>6. txs[new] = <<>>
    BY <1>1 DEF TransferInv, DepositInv, MoneyFollowsSignature
  <1>7. (overlapped => overlapped') => VaultCallCovered'
    <2> SUFFICES ASSUME overlapped => overlapped', NEW id \in Executions, exec'[id].short
                 PROVE  overlapped'
      BY DEF VaultCallCovered
    <2>1. id # new
      BY <1>2, <1>3
    <2> QED BY <1>3, <2>1 DEF TransferInv, VaultCallCovered
  <1> QED BY <1>2, <1>3, <1>4, <1>5, <1>6, <1>7 DEF Made

(* It is the only one that can still move money, unless a session is       *)
(* dropped for it.                                                         *)
LEMMA OnlyTheNew ==
    ASSUME TransferInv, SlotInv, NEW new \in Executions, exec[new] = NoExec,
           NEW next, ~Crowds(next), ~exec'[new].signed,
           \A id \in Executions : id # new => exec'[id] = exec[id],
           stored.id # None /\ stored.id = next.id => ~Open(stored.id) /\ ~Open(stored.recovery)
    PROVE  SignedIsStored'
  <1> SUFFICES ASSUME NEW id \in Executions, exec'[id].signed, Open(id)' PROVE FALSE
    BY DEF SignedIsStored
  <1>1. id # new
    OBVIOUS
  <1>2. exec[id].signed /\ Open(id)
    BY <1>1 DEF Open
  <1>3. id = stored.id \/ id = stored.recovery
    BY <1>2 DEF SlotInv, SignedIsStored
  <1>4. stored.id # None
    BY <1>2, <1>3 DEF Open, NoSession, TransferInv, DepositInv, SessionsTrue, SessionTrue
  <1> QED BY <1>2, <1>3, <1>4 DEF Crowds

LEMMA MadeAndLost ==
    ASSUME TransferInv, DepositInv', NEW new \in Executions, NEW kind, NEW acct, NEW amount,
           Makes(new, kind, acct, amount), op' = Idle, op.pc # "sent",
           UNCHANGED <<address, ui, stored, recent, lostHash, overlapped>>
    PROVE  TransferInv'
  <1>1. /\ ExecutionsStay /\ VaultCallCovered' /\ ~exec'[new].signed
        /\ \A id \in Executions : id # new => exec'[id] = exec[id]
        /\ \A id \in Executions : id # new => (Open(id)' <=> Open(id))
        /\ exec[new] = NoExec /\ UNCHANGED <<txs, held>>
    BY FreshExecution DEF Made, Makes
  <1>2. op'.pc = "idle" /\ op'.cur = NoSession
    BY Blank
  <1>3. (\A s : HashRight(s) => HashRight(s)') /\ NoSecondTransfer'
    BY <1>1, <1>2, KnownStays DEF TransferInv
  <1>4. SessionMade(op.cur)' /\ HandTrue' /\ HandRight'
    BY <1>2, Blank DEF SessionMade, Open, NoSession, HandTrue, HandRight, Working
  <1>5. ScreenTrue'
    BY <1>1, ScreenStays
  <1>6. ASSUME SlotInv PROVE SignedIsStored' /\ Covered'
    <2>1. new \notin {stored.id, stored.recovery}
      BY <1>1, Blank, Shapes DEF TransferInv, SessionsMade, SessionMade
    <2>2. SignedIsStored'
      BY <1>1, <1>6 DEF SlotInv, SignedIsStored
    <2>3. Covered'
      <3> SUFFICES ASSUME NEW id \in {stored.id, stored.recovery}, Open(id)'
                   PROVE  Due(id)' <= held[exec'[id].acct] + Come(id)'
        BY <1>1 DEF Covered
      <3>1. id \in Executions /\ id # new
        <4>1. stored \in SessionType
          BY Shapes DEF TransferInv
        <4> QED BY <2>1, <4>1 DEF Open, SessionType, Ids
      <3>2. exec'[id] = exec[id] /\ Open(id)
        BY <1>1, <3>1
      <3> QED BY <1>6, <3>2 DEF SlotInv, Covered, Due, Come, Pending
    <2> QED BY <2>2, <2>3
  <1> QED BY <1>1, <1>3, <1>4, <1>5, <1>6, WorldStep

LEMMA CreateKeeps ==
    ASSUME TransferInv, Create
    PROVE  TransferInv'
  <1>1. DepositInv'
    BY CreateIsSafe DEF TransferInv
  <1>2. op.pc = "creating" /\ UNCHANGED <<address, recent, txs, held, lostHash>>
    BY DEF Create
  <1>3. CASE op' = Idle /\ UNCHANGED <<exec, ui, stored, overlapped>>
    BY <1>1, <1>2, <1>3, EndingKeeps
  <1>4. CASE ~(op' = Idle /\ UNCHANGED <<exec, ui, stored, overlapped>>)
    <2>1. PICK new \in Executions :
             /\ exec[new] = NoExec
             /\ exec' = [exec EXCEPT ![new] = NewExec("deposit", op.acct, MinOut + held[op.acct])]
             /\ LET s == [NoSession EXCEPT !.id = new]
                IN  \/ op' = Idle /\ UNCHANGED <<ui, stored, overlapped>>
                    \/ /\ stored' = s /\ overlapped' = (overlapped \/ Crowds(s))
                       /\ ui' = [ui EXCEPT !.session = s, !.started = new,
                                    !.status = [NoStatus EXCEPT !.state = "DEPOSIT_PENDING"]]
                       /\ op' = [Idle EXCEPT !.pc = "signing", !.cur = s, !.acct = op.acct]
      BY <1>4 DEF Create, FirstFree, Save, Done, AuthorizeAndSend, NextAfter
    <2> DEFINE s == [NoSession EXCEPT !.id = new]
    <2>2. op.acct \in Accounts /\ MinOut + held[op.acct] \in Nat /\ held[op.acct] \in Nat
      BY <1>2, Shapes, DepositAssumption DEF DepositAssumption, TransferInv, DepositInv, PageTypes
    <2>3. Makes(new, "deposit", op.acct, MinOut + held[op.acct])
      BY <1>2, <2>1 DEF Makes
    <2>4. CASE op' = Idle /\ UNCHANGED <<ui, stored, overlapped>>
      BY <1>1, <1>2, <2>3, <2>4, MadeAndLost
    <2>5. CASE ~(op' = Idle /\ UNCHANGED <<ui, stored, overlapped>>)
      <3>1. /\ stored' = s /\ overlapped' = (overlapped \/ Crowds(s))
            /\ ui' = [ui EXCEPT !.session = s, !.started = new,
                         !.status = [NoStatus EXCEPT !.state = "DEPOSIT_PENDING"]]
            /\ op' = [Idle EXCEPT !.pc = "signing", !.cur = s, !.acct = op.acct]
        BY <2>1, <2>5
      <3>2. /\ s.id = new /\ s.hash = 0 /\ s.recovery = None /\ s.settled = FALSE
        BY DEF NoSession
      <3> HIDE DEF s
      <3>3. /\ ui'.session = s /\ ui'.recovery = ui.recovery
            /\ ui'.status.state = "DEPOSIT_PENDING" /\ ~ui'.status.leftover
            /\ op'.pc = "signing" /\ op'.cur = s
        <4>1. ui \in UiType
          BY Shapes DEF TransferInv
        <4> QED BY <3>1, <4>1, Blank DEF UiType, OpType, NoStatus
      <3>4. /\ ExecutionsStay /\ ~Open(new) /\ txs[new] = <<>>
            /\ exec'[new].kind = "deposit" /\ exec'[new].acct = op.acct
            /\ exec'[new].amount = MinOut + held[op.acct]
            /\ exec'[new].state = "DEPOSIT_PENDING" /\ ~exec'[new].signed
            /\ \A id \in Executions : id # new => exec'[id] = exec[id]
            /\ VaultCallCovered'
        <4>1. Made(new, "deposit", op.acct, MinOut + held[op.acct])
          BY <2>3, FreshExecution
        <4> QED BY <3>1, <4>1 DEF Made
      <3>5. new # None /\ new \in Executions
        BY DEF None, Executions
      <3>6. NoSecondTransfer'
        BY <1>2, <3>1, <3>3, KnownStays DEF TransferInv
      <3>7. SessionMade(s)' /\ SessionMade(recent)' /\ (Closed(recent) => Closed(recent)')
        <4>1. SessionMade(s)'
          BY <3>2, <3>4, <3>5 DEF SessionMade
        <4>2. SessionMade(recent)' /\ (Closed(recent) => Closed(recent)')
          <5>1. recent \in SessionType /\ SessionMade(recent)
            BY Shapes DEF TransferInv, SessionsMade
          <5>2. overlapped => overlapped'
            BY <3>1
          <5> QED BY <1>2, <3>4, <5>1, <5>2, MadeStays DEF SessionMade, Closed, Open
        <4> QED BY <4>1, <4>2
      <3>8. SessionsMade' /\ HandTrue'
        BY <1>2, <3>1, <3>3, <3>7 DEF SessionsMade, SessionMade, HandTrue, Open
      <3>9. ScreenTrue'
        <4>1. ui.recovery.of \in Executions \cup {None}
          BY Shapes DEF TransferInv, UiType
        <4>2. ui.recovery.of # None =>
                 exec'[ui.recovery.of].kind # "none" /\ (Open(ui.recovery.of)' => Open(ui.recovery.of))
          <5>1. ExecutionsStay /\ ScreenTrue
            BY <3>4 DEF TransferInv
          <5> QED BY <3>3, <4>1, <5>1 DEF ScreenTrue, ExecutionsStay, Open
        <4> QED BY <3>2, <3>3, <3>5, <4>2 DEF TransferInv, ScreenTrue, Open
      <3>10. ASSUME ~overlapped' PROVE SlotInv'
        <4>1. SlotInv /\ ~Crowds(s)
          BY <3>1, <3>10 DEF TransferInv
        <4>2. HashRight(s)'
          <5>1. Known(new)' = {}
            BY <1>2, <3>3, <3>4 DEF Known
          <5> QED BY <3>2, <5>1 DEF HashRight
        <4>3. ScreenIsStored'
          BY <3>1, <3>3 DEF ScreenIsStored, SameSession
        <4>4. StatusRight' /\ StorageRight'
          <5>1. HashRight(ui.session)' /\ HashRight(stored)'
            BY <3>1, <3>3, <4>2 DEF HashRight
          <5> QED BY <3>3, <3>7, <4>1, <5>1 DEF StatusRight, StorageRight, SlotInv, Over, Failed
        <4>5. HandRight'
          <5>1. HashRight(op.cur)'
            BY <3>3, <4>2 DEF HashRight
          <5> QED BY <3>1, <3>2, <3>3, <5>1 DEF HandRight, Working
        <4>6. SignedIsStored'
          <5>1. stored.id # new
            BY <2>1, <3>5, Blank DEF TransferInv, SessionsMade, SessionMade
          <5> QED BY <2>1, <3>2, <3>4, <4>1, <5>1, OnlyTheNew
        <4>7. Covered'
          <5> SUFFICES ASSUME NEW id \in {new, None}, Open(id)'
                       PROVE  Due(id)' <= held'[exec'[id].acct] + Come(id)'
            BY <3>1, <3>2 DEF Covered
          <5>1. id = new
            BY DEF Open
          <5>2. Due(id)' = MinOut + held[op.acct] /\ Come(id)' = MinOut
            BY <2>2, <3>4, <5>1, DepositAssumption DEF Due, Come, Pending, DepositAssumption
          <5> QED BY <1>2, <2>2, <3>4, <5>1, <5>2, DepositAssumption DEF DepositAssumption
        <4> QED BY <4>3, <4>4, <4>5, <4>6, <4>7 DEF SlotInv
      <3> QED BY <1>1, <3>4, <3>6, <3>8, <3>9, <3>10 DEF TransferInv
    <2> QED BY <2>4, <2>5
  <1> QED BY <1>3, <1>4

(* A recovery is made for a deposit that is over, and the session in hand  *)
(* has none yet: the one in storage has none that is open.                 *)
LEMMA CreateRecoveryKeeps ==
    ASSUME TransferInv, CreateRecovery
    PROVE  TransferInv'
  <1>1. DepositInv'
    BY CreateRecoveryIsSafe DEF TransferInv
  <1>2. op.pc = "recovering" /\ UNCHANGED <<address, recent, txs, held, lostHash>>
    BY DEF CreateRecovery
  <1>3. CASE op' = Idle /\ UNCHANGED <<exec, ui, stored, overlapped>>
    BY <1>1, <1>2, <1>3, EndingKeeps
  <1>4. CASE ~(op' = Idle /\ UNCHANGED <<exec, ui, stored, overlapped>>)
    <2>1. PICK new \in Executions :
             /\ exec[op.cur.id].state \in {"SUCCESS", "OPERATION_FAILED"}
             /\ held[op.acct] > 2 * Fee + 1
             /\ exec[new] = NoExec
             /\ exec' = [exec EXCEPT ![new] = NewExec("recovery", op.acct, held[op.acct] - 2 * Fee)]
             /\ LET updated == [op.cur EXCEPT !.recovery = new]
                IN  \/ op' = Idle /\ UNCHANGED <<ui, stored, overlapped>>
                    \/ /\ stored' = updated /\ overlapped' = (overlapped \/ Crowds(updated))
                       /\ ui' = [ui EXCEPT !.session = updated]
                       /\ op' = [op EXCEPT !.pc = "recoverySigning", !.cur = updated]
      BY <1>4 DEF CreateRecovery, FirstFree, Save, Done
    <2>2. /\ op.acct \in Accounts /\ held[op.acct] \in Nat /\ op \in OpType /\ op.cur \in SessionType
          /\ op.cur.id # None /\ op.cur.recovery = None /\ ui \in UiType
      BY <1>2, Shapes DEF TransferInv, HandTrue, DepositInv, PageTypes, OpTrue
    <2>3. Makes(new, "recovery", op.acct, held[op.acct] - 2 * Fee)
      BY <1>2, <2>1 DEF Makes
    <2>4. CASE op' = Idle /\ UNCHANGED <<ui, stored, overlapped>>
      BY <1>1, <1>2, <2>3, <2>4, MadeAndLost
    <2>5. CASE ~(op' = Idle /\ UNCHANGED <<ui, stored, overlapped>>)
      <3>0. PICK next : next = [op.cur EXCEPT !.recovery = new]
        OBVIOUS
      <3>1. /\ stored' = next /\ overlapped' = (overlapped \/ Crowds(next))
            /\ ui' = [ui EXCEPT !.session = next]
            /\ op' = [op EXCEPT !.pc = "recoverySigning", !.cur = next]
        BY <2>1, <2>5, <3>0
      <3>2. /\ next.id = op.cur.id /\ next.hash = op.cur.hash /\ next.recovery = new
            /\ next.settled = op.cur.settled
        BY <2>2, <3>0 DEF SessionType
      <3>3. /\ ui'.session = next /\ ui'.recovery = ui.recovery /\ ui'.status = ui.status
            /\ op'.pc = "recoverySigning" /\ op'.cur = next
        BY <2>2, <3>1 DEF UiType, OpType
      <3>4. /\ ExecutionsStay /\ exec'[new].kind = "recovery" /\ exec'[new].acct = op.acct
            /\ exec'[new].amount = held[op.acct] - 2 * Fee /\ ~exec'[new].signed
            /\ \A id \in Executions : id # new => exec'[id] = exec[id]
            /\ VaultCallCovered'
        <4>1. Made(new, "recovery", op.acct, held[op.acct] - 2 * Fee)
          BY <2>3, FreshExecution
        <4> QED BY <3>1, <4>1 DEF Made
      <3>5. new # None /\ ~Open(op.cur.id) /\ SessionMade(op.cur)
        <4>1. SessionMade(op.cur)
          BY DEF TransferInv, SessionsMade
        <4> QED BY <2>1, <4>1 DEF None, Executions, Open, Over, Failed
      <3>6. /\ ~Open(next.id)'
            /\ exec'[next.id].kind = "deposit" /\ exec'[next.id].acct = exec[op.cur.id].acct
        <4>1. next.id \in Executions /\ exec[next.id].kind = "deposit"
          BY <2>2, <3>2, <3>5 DEF SessionType, Ids, SessionMade
        <4>2. next.id # new
          BY <2>1, <4>1, Blank
        <4>3. exec'[next.id] = exec[next.id] /\ exec[next.id].state \in Over
          BY <2>1, <3>2, <3>4, <4>1, <4>2 DEF Over, Failed
        <4> QED BY <3>2, <4>1, <4>3 DEF Open
      <3>7. (\A s : HashRight(s) => HashRight(s)') /\ NoSecondTransfer'
        BY <1>2, <3>1, <3>3, KnownStays DEF TransferInv
      <3>8. SessionMade(recent)' /\ (Closed(recent) => Closed(recent)')
        <4>1. recent \in SessionType /\ SessionMade(recent)
          BY Shapes DEF TransferInv, SessionsMade
        <4>2. overlapped => overlapped'
          BY <3>1
        <4> QED BY <1>2, <3>4, <4>1, <4>2, MadeStays DEF SessionMade, Closed, Open
      <3>9. SessionsMade' /\ HandTrue'
        <4>1. SessionMade(next)'
          BY <2>2, <3>2, <3>4, <3>5, <3>6 DEF SessionMade
        <4> QED BY <3>1, <3>2, <3>3, <3>5, <3>8, <4>1 DEF SessionsMade, SessionMade, HandTrue, Open
      <3>10. ScreenTrue'
        <4>1. ui.recovery.of \in Executions \cup {None} /\ ExecutionsStay /\ ScreenTrue
          BY <3>4, Shapes DEF TransferInv, UiType
        <4>2. ui.recovery.of # None =>
                 exec'[ui.recovery.of].kind # "none" /\ (Open(ui.recovery.of)' => Open(ui.recovery.of))
          BY <3>3, <4>1 DEF ScreenTrue, ExecutionsStay, Open
        <4> QED BY <2>2, <3>2, <3>3, <4>1, <4>2 DEF ScreenTrue
      <3>11. ASSUME ~overlapped' PROVE SlotInv'
        <4>1. SlotInv /\ ~Crowds(next)
          BY <3>1, <3>11 DEF TransferInv
        <4>2. HandRight /\ Working
          BY <1>2, <4>1 DEF SlotInv, Working
        <4>3. HashRight(op.cur) => HashRight(stored)' /\ HashRight(ui.session)' /\ HashRight(op.cur)'
          BY <1>2, <3>1, <3>2, <3>3 DEF HashRight, Known
        <4>4. NothingToSend' <=> NothingToSend
          BY <3>3 DEF NothingToSend
        <4>5. exec[op.cur.id].acct = address => NothingToSend \/ HashRight(op.cur)
          BY <2>2, <4>2 DEF HandRight
        <4>6. ScreenIsStored'
          BY <3>1, <3>3 DEF ScreenIsStored, SameSession
        <4>7. StatusRight' /\ StorageRight'
          <5>1. Mine(ui.session)' => exec[op.cur.id].acct = address
            BY <1>2, <3>3, <3>6 DEF Mine
          <5>2. ~Open(ui.session.id)' /\ ~Open(stored.id)'
            BY <3>1, <3>3, <3>6 DEF Open
          <5>3. Closed(recent)'
            BY <3>8, <4>1 DEF SlotInv, StorageRight
          <5> QED BY <4>3, <4>4, <4>5, <5>1, <5>2, <5>3 DEF StatusRight, StorageRight
        <4>8. HandRight'
          <5>1. ~Open(op.cur.id)'
            BY <3>3, <3>6 DEF Open
          <5> QED BY <1>2, <3>1, <3>2, <3>3, <3>6, <4>3, <4>4, <4>5, <5>1 DEF HandRight
        <4>9. SignedIsStored'
          <5>1. stored.id = next.id => ~Open(stored.id) /\ ~Open(stored.recovery)
            BY <2>2, <3>2, <3>5, <4>2 DEF HandRight, Open
          <5> QED BY <2>1, <3>4, <4>1, <5>1, OnlyTheNew
        <4>10. Covered'
          <5> SUFFICES ASSUME NEW id \in {next.id, new}, Open(id)'
                       PROVE  Due(id)' <= held'[exec'[id].acct] + Come(id)'
            BY <3>1, <3>2 DEF Covered
          <5>1. id = new
            BY <3>6
          <5>2. Due(id)' = held[op.acct] - 2 * Fee + Fee /\ Come(id)' = 0
            BY <3>4, <5>1 DEF Due, Come
          <5> QED BY <1>2, <2>1, <2>2, <3>4, <5>1, <5>2, DepositAssumption DEF DepositAssumption
        <4> QED BY <4>6, <4>7, <4>8, <4>9, <4>10 DEF SlotInv
      <3> QED BY <1>1, <3>4, <3>7, <3>9, <3>10, <3>11 DEF TransferInv
    <2> QED BY <2>4, <2>5
  <1> QED BY <1>3, <1>4

(* Storage and the screen take over a session that is over, or none, from  *)
(* one that is over.                                                       *)
LEMMA Cleared ==
    ASSUME TransferInv, SlotInv, UNCHANGED <<exec, held>>, op' = op \/ ~Working',
           \A s : HashRight(s) => HashRight(s)', ScreenIsStored', NothingToSend',
           Closed(stored), Closed(stored)', Closed(ui.session)', Closed(recent)'
    PROVE  SlotInv'
  <1>1. \A id : Open(id)' <=> Open(id)
    BY NothingRuns
  <1>2. ~Open(stored.id)' /\ ~Open(stored.recovery)' /\ ~Open(ui.session.id)'
    BY DEF Closed
  <1>3. StatusRight' /\ StorageRight'
    BY <1>2 DEF StatusRight, StorageRight
  <1>4. HandRight'
    <2>1. CASE ~Working'
      BY <2>1 DEF HandRight
    <2>2. CASE op' = op /\ Working
      <3>1. HandRight /\ Working
        BY <2>2 DEF SlotInv
      <3>2. ~Open(op.cur.id)' /\ ~Open(op.cur.recovery)'
        <4>1. ~Open(op.cur.id) /\ ~Open(op.cur.recovery)
          BY <3>1 DEF HandRight, Closed
        <4> QED BY <2>2, <4>1 DEF Open
      <3>3. HashRight(op.cur) => HashRight(op.cur)'
        BY <2>2 DEF HashRight
      <3> QED BY <1>2, <2>2, <3>1, <3>2, <3>3 DEF HandRight
    <2> QED BY <2>1, <2>2 DEF Working
  <1>5. \A id : exec[id].signed /\ Open(id) => id \notin Executions
    BY DEF SlotInv, SignedIsStored, Closed
  <1>6. SignedIsStored'
    BY <1>1, <1>5 DEF SignedIsStored
  <1>7. Covered'
    BY <1>2 DEF Covered
  <1> QED BY <1>3, <1>4, <1>6, <1>7 DEF SlotInv

(* The screen changes and storage does not.                                *)
LEMMA Looked ==
    ASSUME TransferInv, SlotInv, UNCHANGED <<stored, exec, held>>, op' = op \/ ~Working',
           \A s : HashRight(s) => HashRight(s)', Closed(recent)',
           ScreenIsStored', StatusRight',
           /\ Working /\ exec[op.cur.id].acct = address'
           /\ ui'.session.id \notin {None, op.cur.id} \/ ~HashRight(op.cur)
           => NothingToSend'
    PROVE  SlotInv'
  <1>1. \A id : Open(id)' <=> Open(id)
    BY NothingRuns
  <1>2. /\ Open(stored.id)' <=> Open(stored.id)
        /\ Open(stored.recovery)' <=> Open(stored.recovery)
        /\ HashRight(stored) => HashRight(stored)'
    BY DEF Open, HashRight
  <1>3. StorageRight'
    BY <1>2 DEF SlotInv, StorageRight
  <1>4. HandRight'
    <2>1. CASE ~Working'
      BY <2>1 DEF HandRight
    <2>2. CASE op' = op /\ Working
      <3>1. HandRight
        BY DEF SlotInv
      <3>2. /\ Open(op.cur.id)' <=> Open(op.cur.id)
            /\ Open(op.cur.recovery)' <=> Open(op.cur.recovery)
            /\ HashRight(op.cur) => HashRight(op.cur)'
        BY <2>2 DEF Open, HashRight
      <3> QED BY <1>2, <2>2, <3>1, <3>2 DEF HandRight
    <2> QED BY <2>1, <2>2 DEF Working
  <1>5. SignedIsStored' /\ Covered'
    BY <1>1 DEF SlotInv, SignedIsStored, Covered, Due, Come, Pending, Open
  <1> QED BY <1>3, <1>4, <1>5 DEF SlotInv

(* The rest of the invariant at a step that leaves the chain, Aurora and   *)
(* the function in progress alone.                                         *)
LEMMA PageMoves ==
    ASSUME TransferInv, DepositInv', UNCHANGED <<exec, txs, held, lostHash>>, op' = op,
           overlapped => overlapped',
           SessionMade(ui'.session), SessionMade(stored'), SessionMade(recent') \/ SessionMade(recent)',
           ScreenTrue', ~overlapped' => SlotInv'
    PROVE  TransferInv'
  <1>1. \A s : SessionMade(s) => SessionMade(s)'
    BY NothingRuns
  <1>2. SessionMade(op.cur)
    BY DEF TransferInv, SessionsMade
  <1>3. /\ SessionMade(ui.session)' /\ SessionMade(stored)'
        /\ SessionMade(recent)' /\ SessionMade(op.cur)'
    BY <1>1, <1>2 DEF SessionMade, Open
  <1>4. HandTrue' /\ NoSecondTransfer' /\ VaultCallCovered'
    BY DEF TransferInv, HandTrue, NoSecondTransfer, VaultCallCovered
  <1> QED BY <1>3, <1>4 DEF TransferInv, SessionsMade

LEMMA SettledIsMade ==
    ASSUME NEW s \in SessionType, SessionMade(s)
    PROVE  /\ overlapped \/ ~Open(s.id) => SessionMade([s EXCEPT !.settled = TRUE])
           /\ [s EXCEPT !.settled = TRUE].id = s.id
           /\ [s EXCEPT !.settled = TRUE].recovery = s.recovery
           /\ [s EXCEPT !.settled = TRUE].hash = s.hash
           /\ Closed(s) => Closed([s EXCEPT !.settled = TRUE])
  <1> DEFINE t == [s EXCEPT !.settled = TRUE]
  <1>1. t.id = s.id /\ t.recovery = s.recovery /\ t.hash = s.hash
    BY DEF SessionType
  <1> HIDE DEF t
  <1>2. (overlapped \/ ~Open(s.id) => SessionMade(t)) /\ (Closed(s) => Closed(t))
    BY <1>1 DEF SessionMade, Closed
  <1> QED BY <1>1, <1>2 DEF t

LEMMA NoneMade == SessionMade(NoSession) /\ Closed(NoSession) /\ NoSession.id = None
  BY DEF SessionMade, Closed, Open, NoSession

(* The screen's session is the stored one as far as it is not over: a      *)
(* session of the connected account that is put in storage crowds out      *)
(* nothing but another that is open.                                       *)
LEMMA StoredIsOver ==
    ASSUME TransferInv, SlotInv, Closed(ui.session), ui.session.id # None,
           ~Crowds(ui.session) \/ ~Crowds(NoSession)
    PROVE  Closed(stored)
  <1>1. CASE stored.id \in {None, ui.session.id}
    <2>1. CASE stored.id = None
      <3>1. stored = NoSession
        BY <2>1 DEF TransferInv, DepositInv, SessionsTrue, SessionTrue
      <3> QED BY <3>1, NoneMade
    <2>2. CASE stored.id = ui.session.id
      <3>1. SameSession(ui.session, stored)
        BY <2>2 DEF SlotInv, ScreenIsStored, Mine
      <3> QED BY <3>1 DEF SameSession, Closed
    <2> QED BY <1>1, <2>1, <2>2
  <1>2. CASE stored.id \notin {None, ui.session.id}
    BY <1>2, NoneMade DEF Crowds, Closed
  <1> QED BY <1>1, <1>2

(* The poll: the screen learns how the execution stands, and lets go of a  *)
(* session only when it is over.                                           *)
LEMMA PollKeeps ==
    ASSUME TransferInv, Poll
    PROVE  TransferInv'
  <1>1. DepositInv'
    BY PollIsSafe DEF TransferInv
  <1>2. UNCHANGED <<address, op, exec, txs, held, lostHash>>
    BY DEF Poll, auroraVars
  <1>3. PICK s : s = ui.session
    OBVIOUS
  <1> DEFINE settled == [s EXCEPT !.settled = TRUE]
  <1>4. /\ s \in SessionType /\ s.id # None /\ s.id \in Executions /\ Mine(s) /\ SessionMade(s)
        /\ exec[s.id].kind = "deposit" /\ ui \in UiType
    <2>1. s # NoSession /\ exec[s.id].acct = address /\ SessionTrue(s) /\ SessionMade(s)
      BY <1>3 DEF Poll, Owner, TransferInv, DepositInv, SessionsTrue, SessionsMade
    <2> QED BY <1>3, <2>1, Shapes DEF TransferInv, SessionTrue, SessionMade, Mine, SessionType
  <1>5. PICK left, minted \in BOOLEAN :
           LET shown == [ui EXCEPT !.status = [state |-> exec[s.id].state, signed |-> exec[s.id].signed,
                                               leftover |-> left, minted |-> minted]]
           IN  /\ left => exec[s.id].state \in {"SUCCESS", "OPERATION_FAILED"}
               /\ \/ ui' = shown /\ UNCHANGED <<stored, recent, overlapped>>
                  \/ /\ Terminal(exec[s.id].state, minted) /\ s.recovery = None
                     /\ recent' = settled /\ stored' = NoSession
                     /\ overlapped' = (overlapped \/ Crowds(NoSession))
                     /\ ui' = [ui EXCEPT !.session = NoSession, !.status = NoStatus, !.restored = None]
                  \/ /\ Terminal(exec[s.id].state, minted) /\ s.recovery = None
                     /\ ui' = shown /\ UNCHANGED recent
                     /\ stored' = settled /\ overlapped' = (overlapped \/ Crowds(settled))
    BY <1>3 DEF Poll, Save
  <1>6. (\A t : HashRight(t) => HashRight(t)')
    BY <1>2, KnownStays
  <1>7. /\ ~Open(s.id) => SessionMade(settled)
        /\ settled.id = s.id /\ settled.recovery = s.recovery /\ settled.hash = s.hash
        /\ Closed(s) => Closed(settled)
    BY <1>4, SettledIsMade
  <1> HIDE DEF settled
  <1>8. exec[s.id].state \in Over <=> ~Open(s.id)
    BY <1>4 DEF Open
  <1>9. \A b : Terminal(exec[s.id].state, b) /\ s.recovery = None => Closed(s)
    BY <1>8 DEF Terminal, Closed, Over, Open
  <1>10. overlapped => overlapped'
    BY <1>5
  <1>11. SessionMade(ui.session) /\ SessionMade(stored) /\ SessionMade(recent) /\ ScreenTrue
    BY DEF TransferInv, SessionsMade
  <1>12. overlapped \/ SlotInv
    BY DEF TransferInv
  <1>13. CASE /\ Terminal(exec[s.id].state, minted) /\ s.recovery = None
              /\ recent' = settled /\ stored' = NoSession
              /\ overlapped' = (overlapped \/ Crowds(NoSession))
              /\ ui' = [ui EXCEPT !.session = NoSession, !.status = NoStatus, !.restored = None]
    <2>1. Closed(s) /\ ~Open(s.id)
      BY <1>9, <1>13 DEF Closed
    <2>2. /\ ui'.session = NoSession /\ ui'.status = NoStatus /\ ui'.recovery = ui.recovery
          /\ SessionMade(settled) /\ SessionMade(NoSession)
      BY <1>4, <1>7, <1>13, <2>1, NoneMade DEF UiType
    <2>3. ScreenTrue'
      BY <1>2, <1>11, <2>2, Blank DEF ScreenTrue, Open
    <2>4. ASSUME ~overlapped' PROVE SlotInv'
      <3>1. SlotInv /\ Closed(stored)
        BY <1>3, <1>4, <1>12, <1>13, <2>1, <2>4, StoredIsOver
      <3>2. Closed(recent)'
        <4>1. Closed(settled)
          BY <1>7, <2>1
        <4> QED BY <1>2, <1>13, <4>1 DEF Closed, Open
      <3>3. Closed(stored)' /\ Closed(ui.session)' /\ ScreenIsStored' /\ NothingToSend'
        BY <1>2, <1>13, <2>2, NoneMade DEF Closed, Open, ScreenIsStored, SameSession, NothingToSend
      <3> QED BY <1>2, <1>6, <3>1, <3>2, <3>3, Cleared
    <2> QED BY <1>1, <1>2, <1>10, <1>13, <2>2, <2>3, <2>4, PageMoves
  <1> DEFINE shown == [ui EXCEPT !.status = [state |-> exec[s.id].state, signed |-> exec[s.id].signed,
                                             leftover |-> left, minted |-> minted]]
  <1>14. /\ shown.session = s /\ shown.status.state = exec[s.id].state
         /\ shown.status.leftover = left /\ shown.recovery = ui.recovery
    BY <1>3, <1>4 DEF UiType
  <1>15. left => exec[s.id].state \in Over
    BY <1>5 DEF Over, Failed
  <1>16. \/ ui' = shown /\ UNCHANGED <<stored, recent, overlapped>>
         \/ TransferInv'
         \/ /\ Terminal(exec[s.id].state, minted) /\ s.recovery = None
            /\ ui' = shown /\ UNCHANGED recent
            /\ stored' = settled /\ overlapped' = (overlapped \/ Crowds(settled))
    BY <1>5, <1>13
  <1> HIDE DEF shown
  <1>17. CASE ui' = shown
    <2>1. ScreenTrue'
      BY <1>2, <1>4, <1>11, <1>14, <1>15, <1>17 DEF ScreenTrue, Open
    <2>2. CASE UNCHANGED <<stored, recent, overlapped>>
      <3>1. ASSUME ~overlapped' PROVE SlotInv'
        <4>1. SlotInv /\ ~overlapped
          BY <1>12, <2>2, <3>1
        <4>2. Open(s.id) => SameSession(s, stored) /\ HashRight(s) /\ Mine(stored)
          <5>1. Open(s.id) => SameSession(s, stored)
            BY <1>3, <4>1 DEF SlotInv, ScreenIsStored, Closed
          <5>2. Open(stored.id) => HashRight(stored)
            BY <4>1 DEF SlotInv, StorageRight
          <5>3. SameSession(s, stored) => (Open(stored.id) <=> Open(s.id)) /\ (HashRight(stored) <=> HashRight(s))
            BY DEF SameSession, Open, HashRight
          <5> QED BY <1>4, <5>1, <5>2, <5>3 DEF SameSession, Mine
        <4>3. ~Open(s.id) => NothingToSend'
          BY <1>8, <1>14, <1>17 DEF NothingToSend
        <4>4. ScreenIsStored'
          <5>1. CASE SameSession(s, stored)
            BY <1>14, <1>17, <2>2, <5>1 DEF ScreenIsStored, SameSession
          <5>2. CASE ~SameSession(s, stored)
            <6>1. ~Mine(stored) /\ Closed(s)
              BY <1>3, <4>1, <5>2 DEF SlotInv, ScreenIsStored
            <6>2. Closed(ui.session)' /\ ~Mine(stored)' /\ Mine(ui.session)'
              BY <1>2, <1>4, <1>14, <1>17, <2>2, <6>1 DEF Closed, Open, Mine
            <6> QED BY <4>3, <6>1, <6>2 DEF ScreenIsStored, Closed
          <5> QED BY <5>1, <5>2
        <4>5. StatusRight'
          <5>1. HashRight(s) => HashRight(ui.session)'
            BY <1>6, <1>14, <1>17 DEF HashRight
          <5>2. Open(ui.session.id)' <=> Open(s.id)
            BY <1>2, <1>14, <1>17 DEF Open
          <5> QED BY <1>8, <1>14, <1>17, <4>2, <4>3, <5>1, <5>2 DEF StatusRight
        <4>6. ASSUME Working, exec[op.cur.id].acct = address',
                     ui'.session.id \notin {None, op.cur.id} \/ ~HashRight(op.cur)
              PROVE  NothingToSend'
          <5> SUFFICES ASSUME Open(s.id) PROVE FALSE
            BY <4>3
          <5>1. HandRight
            BY <4>1 DEF SlotInv
          <5>2. SameSession(s, stored) /\ Mine(stored) /\ Open(stored.id)
            BY <4>2 DEF SameSession, Open
          <5>3. s.id = op.cur.id
            BY <1>2, <4>6, <5>1, <5>2 DEF HandRight, SameSession, Mine
          <5> QED BY <1>4, <1>14, <1>17, <4>6, <5>1, <5>3 DEF HandRight
        <4>7. Closed(recent)'
          <5>1. Closed(recent)
            BY <4>1 DEF SlotInv, StorageRight
          <5> QED BY <1>2, <2>2, <5>1 DEF Closed, Open
        <4> QED BY <1>2, <1>6, <2>2, <4>1, <4>4, <4>5, <4>6, <4>7, Looked
      <3> QED BY <1>1, <1>2, <1>3, <1>11, <1>14, <1>17, <2>1, <2>2, <3>1, PageMoves
    <2>3. CASE /\ Terminal(exec[s.id].state, minted) /\ s.recovery = None /\ UNCHANGED recent
               /\ stored' = settled /\ overlapped' = (overlapped \/ Crowds(settled))
      <3>1. Closed(s) /\ Closed(settled) /\ ~Open(s.id)
        BY <1>7, <1>9, <2>3 DEF Closed
      <3>2. ASSUME ~overlapped' PROVE SlotInv'
        <4>1. SlotInv /\ Closed(stored)
          <5>1. Crowds(settled) <=> Crowds(ui.session)
            BY <1>3, <1>7 DEF Crowds
          <5> QED BY <1>3, <1>4, <1>12, <2>3, <3>1, <3>2, <5>1, StoredIsOver
        <4>2. Closed(recent)' /\ NothingToSend'
          <5>1. Closed(recent)
            BY <4>1 DEF SlotInv, StorageRight
          <5> QED BY <1>2, <1>8, <1>14, <1>17, <2>3, <3>1, <5>1 DEF Closed, Open, NothingToSend
        <4>3. ScreenIsStored'
          BY <1>7, <1>14, <1>17, <2>3 DEF ScreenIsStored, SameSession
        <4>4. Closed(stored)' /\ Closed(ui.session)'
          BY <1>2, <1>14, <1>17, <2>3, <3>1 DEF Closed, Open
        <4> QED BY <1>2, <1>6, <4>1, <4>2, <4>3, <4>4, Cleared
      <3> QED BY <1>1, <1>2, <1>3, <1>7, <1>10, <1>11, <1>14, <1>17, <2>1, <2>3, <3>1, <3>2, PageMoves
    <2> QED BY <1>16, <1>17, <2>2, <2>3
  <1> QED BY <1>16, <1>17

(* The poll of a recovery: what the screen says of it becomes true.        *)
LEMMA PollRecoveryKeeps ==
    ASSUME TransferInv, PollRecovery
    PROVE  TransferInv'
  <1>1. DepositInv'
    BY PollRecoveryIsSafe DEF TransferInv
  <1>2. UNCHANGED <<address, op, exec, txs, held, lostHash>>
    BY DEF PollRecovery, auroraVars
  <1>3. PICK s : s = ui.session
    OBVIOUS
  <1> DEFINE settled == [s EXCEPT !.settled = TRUE]
             seen == [of |-> s.recovery, state |-> exec[s.recovery].state, signed |-> exec[s.recovery].signed]
  <1>4. /\ s \in SessionType /\ SessionMade(s) /\ s.recovery # None /\ s.id # None /\ ~Open(s.id)
        /\ s.recovery \in Executions /\ exec[s.recovery].kind = "recovery" /\ ui \in UiType
    <2>1. SessionMade(s) /\ s \in SessionType /\ s.recovery # None
      BY <1>3, Shapes DEF PollRecovery, TransferInv, SessionsMade
    <2> QED BY <2>1, Shapes DEF TransferInv, SessionMade, SessionType
  <1>5. /\ ui'.recovery = seen
        /\ \/ /\ exec[s.recovery].state \in RecoveryOver
              /\ recent' = settled /\ stored' = NoSession
              /\ overlapped' = (overlapped \/ Crowds(NoSession))
              /\ ui'.session = NoSession /\ ui'.status = NoStatus
           \/ UNCHANGED <<stored, recent, overlapped>> /\ ui'.session = s /\ ui'.status = ui.status
    <2> HIDE DEF settled, seen
    <2>1. \/ /\ exec[s.recovery].state \in RecoveryOver
             /\ recent' = settled /\ stored' = NoSession
             /\ overlapped' = (overlapped \/ Crowds(NoSession))
             /\ ui' = [ui EXCEPT !.session = NoSession, !.status = NoStatus, !.restored = None,
                                 !.recovery = seen]
          \/ ui' = [ui EXCEPT !.recovery = seen] /\ UNCHANGED <<stored, recent, overlapped>>
      BY <1>3 DEF PollRecovery, Save, settled, seen
    <2>2. CASE ui' = [ui EXCEPT !.recovery = seen]
      BY <1>3, <1>4, <2>1, <2>2 DEF UiType
    <2>3. CASE ui' = [ui EXCEPT !.session = NoSession, !.status = NoStatus, !.restored = None,
                                !.recovery = seen]
      <3>1. ui'.recovery = seen /\ ui'.session = NoSession /\ ui'.status = NoStatus
        BY <1>4, <2>3 DEF UiType
      <3> QED BY <1>3, <1>4, <2>1, <2>2, <3>1
    <2> QED BY <2>1, <2>2, <2>3
  <1>6. (\A t : HashRight(t) => HashRight(t)')
    BY <1>2, KnownStays
  <1>7. SessionMade(settled) /\ (Closed(s) => Closed(settled))
    BY <1>4, SettledIsMade
  <1> HIDE DEF settled
  <1>8. exec[s.recovery].state \in Over => ~Open(s.recovery)
    BY DEF Open
  <1>9. SessionMade(ui.session) /\ SessionMade(stored) /\ SessionMade(recent) /\ ScreenTrue
    BY DEF TransferInv, SessionsMade
  <1>10. /\ ui'.recovery.of # None => exec'[ui'.recovery.of].kind # "none"
         /\ ui'.recovery.state \in Over => ui'.recovery.of # None /\ ~Open(ui.recovery.of)'
    <2>1. ui'.recovery.of = s.recovery /\ ui'.recovery.state = exec[s.recovery].state
      BY <1>5
    <2> QED BY <1>2, <1>4, <1>8, <2>1 DEF Open
  <1>11. overlapped \/ SlotInv
    BY DEF TransferInv
  <1>12. CASE /\ exec[s.recovery].state \in RecoveryOver
              /\ recent' = settled /\ stored' = NoSession
              /\ overlapped' = (overlapped \/ Crowds(NoSession))
              /\ ui'.session = NoSession /\ ui'.status = NoStatus
    <2>1. Closed(s)
      BY <1>4, <1>8, <1>12 DEF Closed, RecoveryOver
    <2>2. ScreenTrue'
      BY <1>10, <1>12, Blank DEF ScreenTrue
    <2>3. ASSUME ~overlapped' PROVE SlotInv'
      <3>1. SlotInv /\ Closed(stored)
        BY <1>3, <1>4, <1>11, <1>12, <2>1, <2>3, StoredIsOver
      <3>2. Closed(recent)'
        BY <1>2, <1>7, <1>12, <2>1 DEF Closed, Open
      <3>3. Closed(stored)' /\ Closed(ui.session)' /\ ScreenIsStored' /\ NothingToSend'
        BY <1>2, <1>12, NoneMade DEF Closed, Open, ScreenIsStored, SameSession, NothingToSend
      <3> QED BY <1>2, <1>6, <3>1, <3>2, <3>3, Cleared
    <2>4. overlapped => overlapped'
      BY <1>12
    <2> QED BY <1>1, <1>2, <1>7, <1>12, <2>2, <2>3, <2>4, NoneMade, PageMoves
  <1>13. CASE UNCHANGED <<stored, recent, overlapped>> /\ ui'.session = s /\ ui'.status = ui.status
    <2>1. ScreenTrue'
      BY <1>3, <1>9, <1>10, <1>13 DEF ScreenTrue
    <2>2. ASSUME ~overlapped' PROVE SlotInv'
      <3>1. SlotInv
        BY <1>11, <1>13, <2>2
      <3>2. Closed(recent)'
        BY <1>2, <1>13, <3>1 DEF SlotInv, StorageRight, Closed, Open
      <3>3. NothingToSend' <=> NothingToSend
        BY <1>13 DEF NothingToSend
      <3>4. ScreenIsStored'
        BY <1>2, <1>3, <1>13, <3>1, <3>3 DEF SlotInv, ScreenIsStored, SameSession, Mine, Closed, Open
      <3>5. StatusRight'
        <4>1. HashRight(ui.session) => HashRight(ui.session)'
          BY <1>3, <1>6, <1>13 DEF HashRight
        <4> QED BY <1>2, <1>3, <1>13, <3>1, <3>3, <4>1 DEF SlotInv, StatusRight, Mine, Open
      <3>6. Working /\ exec[op.cur.id].acct = address'
            /\ (ui'.session.id \notin {None, op.cur.id} \/ ~HashRight(op.cur)) => NothingToSend'
        BY <1>2, <1>3, <1>13, <3>1, <3>3 DEF SlotInv, HandRight
      <3> QED BY <1>2, <1>6, <1>13, <3>1, <3>2, <3>4, <3>5, <3>6, Looked
    <2> QED BY <1>1, <1>2, <1>3, <1>9, <1>13, <2>1, <2>2, PageMoves
  <1> QED BY <1>5, <1>12, <1>13

(* Sessions are let go of by the status on the screen: either it is right, *)
(* or the observation says so.                                             *)
LEMMA LetGoIsOver ==
    ASSUME TransferInv, SlotInv, ui.session.id # None, LetGo(ui.session), ~overlapped',
           ui.status.state \in Over,
           ui.session.recovery = None \/ ui.recovery.state \in RecoveryOver
    PROVE  Closed(ui.session) /\ Closed(stored)
  <1>1. /\ ~Crowds(ui.session)
        /\ ui.recovery.of \in {None, ui.session.recovery} \/ ~Open(ui.session.recovery)
        /\ exec[ui.session.id].acct = address \/ ~Open(ui.session.id)
    BY DEF LetGo, Owner
  <1>2. ~Open(ui.session.id)
    BY <1>1 DEF SlotInv, StatusRight, Mine
  <1>3. ~Open(ui.session.recovery)
    <2>1. CASE ui.session.recovery = None
      BY <2>1 DEF Open
    <2>2. CASE ui.recovery.state \in RecoveryOver
      <3>1. ui.recovery.of # None /\ ~Open(ui.recovery.of)
        BY <2>2 DEF TransferInv, ScreenTrue, RecoveryOver
      <3> QED BY <1>1, <3>1
    <2> QED BY <2>1, <2>2
  <1>4. Closed(ui.session)
    BY <1>2, <1>3 DEF Closed
  <1> QED BY <1>1, <1>4, StoredIsOver

LEMMA ReviewRemainingKeeps ==
    ASSUME TransferInv, ReviewRemaining
    PROVE  TransferInv'
  <1>1. DepositInv'
    BY ButtonsAreSafe DEF TransferInv
  <1>2. UNCHANGED <<address, op, recent, exec, txs, held, lostHash>>
    BY DEF ReviewRemaining, auroraVars
  <1>3. PICK s : s = ui.session
    OBVIOUS
  <1>4. PICK retry : retry = [s EXCEPT !.recovery = None]
    OBVIOUS
  <1>5. /\ s \in SessionType /\ SessionMade(s) /\ s.recovery # None /\ s.id # None /\ ~Open(s.id)
        /\ ui \in UiType /\ ui.status.state \in Over
    <2>1. SessionMade(s) /\ s \in SessionType /\ s.recovery # None /\ ui.status.leftover
      BY <1>3, Shapes DEF ReviewRemaining, TransferInv, SessionsMade
    <2> QED BY <2>1, Shapes DEF TransferInv, ScreenTrue, SessionMade
  <1>6. /\ stored' = retry /\ ui' = [ui EXCEPT !.session = retry, !.recovery = NoRecovery]
        /\ LetGo(ui.session) /\ ui.recovery.state \in RecoveryOver
    BY <1>3, <1>4 DEF ReviewRemaining
  <1>7. /\ ui'.session = retry /\ ui'.status = ui.status
        /\ ui'.recovery.of = None /\ ui'.recovery.state = "unknown"
    BY <1>5, <1>6 DEF UiType, NoRecovery
  <1>8. /\ retry.id = s.id /\ retry.recovery = None /\ retry.settled = s.settled
    BY <1>4, <1>5 DEF SessionType
  <1>9. SessionMade(retry) /\ Closed(retry)
    BY <1>5, <1>8 DEF SessionMade, Closed, Open
  <1>10. (\A t : HashRight(t) => HashRight(t)')
    BY <1>2, KnownStays
  <1>11. ScreenTrue'
    BY <1>3, <1>5, <1>7, <1>8 DEF TransferInv, ScreenTrue, Over, Failed
  <1>12. ASSUME ~overlapped' PROVE SlotInv'
    <2>1. SlotInv
      BY <1>6, <1>12 DEF LetGo, TransferInv
    <2>2. Closed(stored)
      BY <1>3, <1>5, <1>6, <1>12, <2>1, LetGoIsOver
    <2>3. Closed(recent)'
      BY <1>2, <2>1 DEF SlotInv, StorageRight, Closed, Open
    <2>4. Closed(stored)' /\ Closed(ui.session)'
      BY <1>2, <1>6, <1>7, <1>9 DEF Closed, Open
    <2>5. ScreenIsStored' /\ NothingToSend'
      BY <1>5, <1>6, <1>7 DEF ScreenIsStored, SameSession, NothingToSend
    <2> QED BY <1>2, <1>10, <2>1, <2>2, <2>3, <2>4, <2>5, Cleared
  <1>13. overlapped => overlapped'
    BY <1>6 DEF LetGo
  <1>14. SessionMade(recent)
    BY DEF TransferInv, SessionsMade
  <1> QED BY <1>1, <1>2, <1>6, <1>7, <1>9, <1>11, <1>12, <1>13, <1>14, PageMoves

LEMMA StartAnotherKeeps ==
    ASSUME TransferInv, StartAnother
    PROVE  TransferInv'
  <1>1. DepositInv'
    BY ButtonsAreSafe DEF TransferInv
  <1>2. UNCHANGED <<address, op, exec, txs, held, lostHash>>
    BY DEF StartAnother, auroraVars
  <1>3. PICK s : s = ui.session
    OBVIOUS
  <1> DEFINE settled == [s EXCEPT !.settled = TRUE]
  <1>4. /\ s \in SessionType /\ SessionMade(s) /\ s.id # None
        /\ ui \in UiType /\ ui.status.state \in Over
        /\ s.recovery = None \/ ui.recovery.state \in RecoveryOver
    <2>1. /\ SessionMade(s) /\ s \in SessionType /\ s # NoSession /\ SessionTrue(s)
          /\ ui.status.state \in Over
      BY <1>3, Shapes DEF StartAnother, TransferInv, SessionsMade, DepositInv, SessionsTrue
    <2> QED BY <1>3, <2>1, Shapes DEF TransferInv, SessionTrue, StartAnother, RecoveryDone
  <1>5. /\ stored' = NoSession /\ ui' = [FreshUi EXCEPT !.recovery = ui.recovery]
        /\ LetGo(ui.session)
        /\ recent' = recent \/ (recent' = settled /\ Terminal(ui.status.state, ui.status.minted))
    BY <1>3 DEF StartAnother
  <1>6. ui'.session = NoSession /\ ui'.status = NoStatus /\ ui'.recovery = ui.recovery
    BY <1>5, Blank DEF UiType
  <1>7. /\ ~Open(s.id) => SessionMade(settled)
        /\ Closed(s) => Closed(settled)
        /\ settled.id = s.id /\ settled.recovery = s.recovery
    BY <1>4, SettledIsMade
  <1> HIDE DEF settled
  <1>8. (\A t : HashRight(t) => HashRight(t)')
    BY <1>2, KnownStays
  <1>9. ScreenTrue'
    BY <1>2, <1>6, Blank DEF TransferInv, ScreenTrue, Open
  <1>10. ASSUME ~overlapped' PROVE SlotInv'
    <2>1. SlotInv
      BY <1>5, <1>10 DEF LetGo, TransferInv
    <2>2. Closed(s) /\ Closed(stored)
      BY <1>3, <1>4, <1>5, <1>10, <2>1, LetGoIsOver
    <2>3. Closed(recent)'
      <3>1. Closed(recent)
        BY <2>1 DEF SlotInv, StorageRight
      <3> QED BY <1>2, <1>5, <1>7, <2>2, <3>1 DEF Closed, Open
    <2>4. Closed(stored)' /\ Closed(ui.session)' /\ ScreenIsStored' /\ NothingToSend'
      BY <1>2, <1>5, <1>6, NoneMade DEF Closed, Open, ScreenIsStored, SameSession, NothingToSend
    <2> QED BY <1>2, <1>8, <2>1, <2>2, <2>3, <2>4, Cleared
  <1>11. overlapped => overlapped'
    BY <1>5 DEF LetGo
  <1>12. SessionMade(recent') \/ SessionMade(recent)'
    <2>1. CASE recent' = recent \/ ~Open(s.id)
      BY <1>5, <1>7, <2>1 DEF TransferInv, SessionsMade
    <2>2. CASE recent' = settled /\ Open(s.id)
      <3>1. ASSUME ~overlapped' PROVE FALSE
        <4>1. SlotInv
          BY <1>5, <3>1 DEF LetGo, TransferInv
        <4>2. Closed(s)
          BY <1>3, <1>4, <1>5, <3>1, <4>1, LetGoIsOver
        <4> QED BY <2>2, <4>2 DEF Closed
      <3>2. s.recovery = None
        BY <1>4, <2>2 DEF SessionMade
      <3> QED BY <1>2, <1>4, <1>7, <2>2, <3>1, <3>2 DEF SessionMade
    <2> QED BY <1>5, <2>1, <2>2
  <1> QED BY <1>1, <1>2, <1>5, <1>6, <1>9, <1>10, <1>11, <1>12, NoneMade, PageMoves

LEMMA ViewDetailsKeeps ==
    ASSUME TransferInv, ViewDetails
    PROVE  TransferInv'
  <1>1. DepositInv'
    BY ButtonsAreSafe DEF TransferInv
  <1>2. /\ UNCHANGED <<address, op, stored, recent, exec, txs, held, lostHash, overlapped>>
        /\ ui.session = NoSession /\ recent # NoSession /\ exec[recent.id].acct = address
    BY DEF ViewDetails, auroraVars, Owner
  <1>3. ui'.session = recent /\ ui'.status = NoStatus /\ ui'.recovery = ui.recovery
    <2>1. ui \in UiType
      BY Shapes DEF TransferInv
    <2> QED BY <2>1 DEF ViewDetails, UiType
  <1>4. Mine(recent) /\ SessionMade(recent) /\ SessionMade(stored)
    BY <1>2 DEF Mine, TransferInv, SessionsMade, DepositInv, SessionsTrue, SessionTrue
  <1>5. (\A t : HashRight(t) => HashRight(t)')
    BY <1>2, KnownStays
  <1>6. ScreenTrue'
    BY <1>2, <1>3, Blank DEF TransferInv, ScreenTrue, Open
  <1>7. ASSUME ~overlapped' PROVE SlotInv'
    <2>1. SlotInv
      BY <1>2, <1>7 DEF TransferInv
    <2>2. Closed(recent) /\ NothingToSend' /\ ui'.status.state \notin Over
      BY <1>3, <2>1 DEF SlotInv, StorageRight, NothingToSend, NoStatus, Over, Failed
    <2>3. ~Mine(stored)
      BY <1>2, <2>1, NoneMade DEF SlotInv, ScreenIsStored, SameSession, Mine
    <2>4. Closed(recent)' /\ Closed(ui.session)' /\ ~Mine(stored)' /\ Mine(ui.session)'
      BY <1>2, <1>3, <1>4, <2>2, <2>3 DEF Closed, Open, Mine
    <2>5. ScreenIsStored' /\ StatusRight'
      BY <2>2, <2>4 DEF ScreenIsStored, StatusRight
    <2> QED BY <1>2, <1>5, <2>1, <2>2, <2>4, <2>5, Looked
  <1> QED BY <1>1, <1>2, <1>3, <1>4, <1>6, <1>7, PageMoves

(* A load or a change of account shows what is stored if it is the         *)
(* account's own, archives it if it is settled, and says nothing of it yet. *)
LEMMA RestoreKeeps ==
    ASSUME TransferInv, NEW a, NEW base, base.recovery = ui.recovery \/ base.recovery = NoRecovery,
           Restore(a, base), UNCHANGED <<exec, txs, held, overlapped>>,
           op' = op \/ op' = Idle, lostHash \subseteq lostHash',
           op.pc = "sent" /\ op' # op => op.cur.id \in lostHash', DepositInv'
    PROVE  TransferInv'
  <1> DEFINE active   == IF stored.id # None /\ Owner(stored) = a THEN stored ELSE NoSession
             archived == active.settled /\ active.recovery = None
             shown    == IF archived THEN NoSession ELSE active
  <1>1. SessionMade(stored) /\ SessionMade(recent) /\ SessionMade(op.cur) /\ ScreenTrue
    BY DEF TransferInv, SessionsMade
  <1>2. /\ address' = a /\ stored' = IF archived THEN NoSession ELSE stored
        /\ recent' = IF archived THEN active ELSE recent
        /\ ui' = [FreshUi EXCEPT !.session = shown, !.restored = shown.id, !.recovery = base.recovery]
    BY DEF Restore
  <1>3. ui'.session = shown /\ ui'.status = NoStatus /\ ui'.recovery = base.recovery
    <2> HIDE DEF shown
    <2> QED BY <1>2, Blank DEF UiType
  <1>4. archived => active = stored /\ (overlapped \/ Closed(stored))
    <2>1. archived => active = stored
      BY DEF NoSession
    <2>2. archived => overlapped \/ Closed(stored)
      BY <1>1, <2>1 DEF SessionMade, Closed, Open
    <2> QED BY <2>1, <2>2
  <1>5. op'.pc = "sent" => op' = op
    BY Blank
  <1>6. (\A s : HashRight(s) => HashRight(s)') /\ NoSecondTransfer' /\ VaultCallCovered'
    <2>1. op' # op => op'.pc # "sent"
      BY Blank
    <2> QED BY <2>1, KnownStays, NothingRuns DEF TransferInv
  <1>7. SessionsMade' /\ HandTrue'
    <2>1. \A s : SessionMade(s) => SessionMade(s)'
      BY NothingRuns
    <2>2. SessionMade(ui'.session) /\ SessionMade(stored') /\ SessionMade(recent') /\ SessionMade(op'.cur)
      BY <1>1, <1>2, <1>3, <1>4, NoneMade, Blank
    <2>3. op'.pc \in {"recovering", "recoverySigning", "sent"} => op' = op
      BY Blank
    <2> QED BY <2>2, <2>3 DEF SessionsMade, SessionMade, Open, TransferInv, HandTrue
  <1>8. ScreenTrue'
    BY <1>1, <1>3, Blank DEF ScreenTrue, Open, NoRecovery, None, Over, Failed
  <1>9. NothingToSend' /\ ui'.status.state \notin Over
    BY <1>3 DEF NothingToSend, NoStatus, Over, Failed
  <1>10. op' = op \/ ~Working'
    BY Blank DEF Working
  <1>11. ASSUME SlotInv, ~overlapped PROVE SlotInv'
    <2>1. Closed(recent)
      BY <1>11 DEF SlotInv, StorageRight
    <2>2. CASE archived
      <3>1. stored' = NoSession /\ recent' = stored /\ ui'.session = NoSession
        BY <1>2, <1>3, <1>4, <2>2
      <3>2. Closed(recent)' /\ Closed(stored)' /\ Closed(ui.session)' /\ ScreenIsStored'
        BY <1>4, <1>11, <2>2, <3>1, NoneMade DEF Closed, Open, ScreenIsStored, SameSession
      <3> HIDE DEF archived, active, shown
      <3> QED BY <1>4, <1>6, <1>9, <1>10, <1>11, <2>2, <3>2, Cleared
    <2>3. CASE ~archived
      <3>1. /\ stored' = stored /\ recent' = recent
            /\ ui'.session = stored \/ (ui'.session = NoSession /\ ~Mine(stored)')
        BY <1>2, <1>3, <2>3 DEF Owner, Mine
      <3>2. Closed(recent)'
        BY <2>1, <3>1 DEF Closed, Open
      <3>3. ScreenIsStored' /\ StatusRight'
        BY <1>9, <3>1, NoneMade DEF ScreenIsStored, SameSession, StatusRight, Closed, Open
      <3> HIDE DEF archived, active, shown
      <3> QED BY <1>6, <1>9, <1>10, <1>11, <3>1, <3>2, <3>3, Looked
    <2> QED BY <2>2, <2>3
  <1> QED BY <1>6, <1>7, <1>8, <1>11 DEF TransferInv

LEMMA ReloadKeeps ==
    ASSUME TransferInv, Reload
    PROVE  TransferInv'
  <1>1. /\ Restore(address, FreshUi) /\ UNCHANGED <<exec, txs, held, overlapped>> /\ op' = Idle
        /\ lostHash \subseteq lostHash' /\ (op.pc = "sent" => op.cur.id \in lostHash')
        /\ FreshUi.recovery = NoRecovery
    BY DEF Reload, Done, auroraVars, FreshUi
  <1>2. DepositInv'
    BY ReloadIsSafe DEF TransferInv
  <1> QED BY <1>1, <1>2, RestoreKeeps

LEMMA SwitchKeeps ==
    ASSUME TransferInv, NEW a \in Accounts, SwitchAccount(a)
    PROVE  TransferInv'
  <1>1. Restore(a, ui) /\ UNCHANGED <<exec, txs, held, overlapped, op, lostHash>>
    BY DEF SwitchAccount, auroraVars
  <1>2. DepositInv'
    BY SwitchIsSafe DEF TransferInv
  <1> QED BY <1>1, <1>2, RestoreKeeps

-----------------------------------------------------------------------------
(* The steps of Aurora and the chain.                                      *)
LEMMA OutsideMoves ==
    ASSUME TransferInv, DepositInv',
           UNCHANGED <<address, ui, op, stored, recent, lostHash, overlapped>>,
           ExecutionsStay, \A s \in SessionType : HashRight(s) => HashRight(s)',
           op.pc = "sent" => txs'[op.cur.id] # <<>>, NoSecondTransfer', VaultCallCovered',
           SlotInv => SignedIsStored' /\ Covered'
    PROVE  TransferInv'
  <1>1. SessionMade(op.cur)'
    <2>1. op.cur \in SessionType /\ SessionMade(op.cur)
      BY Shapes DEF TransferInv, SessionsMade
    <2> QED BY <2>1, MadeStays DEF SessionMade, Open
  <1>2. ScreenTrue' /\ HandTrue'
    BY ScreenStays DEF TransferInv, HandTrue
  <1>3. SlotInv => HandRight'
    BY HandStays DEF Working
  <1> QED BY <1>1, <1>2, <1>3, WorldStep

(* A transfer that is mined keeps its place, and one that reverted stays so. *)
LEMMA MinedKeeps ==
    ASSUME TransferInv, DepositInv', NEW id \in Executions, Mined(id),
           UNCHANGED <<address, ui, op, stored, recent, lostHash, overlapped>>
    PROVE  TransferInv'
  <1>1. PICK i \in DOMAIN txs[id], outcome \in {"ok", "reverted"} :
           txs[id][i] = "pending" /\ txs' = [txs EXCEPT ![id][i] = outcome]
    BY DEF Mined
  <1>2. UNCHANGED <<exec, held>>
    BY DEF Mined
  <1>3. /\ txs \in [Executions -> Seq(TxState)] /\ txs[id] \in Seq(TxState)
        /\ i \in 1 .. Len(txs[id]) /\ outcome \in TxState
    BY <1>1, Shapes DEF TransferInv, TxState
  <1>4. \A e \in Executions :
           /\ DOMAIN txs'[e] = DOMAIN txs[e] /\ Len(txs'[e]) = Len(txs[e])
           /\ \A k \in DOMAIN txs[e] : txs[e][k] = "reverted" => txs'[e][k] = "reverted"
           /\ txs[e] # <<>> => txs'[e] # <<>>
    <2>1. txs'[id] = [txs[id] EXCEPT ![i] = outcome]
      BY <1>1, <1>3
    <2>2. /\ DOMAIN txs'[id] = DOMAIN txs[id] /\ Len(txs'[id]) = Len(txs[id])
          /\ \A k \in DOMAIN txs[id] : k # i => txs'[id][k] = txs[id][k]
          /\ txs'[id] # <<>>
      BY <1>3, <2>1, ExceptSeq, EmptySeq, LenProperties
    <2>3. \A e \in Executions : e # id => txs'[e] = txs[e]
      BY <1>1, <1>3
    <2> QED BY <1>1, <2>2, <2>3
  <1>5. \A e \in Executions : Known(e)' = Known(e)
    BY <1>4 DEF Known
  <1>6. ASSUME NEW s \in SessionType, HashRight(s) PROVE HashRight(s)'
    <2> SUFFICES ASSUME s.id # None, s.id \notin lostHash PROVE
              /\ s.hash # 0 => s.hash \in Known(s.id)'
              /\ \A k \in Known(s.id)' : k # s.hash => txs'[s.id][k] = "reverted"
      BY DEF HashRight
    <2>1. s.id \in Executions
      BY DEF SessionType, Ids
    <2>2. Known(s.id)' = Known(s.id) /\ Known(s.id) \subseteq DOMAIN txs[s.id]
      BY <1>5, <2>1 DEF Known
    <2> QED BY <1>4, <1>6, <2>1, <2>2 DEF HashRight
  <1>7. NoSecondTransfer'
    BY <1>4 DEF TransferInv, NoSecondTransfer
  <1>8. op.pc = "sent" => txs'[op.cur.id] # <<>>
    <2>1. op.pc = "sent" => op.cur.id \in Executions
      BY Shapes DEF TransferInv, DepositInv, OpTrue, SessionType
    <2> QED BY <1>4, <2>1 DEF TransferInv, HandTrue
  <1>9. ExecutionsStay /\ VaultCallCovered'
    BY <1>2, NothingRuns DEF ExecutionsStay, TransferInv
  <1>10. SlotInv => SignedIsStored' /\ Covered'
    BY <1>2 DEF SlotInv, SignedIsStored, Covered, Due, Come, Pending, Open
  <1> QED BY <1>6, <1>7, <1>8, <1>9, <1>10, OutsideMoves

LEMMA ExecutionMoves ==
    ASSUME TransferInv, DepositInv', NEW id \in Executions,
           UNCHANGED <<address, ui, op, stored, recent, lostHash, overlapped, txs>>,
           \A e \in Executions : e # id => exec'[e] = exec[e],
           exec'[id].kind = exec[id].kind, exec'[id].acct = exec[id].acct,
           exec'[id].signed = exec[id].signed, Open(id)' => Open(id),
           exec'[id].short => exec[id].short \/ overlapped, SlotInv => Covered'
    PROVE  TransferInv'
  <1>1. ExecutionsStay
    BY DEF ExecutionsStay, Open
  <1>2. (\A s : HashRight(s) => HashRight(s)') /\ NoSecondTransfer'
    BY KnownStays DEF TransferInv
  <1>3. op.pc = "sent" => txs'[op.cur.id] # <<>>
    BY DEF TransferInv, HandTrue
  <1>4. VaultCallCovered'
    BY DEF TransferInv, VaultCallCovered
  <1>5. SlotInv => SignedIsStored'
    BY DEF SlotInv, SignedIsStored, Open
  <1> QED BY <1>1, <1>2, <1>3, <1>4, <1>5, OutsideMoves

(* What stays open finds at least the money it found before, and needs no  *)
(* more.                                                                   *)
LEMMA StaysCovered ==
    ASSUME TransferInv, SlotInv, NEW id \in Executions, UNCHANGED stored, held' \in [Accounts -> Nat],
           \A e \in Executions : e # id => exec'[e] = exec[e],
           \A e \in {stored.id, stored.recovery} \ {id} :
               Open(e) => held[exec[e].acct] <= held'[exec[e].acct],
           Open(id)' /\ Open(id) /\ Due(id) <= held[exec[id].acct] + Come(id) =>
               Due(id)' <= held'[exec'[id].acct] + Come(id)',
           Open(id)' => Open(id)
    PROVE  Covered'
  <1> SUFFICES ASSUME NEW e \in {stored.id, stored.recovery}, Open(e)'
               PROVE  Due(e)' <= held'[exec'[e].acct] + Come(e)'
    BY DEF Covered
  <1>1. e \in Executions
    <2>1. stored \in SessionType
      BY Shapes DEF TransferInv
    <2> QED BY <2>1 DEF Open, SessionType, Ids
  <1>2. CASE e = id
    BY <1>2 DEF SlotInv, Covered
  <1>3. CASE e # id
    <2>1. exec'[e] = exec[e] /\ Open(e)
      BY <1>1, <1>3 DEF Open
    <2>2. Due(e)' = Due(e) /\ Come(e)' = Come(e)
      BY <2>1 DEF Due, Come, Pending
    <2>3. Due(e) <= held[exec[e].acct] + Come(e)
      BY <2>1 DEF SlotInv, Covered
    <2>4. exec[e].acct \in Accounts /\ Due(e) \in Nat /\ Come(e) \in Nat
      <3>1. exec[e] \in ExecType /\ exec[e].kind # "none"
        BY <1>1, <2>1, Shapes DEF TransferInv, Open
      <3>2. exec[e].acct \in Accounts
        BY <1>1, <3>1 DEF TransferInv, DepositInv, ChainTypes
      <3> QED BY <3>1, <3>2, DepositAssumption DEF Due, Come, DepositAssumption, ExecType
    <2>5. held[exec[e].acct] \in Nat /\ held'[exec[e].acct] \in Nat /\ held[exec[e].acct] <= held'[exec[e].acct]
      BY <1>3, <2>1, <2>4, Shapes DEF TransferInv
    <2> QED BY <2>1, <2>2, <2>3, <2>4, <2>5
  <1> QED BY <1>2, <1>3

LEMMA DeadlineKeeps ==
    ASSUME TransferInv, DepositInv', NEW id \in Executions, Deadline(id) \/ Expire(id),
           UNCHANGED <<address, ui, op, stored, recent, lostHash, overlapped>>
    PROVE  TransferInv'
  <1>1. exec \in [Executions -> ExecType] /\ held \in [Accounts -> Nat] /\ UNCHANGED <<txs, held>>
    BY Shapes DEF TransferInv, Deadline, Expire
  <1>2. /\ \A e \in Executions : e # id => exec'[e] = exec[e]
        /\ exec'[id].kind = exec[id].kind /\ exec'[id].acct = exec[id].acct
        /\ exec'[id].signed = exec[id].signed /\ exec'[id].short = exec[id].short
        /\ exec'[id].amount = exec[id].amount
        /\ exec'[id].state = exec[id].state \/ exec'[id].state = "EXPIRED"
    <2>1. CASE Deadline(id)
      BY <1>1, <2>1 DEF Deadline, ExecType
    <2>2. CASE Expire(id)
      BY <1>1, <2>2 DEF Expire, Becomes, ExecType
    <2> QED BY <2>1, <2>2
  <1>3. Open(id)' => Open(id) /\ exec'[id].state = exec[id].state
    BY <1>2 DEF Open, Over, Failed
  <1>4. ASSUME SlotInv PROVE Covered'
    <2>1. Open(id)' => Due(id)' = Due(id) /\ Come(id)' = Come(id)
      BY <1>2, <1>3 DEF Due, Come, Pending
    <2>2. \A e \in {stored.id, stored.recovery} \ {id} : Open(e) => held[exec[e].acct] <= held'[exec[e].acct]
      <3> SUFFICES ASSUME NEW e \in {stored.id, stored.recovery}, Open(e)
                   PROVE  held[exec[e].acct] <= held'[exec[e].acct]
        OBVIOUS
      <3>1. e \in Executions /\ exec[e].kind # "none"
        BY Shapes DEF TransferInv, Open, SessionType
      <3>2. held[exec[e].acct] \in Nat
        BY <1>1, <3>1 DEF TransferInv, DepositInv, ChainTypes
      <3> QED BY <1>1, <3>2
    <2> QED BY <1>1, <1>2, <1>3, <1>4, <2>1, <2>2, StaysCovered
  <1> QED BY <1>1, <1>2, <1>3, <1>4, ExecutionMoves

LEMMA RouteKeeps ==
    ASSUME TransferInv, DepositInv', NEW id \in Executions, Route(id),
           UNCHANGED <<address, ui, op, stored, recent, lostHash, overlapped>>
    PROVE  TransferInv'
  <1>1. /\ exec \in [Executions -> ExecType] /\ held \in [Accounts -> Nat] /\ txs' = txs
        /\ exec[id].kind = "deposit" /\ Pending(id) /\ exec[id].acct \in Accounts /\ exec[id].amount \in Nat
    BY Shapes DEF TransferInv, Route, DepositInv, ChainTypes, ExecType
  <1>2. \/ Becomes(id, "DEPOSIT_FAILED") /\ held' = held
        \/ \E s \in Surpluses : /\ Becomes(id, "OPERATION_PENDING")
                                /\ held' = [held EXCEPT ![exec[id].acct] = @ + MinOut + s]
    BY DEF Route
  <1>3. /\ \A e \in Executions : e # id => exec'[e] = exec[e]
        /\ exec'[id].kind = exec[id].kind /\ exec'[id].acct = exec[id].acct
        /\ exec'[id].signed = exec[id].signed /\ exec'[id].short = exec[id].short
        /\ exec'[id].amount = exec[id].amount
        /\ exec'[id].state \in {"DEPOSIT_FAILED", "OPERATION_PENDING"}
    BY <1>1, <1>2 DEF Becomes, ExecType
  <1>4. Open(id)
    BY <1>1 DEF Open, Pending, Over, Failed, None, Executions
  <1>5. /\ held' \in [Accounts -> Nat] /\ \A a \in Accounts : held[a] <= held'[a]
        /\ exec'[id].state = "OPERATION_PENDING" => held'[exec[id].acct] >= held[exec[id].acct] + MinOut
    <2>1. CASE Becomes(id, "DEPOSIT_FAILED") /\ held' = held
      <3>1. exec'[id].state = "DEPOSIT_FAILED"
        BY <1>1, <2>1 DEF Becomes, ExecType
      <3> QED BY <1>1, <2>1, <3>1
    <2>2. CASE \E s \in Surpluses : held' = [held EXCEPT ![exec[id].acct] = @ + MinOut + s]
      <3>1. PICK s \in Surpluses : held' = [held EXCEPT ![exec[id].acct] = @ + MinOut + s]
        BY <2>2
      <3>2. s \in Nat /\ MinOut \in Nat /\ held[exec[id].acct] \in Nat
        BY <1>1, DepositAssumption DEF DepositAssumption
      <3>3. held'[exec[id].acct] = held[exec[id].acct] + MinOut + s
        BY <1>1, <3>1
      <3>4. held' \in [Accounts -> Nat] /\ \A a \in Accounts : a # exec[id].acct => held'[a] = held[a]
        BY <1>1, <3>1, <3>2
      <3>5. \A a \in Accounts : held[a] \in Nat
        BY <1>1
      <3> QED BY <3>2, <3>3, <3>4, <3>5
    <2> QED BY <1>2, <2>1, <2>2
  <1>6. ASSUME SlotInv PROVE Covered'
    <2>1. \A e \in {stored.id, stored.recovery} \ {id} : Open(e) => held[exec[e].acct] <= held'[exec[e].acct]
      <3> SUFFICES ASSUME NEW e \in {stored.id, stored.recovery}, Open(e)
                   PROVE  held[exec[e].acct] <= held'[exec[e].acct]
        OBVIOUS
      <3>1. e \in Executions /\ exec[e].kind # "none"
        BY Shapes DEF TransferInv, Open, SessionType
      <3>2. exec[e].acct \in Accounts
        BY <3>1 DEF TransferInv, DepositInv, ChainTypes
      <3> QED BY <1>5, <3>2
    <2>2. ASSUME Open(id)', Due(id) <= held[exec[id].acct] + Come(id)
          PROVE  Due(id)' <= held'[exec'[id].acct] + Come(id)'
      <3>1. exec'[id].state = "OPERATION_PENDING"
        BY <1>3, <2>2 DEF Open, Over, Failed
      <3>2. Due(id)' = exec[id].amount /\ Due(id) = exec[id].amount /\ Come(id) = MinOut /\ Come(id)' = 0
        BY <1>1, <1>3, <3>1, DepositAssumption DEF Due, Come, Pending, DepositAssumption
      <3>3. /\ held'[exec[id].acct] \in Nat /\ held[exec[id].acct] \in Nat /\ MinOut \in Nat
            /\ held'[exec[id].acct] >= held[exec[id].acct] + MinOut
        BY <1>1, <1>5, <3>1, DepositAssumption DEF DepositAssumption
      <3> QED BY <1>1, <1>3, <2>2, <3>2, <3>3
    <2> QED BY <1>3, <1>4, <1>5, <1>6, <2>1, <2>2, StaysCovered
  <1> QED BY <1>1, <1>3, <1>4, <1>6, ExecutionMoves

(* The signed calls find their money: the execution is the one in storage, *)
(* and the only one of them that is open.                                  *)
LEMMA OperateKeeps ==
    ASSUME TransferInv, DepositInv', NEW id \in Executions, Operate(id),
           UNCHANGED <<address, ui, op, stored, recent, lostHash, overlapped>>
    PROVE  TransferInv'
  <1>1. /\ exec \in [Executions -> ExecType] /\ held \in [Accounts -> Nat] /\ txs' = txs
        /\ held' \in [Accounts -> Nat] /\ exec[id] \in ExecType
        /\ stored \in SessionType /\ SessionMade(stored)
    BY Shapes DEF TransferInv, Operate, DepositInv, ChainTypes, SessionsMade
  <1>2. /\ exec[id].signed /\ Open(id) /\ Come(id) = 0
        /\ exec[id].acct \in Accounts
    <2>1. /\ exec[id].state \in {"OPERATION_PENDING", "DEPOSIT_PENDING"}
          /\ exec[id].state = "OPERATION_PENDING" \/ exec[id].signed
          /\ exec[id].kind = "recovery" \/ ~Pending(id)
      BY DEF Operate, Pending
    <2>2. exec[id].kind # "none"
      BY <2>1 DEF TransferInv, DepositInv, ChainTypes
    <2>3. exec[id].signed /\ exec[id].acct \in Accounts
      BY <2>1, <2>2 DEF TransferInv, DepositInv, ChainTypes, RunsAreSigned
    <2>4. Open(id) /\ Come(id) = 0
      BY <2>1, <2>2 DEF Open, Come, Over, Failed, None, Executions
    <2> QED BY <2>3, <2>4
  <1>3. \/ held' = [held EXCEPT ![exec[id].acct] = @ - Due(id)] /\ Becomes(id, "SUCCESS")
        \/ /\ exec' = [exec EXCEPT ![id].state = "OPERATION_FAILED", ![id].short = Due(id) > held[exec[id].acct]]
           /\ held' = held
    BY DEF Operate, Due
  <1>4. /\ \A e \in Executions : e # id => exec'[e] = exec[e]
        /\ exec'[id].kind = exec[id].kind /\ exec'[id].acct = exec[id].acct
        /\ exec'[id].signed = exec[id].signed
        /\ exec'[id].state \in {"SUCCESS", "OPERATION_FAILED"}
        /\ exec'[id].short => exec[id].short \/ Due(id) > held[exec[id].acct]
    <2>1. CASE Becomes(id, "SUCCESS")
      BY <1>1, <2>1 DEF Becomes, ExecType
    <2>2. CASE exec' = [exec EXCEPT ![id].state = "OPERATION_FAILED", ![id].short = Due(id) > held[exec[id].acct]]
      BY <1>1, <2>2 DEF ExecType
    <2> QED BY <1>3, <2>1, <2>2
  <1>5. ~Open(id)'
    BY <1>4 DEF Open, Over, Failed
  <1>6. ASSUME SlotInv PROVE /\ Due(id) <= held[exec[id].acct]
                             /\ \A e \in {stored.id, stored.recovery} \ {id} : ~Open(e)
    <2>1. id \in {stored.id, stored.recovery}
      BY <1>2, <1>6 DEF SlotInv, SignedIsStored
    <2>2. Due(id) <= held[exec[id].acct] + Come(id)
      BY <1>2, <1>6, <2>1 DEF SlotInv, Covered
    <2>3. held[exec[id].acct] \in Nat
      BY <1>1, <1>2
    <2>4. \A e \in {stored.id, stored.recovery} \ {id} : ~Open(e)
      BY <1>1, <1>2, <2>1 DEF SessionMade, Open
    <2> QED BY <1>2, <2>2, <2>3, <2>4
  <1>7. Due(id) \in Nat /\ held[exec[id].acct] \in Nat
    BY <1>1, <1>2, DepositAssumption DEF Due, ExecType, DepositAssumption
  <1>8. exec'[id].short => exec[id].short \/ overlapped
    <2>1. SlotInv => ~(Due(id) > held[exec[id].acct])
      BY <1>6, <1>7
    <2> QED BY <1>4, <2>1 DEF TransferInv
  <1>9. ASSUME SlotInv PROVE Covered'
    BY <1>1, <1>4, <1>5, <1>6, <1>9, StaysCovered
  <1> QED BY <1>1, <1>4, <1>5, <1>8, <1>9, ExecutionMoves

LEMMA AuroraKeeps ==
    ASSUME TransferInv, Aurora
    PROVE  TransferInv'
  <1>1. DepositInv' /\ UNCHANGED <<address, ui, op, stored, recent, lostHash, overlapped>>
    BY AuroraIsSafe DEF TransferInv, Aurora
  <1>2. PICK id \in Executions : Mined(id) \/ Deadline(id) \/ Expire(id) \/ Route(id) \/ Operate(id)
    BY DEF Aurora
  <1>3. CASE Mined(id)
    BY <1>1, <1>3, MinedKeeps
  <1>4. CASE Deadline(id) \/ Expire(id)
    BY <1>1, <1>4, DeadlineKeeps
  <1>5. CASE Route(id)
    BY <1>1, <1>5, RouteKeeps
  <1>6. CASE Operate(id)
    BY <1>1, <1>6, OperateKeeps
  <1> QED BY <1>2, <1>3, <1>4, <1>5, <1>6

-----------------------------------------------------------------------------
LEMMA TransferInvInit == DepositInit => TransferInv
  <1> SUFFICES ASSUME DepositInit PROVE TransferInv
    OBVIOUS
  <1>1. DepositInv
    BY DepositInvInit
  <1>2. /\ ui = FreshUi /\ op = Idle /\ stored = NoSession /\ recent = NoSession
        /\ lostHash = {} /\ overlapped = FALSE
        /\ \A id \in Executions : exec[id] = NoExec /\ txs[id] = <<>>
    BY DEF DepositInit
  <1>3. /\ FreshUi.session = NoSession /\ FreshUi.status = NoStatus /\ FreshUi.recovery = NoRecovery
        /\ NoStatus.leftover = FALSE /\ NoRecovery.of = None /\ NoRecovery.state = "unknown"
        /\ Idle.pc = "idle" /\ Idle.cur = NoSession
        /\ NoExec.signed = FALSE /\ NoExec.short = FALSE /\ NoSession.recovery = None
    BY DEF FreshUi, NoStatus, NoRecovery, Idle, NoExec, NoSession
  <1>4. SessionMade(NoSession) /\ Closed(NoSession) /\ NoSession.id = None /\ ~Open(None)
    BY NoneMade DEF Open
  <1>5. SessionsMade /\ ScreenTrue /\ HandTrue
    <2>1. "unknown" \notin Over
      BY DEF Over, Failed
    <2> QED BY <1>2, <1>3, <1>4, <2>1 DEF SessionsMade, ScreenTrue, HandTrue
  <1>6. SlotInv
    <2>1. ScreenIsStored
      BY <1>2, <1>3 DEF ScreenIsStored, SameSession
    <2>2. StatusRight /\ StorageRight
      BY <1>2, <1>3, <1>4 DEF StatusRight, StorageRight, Mine
    <2>3. HandRight
      BY <1>2, <1>3 DEF HandRight, Working
    <2>4. SignedIsStored
      BY <1>2, <1>3 DEF SignedIsStored
    <2>5. Covered
      BY <1>2, <1>3, <1>4 DEF Covered
    <2> QED BY <2>1, <2>2, <2>3, <2>4, <2>5 DEF SlotInv
  <1>7. NoSecondTransfer /\ VaultCallCovered
    BY <1>2, <1>3 DEF NoSecondTransfer, VaultCallCovered
  <1> QED BY <1>1, <1>5, <1>6, <1>7 DEF TransferInv

LEMMA TransferInvStep == TransferInv /\ [DepositNext]_depositVars => TransferInv'
  <1> SUFFICES ASSUME TransferInv, [DepositNext]_depositVars PROVE TransferInv'
    OBVIOUS
  <1>1. CASE Reload \/ \E a \in Accounts : SwitchAccount(a)
    BY <1>1, ReloadKeeps, SwitchKeeps
  <1>2. CASE Review \/ Start \/ StartRecovery \/ ResumeRecovery \/ Continue
    BY <1>2, AskingKeeps
  <1>3. CASE Create \/ CreateRecovery
    BY <1>3, CreateKeeps, CreateRecoveryKeeps
  <1>4. CASE Sign \/ SignRecovery \/ Send
    BY <1>4, SignKeeps, SignRecoveryKeeps, SendKeeps
  <1>5. CASE HashComes \/ Receipt
    BY <1>5, HashKeeps, ReceiptKeeps
  <1>6. CASE Poll \/ PollRecovery
    BY <1>6, PollKeeps, PollRecoveryKeeps
  <1>7. CASE ReviewRemaining \/ StartAnother \/ ViewDetails
    BY <1>7, ReviewRemainingKeeps, StartAnotherKeeps, ViewDetailsKeeps
  <1>8. CASE Aurora
    BY <1>8, AuroraKeeps
  <1>9. CASE UNCHANGED depositVars
    <2>1. UNCHANGED <<address, ui, op, stored, recent, exec, txs, held, lostHash, overlapped>>
      BY <1>9 DEF depositVars
    <2>2. DepositInv'
      BY DepositInvStep DEF TransferInv
    <2>3. SessionMade(op.cur) /\ HandTrue'
      BY <2>1 DEF TransferInv, SessionsMade, HandTrue
    <2>4. SlotInv => HandRight'
      BY <2>1 DEF SlotInv, HandRight, Working, HashRight, Known, NothingToSend, Open
    <2> QED BY <2>1, <2>2, <2>3, <2>4, HandStep
  <1> QED
    BY <1>1, <1>2, <1>3, <1>4, <1>5, <1>6, <1>7, <1>8, <1>9 DEF DepositNext

(* Money goes out once per execution, over every order of reloads, changes *)
(* of account, retries, reverted transfers, recoveries and older copies of *)
(* a session, unless the wallet's answer was lost with the page or a       *)
(* session was dropped before it was over (400-437, 939-968).              *)
THEOREM OneTransferPerExecution == DepositSpec => []NoSecondTransfer
  <1>1. TransferInv => NoSecondTransfer
    BY DEF TransferInv
  <1> QED BY <1>1, TransferInvInit, TransferInvStep, PTL DEF DepositSpec

(* A deposit with money on its way is the one in storage until it is over: *)
(* what was sent for was signed, and what was signed and can still run is  *)
(* in the one slot (117-121, 258-288).                                     *)
THEOREM TransfersAreRemembered == DepositSpec => []InFlightIsRemembered
  <1>1. TransferInv => InFlightIsRemembered
    <2> SUFFICES ASSUME TransferInv, ~overlapped, NEW id \in Executions,
                        exec[id].kind = "deposit", InFlight(id), Open(id)
                 PROVE  stored.id = id
      BY DEF InFlightIsRemembered
    <2>1. txs \in [Executions -> Seq(TxState)]
      BY Shapes DEF TransferInv
    <2>2. txs[id] # <<>>
      BY <2>1 DEF InFlight
    <2>3. exec[id].signed
      BY <2>2 DEF TransferInv, DepositInv, MoneyFollowsSignature
    <2>4. id \in {stored.id, stored.recovery}
      BY <2>3 DEF TransferInv, SlotInv, SignedIsStored
    <2>5. id # stored.recovery
      BY DEF TransferInv, SessionsMade, SessionMade, Open
    <2> QED BY <2>4, <2>5
  <1> QED BY <1>1, TransferInvInit, TransferInvStep, PTL DEF DepositSpec

(* The vault call of a deposit, and that of a recovery, finds the amount   *)
(* fixed when it was made, over every surplus a route leaves behind, unless *)
(* a session was dropped before it was over (server.ts 217-240).           *)
THEOREM CallsAreCovered == DepositSpec => []VaultCallCovered
  <1>1. TransferInv => VaultCallCovered
    BY DEF TransferInv
  <1> QED BY <1>1, TransferInvInit, TransferInvStep, PTL DEF DepositSpec
=============================================================================
