------------------------- MODULE CrossChainDeposit -------------------------
(***************************************************************************)
(* A deposit from another chain, as the page drives it                     *)
(* (CrossChainDepositPanel.tsx, server.ts 169-307 and the routes under     *)
(* api/crosschain): quote, create an execution, sign, send USDC to it,     *)
(* follow it, and take back what stayed with the intermediary account.     *)
(*                                                                         *)
(* One browser tab; localStorage outlives it.  op is the async function in *)
(* progress (busy), an action is what runs between two of its awaits.      *)
(* External: the wallet, the source chain, and Aurora, which runs a signed *)
(* and funded execution over the account's intermediary.  Line numbers     *)
(* without a file are CrossChainDepositPanel.tsx.                          *)
(***************************************************************************)
EXTENDS Naturals, Sequences, FiniteSets

CONSTANTS
    Accounts,
    MinOut, Surpluses,  \* what a route delivers: the least, and what may come on top
    Fee,                \* of a recovery
    ExecBound, SendBound, UpsetBound        \* bounds of a run

ASSUME DepositAssumption ==
    /\ {MinOut, Fee, ExecBound, SendBound, UpsetBound} \subseteq Nat
    /\ Surpluses \subseteq Nat /\ MinOut # 0

VARIABLES
    address,            \* the connected account
    ui,                 \* the panel's React state and refs
    op,                 \* the async function in progress, with what it captured
    stored, recent,     \* localStorage: SESSION_KEY and RECENT_SESSION_KEY
    exec,               \* Aurora's executions
    txs,                \* external: the transfers sent for an execution
    held,               \* USDC of each account's intermediary
    lostHash,           \* observation: executions whose transfer the page never heard of
    overlapped,         \* observation: a session was dropped before it was over
    upsets              \* bound only: reloads and changes of account

depositVars == <<address, ui, op, stored, recent, exec, txs, held, lostHash, overlapped,
                 upsets>>
auroraVars  == <<exec, txs, held>>

None       == 0
Executions == 1 .. ExecBound
Failed     == {"OPERATION_FAILED", "DEPOSIT_FAILED", "EXPIRED"}
Over       == Failed \cup {"SUCCESS"}
RecoveryOver == Over \ {"DEPOSIT_FAILED"}

NoSession  == [id |-> None, hash |-> 0, recovery |-> None, settled |-> FALSE]
NoStatus   == [state |-> "unknown", signed |-> FALSE, leftover |-> FALSE, minted |-> FALSE]
NoRecovery == [of |-> None, state |-> "unknown", signed |-> FALSE]
NoQuote    == [ready |-> FALSE, reused |-> 0]
FreshUi    == [session |-> NoSession, restored |-> None, started |-> None,
               quote |-> NoQuote, status |-> NoStatus, recovery |-> NoRecovery]
Idle       == [pc |-> "idle", cur |-> NoSession, reused |-> 0,
               acct |-> None]
NoExec     == [kind |-> "none", acct |-> None, amount |-> 0,
               state |-> "none", signed |-> FALSE, live |-> TRUE, short |-> FALSE]

DepositInit ==
    /\ address \in Accounts
    /\ ui = FreshUi /\ op = Idle /\ stored = NoSession /\ recent = NoSession
    /\ exec = [e \in Executions |-> NoExec]
    /\ txs = [e \in Executions |-> <<>>]
    /\ held = [a \in Accounts |-> 0]
    /\ lostHash = {} /\ overlapped = FALSE
    /\ upsets = 0

-----------------------------------------------------------------------------
(* Definitions named _as_... are never used by the specification: each is   *)
(* the definition below it with a plausible bug.                           *)

busy    == op.pc # "idle"
Done    == op' = Idle
Owner(s) == exec[s.id].acct

(* isTerminalDeposit: a success counts once the mint is confirmed.         *)
Terminal_as_past_the_route(state, minted) == state \notin {"DEPOSIT_PENDING", "unknown"}
Terminal(state, minted) == state \in Failed \/ (state = "SUCCESS" /\ minted)

(* An execution that can still move money.                                 *)
Open(id) == id # None /\ exec[id].kind # "none" /\ exec[id].state \notin Over

-----------------------------------------------------------------------------
(* Observation: there is one slot for all accounts, and what is put there  *)
(* takes the place of a session that is not over, or whose recovery is not. *)
Crowds(s) == stored.id \notin {None, s.id} /\ (Open(stored.id) \/ Open(stored.recovery))

(* saveSession and setSession of the same session.                         *)
Save(s) == stored' = s /\ overlapped' = (overlapped \/ Crowds(s))

(* The effect that runs on a load and on a change of account (258-288).    *)
Restore(a, base) ==
    LET active   == IF stored.id # None /\ Owner(stored) = a THEN stored ELSE NoSession
        archived == active.settled /\ active.recovery = None
        shown    == IF archived THEN NoSession ELSE active
    IN  /\ address' = a
        /\ stored' = IF archived THEN NoSession ELSE stored
        /\ recent' = IF archived THEN active ELSE recent
        /\ ui' = [FreshUi EXCEPT !.session = shown, !.restored = shown.id,
                                 !.recovery = base.recovery]

(* A bound: an upset costs the run an execution.                           *)
Upset == upsets < UpsetBound /\ exec[ExecBound] = NoExec /\ upsets' = upsets + 1

(* Whatever was in progress is lost with the page, also the answer of a    *)
(* wallet that has sent the transfer.                                      *)
Reload ==
    /\ Upset
    /\ Restore(address, FreshUi) /\ Done
    /\ lostHash' = IF op.pc = "sent" THEN lostHash \cup {op.cur.id} ELSE lostHash
    /\ UNCHANGED <<auroraVars, overlapped>>

SwitchAccount(a) ==
    /\ a # address /\ Upset
    /\ Restore(a, ui)
    /\ UNCHANGED <<op, auroraVars, lostHash, overlapped>>

-----------------------------------------------------------------------------
(* review: a dry run on the server tells what the intermediary holds.      *)
Review ==
    /\ ~busy /\ ui.session = NoSession
    /\ ui' = [ui EXCEPT !.quote = [ready |-> TRUE, reused |-> held[address]]]
    /\ UNCHANGED <<address, op, stored, recent, auroraVars, lostHash, overlapped, upsets>>

Start ==
    /\ ~busy /\ ui.session = NoSession /\ ui.quote.ready
    /\ op' = [Idle EXCEPT !.pc = "creating", !.reused = ui.quote.reused, !.acct = address]
    /\ UNCHANGED <<address, ui, stored, recent, auroraVars, lostHash, overlapped, upsets>>

NewExec(kind, acct, amount) ==
    [NoExec EXCEPT !.kind = kind, !.acct = acct, !.amount = amount, !.state = "DEPOSIT_PENDING"]

FirstFree(id) == id + upsets <= ExecBound /\ exec[id] = NoExec /\ \A e \in 1 .. id - 1 : exec[e] # NoExec

SameLeftover(reviewed) == held[op.acct] = reviewed

(* Nothing is asked for an account that is not connected any more, nor on  *)
(* an expired quote (388-395); a signature Aurora has is not asked again.  *)
quoteExpired(id) == ~exec[id].live

NextAfter_as_pay_first(signed) == "sending"
NextAfter(signed) == IF signed THEN "sending" ELSE "signing"

AuthorizeAndSend(s, acct, signed) ==
    op' = [Idle EXCEPT !.pc = NextAfter(signed), !.cur = s, !.acct = acct]

(* requestDepositExecution: the amount of the vault call is fixed here,    *)
(* the leftover counted in.  It may refuse, and its answer may be lost.    *)
Create ==
    /\ op.pc = "creating"
    /\ \/ Done /\ UNCHANGED <<exec, ui, stored, overlapped>>
       \/ /\ SameLeftover(op.reused)
          /\ \E id \in Executions :
                /\ FirstFree(id)
                /\ exec' = [exec EXCEPT ![id] = NewExec("deposit", op.acct, MinOut + held[op.acct])]
                /\ \/ Done /\ UNCHANGED <<ui, stored, overlapped>>
                   \/ LET s == [NoSession EXCEPT !.id = id]
                      IN  /\ Save(s)
                          /\ ui' = [ui EXCEPT !.session = s, !.started = id,
                                       !.status = [NoStatus EXCEPT !.state = "DEPOSIT_PENDING"]]
                          /\ AuthorizeAndSend(s, op.acct, FALSE)
    /\ UNCHANGED <<address, recent, txs, held, lostHash, upsets>>

(* continueDeposit, behind one of its two buttons (939-957).               *)
Continue ==
    /\ ~busy /\ ui.session # NoSession /\ ui.status # NoStatus
    /\ LET s == ui.session
       IN  \/ /\ s.hash = 0 /\ ui.status.state \notin Over
              /\ IF address = Owner(s) /\ ~quoteExpired(s.id)
                 THEN AuthorizeAndSend(s, address, ui.status.signed) ELSE UNCHANGED op
           \/ /\ s.hash # 0 /\ ui.status.state # "SUCCESS"
              /\ op' = [Idle EXCEPT !.pc = "confirming", !.cur = s, !.acct = address]
    /\ ui' = [ui EXCEPT !.started = ui.session.id]
    /\ UNCHANGED <<address, stored, recent, auroraVars, lostHash, overlapped, upsets>>

(* The user may decline every prompt.  submitSignature refuses what        *)
(* another account signed.                                                 *)
Sign ==
    /\ op.pc = "signing"
    /\ \/ Done /\ UNCHANGED exec
       \/ /\ address = Owner(op.cur)
          /\ exec' = [exec EXCEPT ![op.cur.id].signed = TRUE]
          /\ op' = [op EXCEPT !.pc = "sending"]
    /\ UNCHANGED <<address, ui, stored, recent, txs, held, lostHash, overlapped, upsets>>

Sent == {p \in Executions \X (1 .. SendBound) : p[2] \in DOMAIN txs[p[1]]}

Send ==
    /\ op.pc = "sending"
    /\ \/ Done /\ UNCHANGED txs
       \/ /\ Cardinality(Sent) < SendBound
          /\ txs' = [txs EXCEPT ![op.cur.id] = Append(@, "pending")]
          /\ op' = [op EXCEPT !.pc = "sent"]
    /\ UNCHANGED <<address, ui, stored, recent, exec, held, lostHash, overlapped, upsets>>

Kept_as_not_saved(s) == UNCHANGED <<stored, overlapped>>
Kept(s) == Save(s)

(* The wallet answers with the hash (434-436), or its answer is lost.      *)
HashComes ==
    /\ op.pc = "sent"
    /\ \/ /\ Done /\ lostHash' = lostHash \cup {op.cur.id}
          /\ UNCHANGED <<ui, stored, overlapped>>
       \/ LET next == [op.cur EXCEPT !.hash = Len(txs[op.cur.id])]
          IN  /\ Kept(next)
              /\ ui' = [ui EXCEPT !.session = next]
              /\ op' = [op EXCEPT !.pc = "confirming", !.cur = next]
              /\ UNCHANGED lostHash
    /\ UNCHANGED <<address, recent, auroraVars, upsets>>

(* The receipt: a transfer that reverted may be sent again (428-437,       *)
(* 504-520).                                                               *)
Receipt ==
    /\ op.pc = "confirming" /\ Done
    /\ LET retry == [op.cur EXCEPT !.hash = 0]
       IN  IF txs[op.cur.id][op.cur.hash] = "reverted"
           THEN Save(retry) /\ ui' = [ui EXCEPT !.session = retry]
           ELSE UNCHANGED <<ui, stored, overlapped>>
    /\ UNCHANGED <<address, recent, auroraVars, lostHash, upsets>>

-----------------------------------------------------------------------------
(* The poll of the deposit (290-329).  A mint that happened may still go   *)
(* unseen.                                                                 *)
Poll ==
    /\ ui.session # NoSession /\ Owner(ui.session) = address
    /\ LET s    == ui.session
           e    == exec[s.id]
           left == e.state \in {"SUCCESS", "OPERATION_FAILED"} /\ held[address] > 0
       IN  \E minted \in IF e.state = "SUCCESS" THEN BOOLEAN ELSE {FALSE} :
              LET settled == [s EXCEPT !.settled = TRUE]
                  shown   == [ui EXCEPT !.status = [state |-> e.state, signed |-> e.signed,
                                                    leftover |-> left, minted |-> minted]]
              IN  IF ~Terminal(e.state, minted) \/ s.recovery # None
                  THEN ui' = shown /\ UNCHANGED <<stored, recent, overlapped>>
                  ELSE IF ui.restored = s.id /\ ui.started # s.id
                  THEN /\ recent' = settled /\ Save(NoSession)
                       /\ ui' = [ui EXCEPT !.session = NoSession, !.status = NoStatus, !.restored = None]
                  ELSE Save(settled) /\ ui' = shown /\ UNCHANGED recent
    /\ UNCHANGED <<address, op, auroraVars, lostHash, upsets>>

(* The poll of a recovery (331-367).                                       *)
PollRecovery ==
    /\ ui.session.recovery # None
    /\ LET s == ui.session
           r == exec[s.recovery]
       IN  IF ui.restored = s.id /\ r.state \in RecoveryOver
           THEN /\ recent' = [s EXCEPT !.settled = TRUE] /\ Save(NoSession)
                /\ ui' = [ui EXCEPT !.session = NoSession, !.status = NoStatus, !.restored = None,
                                    !.recovery = [of |-> s.recovery, state |-> r.state, signed |-> r.signed]]
           ELSE /\ ui' = [ui EXCEPT !.recovery = [of |-> s.recovery, state |-> r.state, signed |-> r.signed]]
                /\ UNCHANGED <<stored, recent, overlapped>>
    /\ UNCHANGED <<address, op, auroraVars, lostHash, upsets>>

StartRecovery ==
    /\ ~busy /\ ui.status.leftover /\ ui.session.recovery = None
    /\ op' = [Idle EXCEPT !.pc = "recovering", !.cur = ui.session, !.acct = address]
    /\ UNCHANGED <<address, ui, stored, recent, auroraVars, lostHash, overlapped, upsets>>

(* recovery/route.ts: twice the fee stays behind.                          *)
CreateRecovery ==
    /\ op.pc = "recovering"
    /\ \/ Done /\ UNCHANGED <<exec, ui, stored, overlapped>>
       \/ /\ exec[op.cur.id].state \in {"SUCCESS", "OPERATION_FAILED"}
          /\ held[op.acct] > 2 * Fee + 1
          /\ \E id \in Executions :
                /\ FirstFree(id)
                /\ exec' = [exec EXCEPT ![id] = NewExec("recovery", op.acct, held[op.acct] - 2 * Fee)]
                /\ \/ Done /\ UNCHANGED <<ui, stored, overlapped>>
                   \/ LET updated == [op.cur EXCEPT !.recovery = id]
                      IN  /\ Save(updated)
                          /\ ui' = [ui EXCEPT !.session = updated]
                          /\ op' = [op EXCEPT !.pc = "recoverySigning", !.cur = updated]
    /\ UNCHANGED <<address, recent, txs, held, lostHash, upsets>>

SignRecovery ==
    /\ op.pc = "recoverySigning" /\ Done
    /\ \/ UNCHANGED <<exec, ui>>
       \/ /\ address = Owner(op.cur)
          /\ exec' = [exec EXCEPT ![op.cur.recovery].signed = TRUE]
          /\ ui' = [ui EXCEPT !.recovery = [of |-> op.cur.recovery, state |-> "DEPOSIT_PENDING", signed |-> FALSE]]
    /\ UNCHANGED <<address, stored, recent, txs, held, lostHash, overlapped, upsets>>

ResumeRecovery ==
    /\ ~busy /\ ui.session.recovery # None
    /\ ui.recovery.state = "DEPOSIT_PENDING" /\ ~ui.recovery.signed
    /\ op' = [Idle EXCEPT !.pc = "recoverySigning", !.cur = ui.session, !.acct = address]
    /\ UNCHANGED <<address, ui, stored, recent, auroraVars, lostHash, overlapped, upsets>>

(* Observation: a session let go of by a status that is another's: the     *)
(* panel keeps the recovery's status when it clears a session; or another  *)
(* account's session cleared with it.                                      *)
LetGo(s) ==
    overlapped' = (overlapped \/ Crowds(s)
                              \/ (ui.recovery.of \notin {None, s.recovery} /\ Open(s.recovery))
                              \/ (Owner(s) # address /\ Open(s.id)))

(* The button "Review remaining USDC" (885-897).                           *)
ReviewRemaining ==
    /\ ui.session.recovery # None /\ ui.recovery.state \in RecoveryOver /\ ui.status.leftover
    /\ LET retry == [ui.session EXCEPT !.recovery = None]
       IN  /\ stored' = retry
           /\ ui' = [ui EXCEPT !.session = retry, !.recovery = NoRecovery]
           /\ LetGo(ui.session)
    /\ UNCHANGED <<address, op, recent, auroraVars, lostHash, upsets>>

RecoveryDone_as_unasked(s) == TRUE
RecoveryDone(s) == s.recovery = None \/ ui.recovery.state \in RecoveryOver

(* clearSession, behind "Start another deposit" (958-968).                 *)
StartAnother ==
    /\ ui.session # NoSession /\ ui.status.state \in Over /\ RecoveryDone(ui.session)
    /\ recent' = IF Terminal(ui.status.state, ui.status.minted)
                 THEN [ui.session EXCEPT !.settled = TRUE] ELSE recent
    /\ stored' = NoSession /\ LetGo(ui.session)
    /\ ui' = [FreshUi EXCEPT !.recovery = ui.recovery]
    /\ UNCHANGED <<address, op, auroraVars, lostHash, upsets>>

ViewDetails ==
    /\ ui.session = NoSession /\ recent # NoSession /\ Owner(recent) = address
    /\ ui' = [ui EXCEPT !.session = recent, !.status = NoStatus, !.restored = None]
    /\ UNCHANGED <<address, op, stored, recent, auroraVars, lostHash, overlapped, upsets>>

-----------------------------------------------------------------------------
(* External: the source chain and Aurora.                                  *)
Paid(id)    == \E i \in DOMAIN txs[id] : txs[id][i] = "ok"
InFlight(id) == \E i \in DOMAIN txs[id] : txs[id][i] # "reverted"
Becomes(id, state) == exec' = [exec EXCEPT ![id].state = state]
Pending(id) == exec[id].state = "DEPOSIT_PENDING"

Mined(id) ==
    /\ \E i \in DOMAIN txs[id], outcome \in {"ok", "reverted"} :
          /\ txs[id][i] = "pending"
          /\ txs' = [txs EXCEPT ![id][i] = outcome]
    /\ UNCHANGED <<exec, held>>

Deadline(id) ==
    /\ exec[id].kind = "deposit" /\ Pending(id) /\ exec[id].live
    /\ exec' = [exec EXCEPT ![id].live = FALSE]
    /\ UNCHANGED <<txs, held>>

(* Not funded or not signed in time.                                       *)
Expire(id) ==
    /\ Pending(id) /\ (exec[id].kind = "deposit" => ~exec[id].live)
    /\ ~(exec[id].signed /\ (exec[id].kind = "deposit" => Paid(id)))
    /\ Becomes(id, "EXPIRED")
    /\ UNCHANGED <<txs, held>>

(* The route brings the money to the intermediary, or refunds it.          *)
Route(id) ==
    /\ exec[id].kind = "deposit" /\ Pending(id) /\ exec[id].signed /\ Paid(id)
    /\ \/ Becomes(id, "DEPOSIT_FAILED") /\ UNCHANGED held
       \/ \E s \in Surpluses :
             /\ Becomes(id, "OPERATION_PENDING")
             /\ held' = [held EXCEPT ![exec[id].acct] = @ + MinOut + s]
    /\ UNCHANGED txs

(* The signed calls run: all of them or none.                              *)
Operate(id) ==
    LET a    == exec[id].acct
        cost == exec[id].amount + IF exec[id].kind = "recovery" THEN Fee ELSE 0
    IN  /\ \/ exec[id].state = "OPERATION_PENDING"
           \/ exec[id].kind = "recovery" /\ Pending(id) /\ exec[id].signed
        /\ \/ /\ cost <= held[a]
              /\ held' = [held EXCEPT ![a] = @ - cost]
              /\ Becomes(id, "SUCCESS")
           \/ /\ exec' = [exec EXCEPT ![id].state = "OPERATION_FAILED", ![id].short = cost > held[a]]
              /\ UNCHANGED held
        /\ UNCHANGED txs

Aurora ==
    /\ \E id \in Executions :
          Mined(id) \/ Deadline(id) \/ Expire(id) \/ Route(id) \/ Operate(id)
    /\ UNCHANGED <<address, ui, op, stored, recent, lostHash, overlapped, upsets>>

DepositNext ==
    \/ Reload \/ \E a \in Accounts : SwitchAccount(a)
    \/ Review \/ Start \/ Create \/ Continue \/ Sign \/ Send
    \/ HashComes \/ Receipt
    \/ Poll \/ PollRecovery \/ StartRecovery \/ CreateRecovery \/ SignRecovery
    \/ ResumeRecovery \/ ReviewRemaining \/ StartAnother \/ ViewDetails
    \/ Aurora

DepositSpec == DepositInit /\ [][DepositNext]_depositVars

-----------------------------------------------------------------------------
(* Money is sent once per execution: only a page that lost the wallet's    *)
(* answer may offer to send again, or one that dropped a session before it *)
(* was over and comes back to an older copy (400-437, 939-947).            *)
NoSecondTransfer ==
    \A id \in Executions \ lostHash :
        overlapped \/ \A i, j \in DOMAIN txs[id] :
            i # j => "reverted" \in {txs[id][i], txs[id][j]}

(* No money leaves before Aurora holds the signature that lets it use the  *)
(* money, over every retry, resumption and reload (394-421).               *)
MoneyFollowsSignature == \A id \in Executions : txs[id] # <<>> => exec[id].signed

(* A deposit that money was sent for stays in storage, so that any reload  *)
(* finds it, until it is over; unless another account's took the one slot. *)
InFlightIsRemembered ==
    \A id \in Executions :
        exec[id].kind = "deposit" /\ InFlight(id) /\ Open(id) => stored.id = id \/ overlapped

(* The vault call has its amount fixed when the execution is made, the     *)
(* leftover of earlier routes counted in: by the time it runs nothing else *)
(* has spent that leftover, unless a session was let go while a recovery   *)
(* or a deposit of its own was under way (server.ts 217-240, 958-968).     *)
VaultCallCovered == \A id \in Executions : exec[id].short => overlapped
=============================================================================
