--------------------------- MODULE AutomationRunner ---------------------------
(***************************************************************************)
(* What decides when a run of the pipeline starts, and what watches the    *)
(* hedge afterwards (automationRunner.ts).  A tick reads the config once,  *)
(* scans the blocks behind its cursor, opens runs, advances them by one    *)
(* step and looks at the liquidation buffer; ticks of one process do not   *)
(* overlap.  Between any two awaits of a tick the chain, the admin and the *)
(* market move, and the tick may be cut short by a throw or by a crash.    *)
(*                                                                         *)
(* FlowEngine.tla is the inside of a run; here a run is a document with a  *)
(* stage.                                                                  *)
(***************************************************************************)
EXTENDS Integers, FiniteSets

CONSTANTS
    CHUNK,              \* blocks per eth_getLogs (100 in the code)
    MAX_CHUNKS,         \* chunks per tick (20 in the code)
    Threshold,          \* idle USDC below which no run starts
    Configs,            \* what the admin may choose: [enabled, period]
    Faults              \* what may go wrong, out of FaultKinds

CONSTANTS               \* bounds of a run
    MaxHead,            \* the last block
    MaxHalfDay,         \* the last half day
    MaxIdle,            \* idle USDC
    FailBound           \* ticks cut short

Periods    == {"deposit", "12h", "24h"}
FaultKinds == {
    "cut",       \* a throw or a crash ends the tick, or its unbond fails
    "feedFails", \* the write to the feed fails, which is only logged
    "lag",       \* the node that answers is a block behind
    "review" }   \* a run is left waiting for a person, and still running

ASSUME RunnerAssumption ==
    /\ CHUNK \in Nat \ {0} /\ MAX_CHUNKS \in Nat /\ Threshold \in Nat \ {0}
    /\ Configs \subseteq [enabled : BOOLEAN, period : Periods]
    /\ MaxHead \in Nat \ {0}
    /\ {MaxHalfDay, MaxIdle, FailBound} \subseteq Nat
    /\ Faults \subseteq FaultKinds

VARIABLES
    head, deposits,         \* the chain: its height, the blocks with a Deposit log
    idle,                   \* USDC the vault can deploy
    staked, dip, halfDay,   \* is MON staked; is the buffer at the level; the clock
    config,                 \* the admin's document
    cursor,                 \* the last block scanned, 0 before the first scan
    cooling,                \* lastUnbondAt is less than an hour ago
    activity,               \* the blocks whose deposit is on the feed
    flows,                  \* the runs, by trigger key
    job,                    \* the tick
    failures                \* bound only

worldVars == <<head, deposits, idle, staked, dip, halfDay, config>>
storeVars == <<cursor, cooling, activity, flows>>
vars      == <<worldVars, storeVars, job, failures>>

Blocks == 1 .. MaxHead

(* windowKey, and the key of a deposit's log.                              *)
DepositKey(b) == <<"deposit", b>>
WindowKey(p)  == <<p, IF p = "12h" THEN halfDay ELSE halfDay \div 2>>
Keys == ({"deposit"} \X Blocks) \cup ({"12h", "24h"} \X (0 .. MaxHalfDay))

(* The stages of a run: none yet, nothing spent, USDC swapped, MON staked, *)
(* waiting for a person, over.                                             *)
Active == {"fresh", "spent", "staked", "review"}
Over   == {"done", "failed"}
NoFlow == [stage |-> "none", usdcIn |-> 0]

Running == {k \in Keys : flows[k].stage \in Active}

Resting == [at |-> "resting", cfg |-> [enabled |-> FALSE, period |-> "deposit"],
            from |-> 0, to |-> 0, ceiling |-> 0, logs |-> {},
            trigger |-> "deposit", key |-> DepositKey(1), idle |-> 0, todo |-> {}]

Init ==
    /\ head = 1 /\ deposits = {}
    /\ idle = 0 /\ staked = FALSE /\ dip = FALSE /\ halfDay = 0
    /\ config \in Configs
    /\ cursor = 0 /\ cooling = FALSE /\ activity = {}
    /\ flows = [k \in Keys |-> NoFlow]
    /\ job = Resting
    /\ failures = 0

-----------------------------------------------------------------------------
(***************************************************************************)
(* The world around a tick                                                 *)
(***************************************************************************)
NewBlock(withDeposit) ==
    /\ head < MaxHead
    /\ withDeposit => idle < MaxIdle
    /\ head' = head + 1
    /\ deposits' = IF withDeposit THEN deposits \cup {head + 1} ELSE deposits
    /\ idle' = IF withDeposit THEN idle + 1 ELSE idle
    /\ UNCHANGED <<staked, dip, halfDay, config, storeVars, job, failures>>

(* A redemption takes idle USDC out again.                                 *)
Redeem ==
    /\ idle > 0
    /\ idle' = idle - 1
    /\ UNCHANGED <<head, deposits, staked, dip, halfDay, config, storeVars, job, failures>>

BufferMoves ==
    /\ dip' = ~dip
    /\ UNCHANGED <<head, deposits, idle, staked, halfDay, config, storeVars, job, failures>>

HalfDayPasses ==
    /\ halfDay < MaxHalfDay
    /\ halfDay' = halfDay + 1
    /\ UNCHANGED <<head, deposits, idle, staked, dip, config, storeVars, job, failures>>

CooldownEnds ==
    /\ cooling
    /\ cooling' = FALSE
    /\ UNCHANGED <<worldVars, cursor, activity, flows, job, failures>>

WriteConfig(c) ==
    /\ config' = c
    /\ UNCHANGED <<head, deposits, idle, staked, dip, halfDay, storeVars, job, failures>>

-----------------------------------------------------------------------------
(***************************************************************************)
(* scanVaultEvents                                                         *)
(***************************************************************************)
At(place) == job.at = place

(* The next part of tick(), which remembers nothing of the last but cfg.   *)
Enter(place) == [Resting EXCEPT !.at = place, !.cfg = job.cfg]

(* Only the tick moves: nothing is written.                                *)
JobOnly == UNCHANGED <<worldVars, storeVars, failures>>

StartTick ==
    /\ At("resting")
    /\ job' = [Resting EXCEPT !.at = "scan", !.cfg = config]
    /\ JobOnly

Heads == {head} \cup (IF "lag" \in Faults /\ head > 1 THEN {head - 1} ELSE {})

Smaller(a, b) == IF a <= b THEN a ELSE b

(* A fresh install starts at the head; a head behind the cursor pulls the  *)
(* cursor back to it.                                                      *)
Scan ==
    /\ At("scan")
    /\ \E h \in Heads :
          LET from == IF cursor = 0 THEN h ELSE cursor + 1
          IN  IF from > h
              THEN /\ cursor' = h
                   /\ job' = Enter("periodic")
              ELSE /\ job' = [job EXCEPT !.at = "fetch", !.from = from,
                                         !.ceiling = Smaller(h, from + CHUNK * MAX_CHUNKS)]
                   /\ UNCHANGED cursor
    /\ UNCHANGED <<worldVars, cooling, activity, flows, failures>>

FetchLogs ==
    /\ At("fetch")
    /\ LET to == Smaller(job.from + CHUNK - 1, job.ceiling)
       IN  job' = [job EXCEPT !.at = "log", !.to = to, !.logs = deposits \cap (job.from .. to)]
    /\ JobOnly

NextLog(b) == b \in job.logs /\ \A c \in job.logs : b <= c

(* Definitions named _as_... are never used by the specification: each is   *)
(* the definition below it with a plausible bug.                            *)
RecordLog_as_runs_only(b) ==
    /\ At("log") /\ NextLog(b)
    /\ IF job.cfg.enabled /\ job.cfg.period = "deposit"
       THEN /\ job' = [job EXCEPT !.at = "readIdle", !.trigger = "deposit",
                                  !.key = DepositKey(b), !.logs = @ \ {b}]
            /\ activity' = activity \cup {b}
       ELSE /\ job' = [job EXCEPT !.logs = @ \ {b}]
            /\ UNCHANGED activity
    /\ UNCHANGED <<worldVars, cursor, cooling, flows, failures>>

(* Every deposit goes on the feed; it is a trigger if the tick's config    *)
(* says so.                                                                *)
RecordLog(b) ==
    /\ At("log") /\ NextLog(b)
    /\ \/ activity' = activity \cup {b}
       \/ "feedFails" \in Faults /\ UNCHANGED activity
    /\ job' = IF job.cfg.enabled /\ job.cfg.period = "deposit"
              THEN [job EXCEPT !.at = "readIdle", !.trigger = "deposit",
                               !.key = DepositKey(b), !.logs = @ \ {b}]
              ELSE [job EXCEPT !.logs = @ \ {b}]
    /\ UNCHANGED <<worldVars, cursor, cooling, flows, failures>>

(* The cursor is written once per chunk, behind all of its logs.           *)
SaveCursor ==
    /\ At("log") /\ job.logs = {}
    /\ cursor' = job.to
    /\ job' = IF job.to < job.ceiling
              THEN [Enter("fetch") EXCEPT !.from = job.to + 1, !.ceiling = job.ceiling]
              ELSE Enter("periodic")
    /\ UNCHANGED <<worldVars, cooling, activity, flows, failures>>

-----------------------------------------------------------------------------
(***************************************************************************)
(* Starting a run, for a deposit or for a window                           *)
(***************************************************************************)

(* A tick goes on behind a trigger with the next log, or with the runs.    *)
Onward ==
    IF job.trigger = "deposit" THEN [job EXCEPT !.at = "log", !.key = Resting.key, !.idle = 0]
                               ELSE Enter("flows")

(* The end of tick() when disabled, and runPeriodic.                       *)
Periodic ==
    /\ At("periodic")
    /\ job' = IF ~job.cfg.enabled THEN Resting
              ELSE IF job.cfg.period = "deposit" THEN Enter("flows")
              ELSE [Enter("readIdle") EXCEPT !.trigger = job.cfg.period]
    /\ JobOnly

ReadIdle ==
    /\ At("readIdle")
    /\ job' = IF idle < Threshold THEN Onward
              ELSE [job EXCEPT !.at = "checkActive", !.idle = idle]
    /\ JobOnly

CheckActive_as_unchecked ==
    /\ At("checkActive")
    /\ job' = [job EXCEPT !.at = "insert",
                          !.key = IF job.trigger = "deposit" THEN @ ELSE WindowKey(job.trigger)]
    /\ JobOnly

(* One run at a time.                                                      *)
CheckActive ==
    /\ At("checkActive")
    /\ job' = IF Running # {} THEN Onward
              ELSE [job EXCEPT !.at = "insert",
                               !.key = IF job.trigger = "deposit" THEN @
                                                                  ELSE WindowKey(job.trigger)]
    /\ JobOnly

StartFlow_as_upsert ==
    /\ At("insert")
    /\ flows' = [flows EXCEPT ![job.key] = [stage |-> "fresh", usdcIn |-> job.idle]]
    /\ job' = Onward
    /\ UNCHANGED <<worldVars, cursor, cooling, activity, failures>>

(* The database refuses a second document under the same key.              *)
StartFlow ==
    /\ At("insert")
    /\ flows' = IF flows[job.key].stage # "none" THEN flows
                ELSE [flows EXCEPT ![job.key] = [stage |-> "fresh", usdcIn |-> job.idle]]
    /\ job' = Onward
    /\ UNCHANGED <<worldVars, cursor, cooling, activity, failures>>

-----------------------------------------------------------------------------
(***************************************************************************)
(* tickFlows: every running flow moves by at most one step                 *)
(***************************************************************************)
ListFlows ==
    /\ At("flows")
    /\ job' = [Resting EXCEPT !.at = "advance", !.todo = Running]
    /\ JobOnly

FlowGoes(k, stage) == flows' = [flows EXCEPT ![k].stage = stage]

(* What a run does to the vault, one stage at a time.  Its other steps     *)
(* leave the idle USDC and the stake alone, as does a run in review or one *)
(* whose step throws (tickFlows).                                          *)
Spend(k) ==
    /\ flows[k].stage = "fresh" /\ flows[k].usdcIn <= idle
    /\ idle' = idle - flows[k].usdcIn
    /\ FlowGoes(k, "spent") /\ UNCHANGED staked

Stake(k) ==
    /\ flows[k].stage = "spent"
    /\ staked' = TRUE
    /\ FlowGoes(k, "staked") /\ UNCHANGED idle

EndFlow(k) ==
    /\ \/ flows[k].stage = "staked" /\ FlowGoes(k, "done")
       \/ flows[k].stage # "review" /\ FlowGoes(k, "failed")
       \/ "review" \in Faults /\ FlowGoes(k, "review")
       \/ UNCHANGED flows
    /\ UNCHANGED <<idle, staked>>

AdvanceFlow(k) ==
    /\ At("advance") /\ k \in job.todo
    /\ Spend(k) \/ Stake(k) \/ EndFlow(k)
    /\ job' = [job EXCEPT !.todo = @ \ {k}]
    /\ UNCHANGED <<head, deposits, dip, halfDay, config, cursor, cooling, activity, failures>>

-----------------------------------------------------------------------------
(***************************************************************************)
(* watchLiquidationBuffer                                                  *)
(***************************************************************************)
WatchBuffer_as_between_runs ==
    /\ At("advance") /\ job.todo = {}
    /\ job' = IF dip /\ ~cooling /\ staked /\ Running = {}
              THEN [job EXCEPT !.at = "mark"] ELSE Resting
    /\ JobOnly

WatchBuffer ==
    /\ At("advance") /\ job.todo = {}
    /\ job' = IF dip /\ ~cooling /\ staked THEN [job EXCEPT !.at = "mark"] ELSE Resting
    /\ JobOnly

(* lastUnbondAt is written before the send.                                *)
MarkUnbond ==
    /\ At("mark")
    /\ cooling' = TRUE
    /\ job' = [job EXCEPT !.at = "unbond"]
    /\ UNCHANGED <<worldVars, cursor, activity, flows, failures>>

Unbond ==
    /\ At("unbond")
    /\ staked' = FALSE
    /\ job' = Resting
    /\ UNCHANGED <<head, deposits, idle, dip, halfDay, config, storeVars, failures>>

-----------------------------------------------------------------------------
(* A throw that reaches tick's catch, a crash, or a failed unbond: the     *)
(* tick is over and what it had written stays.                             *)
CutShort ==
    /\ "cut" \in Faults /\ failures < FailBound
    /\ ~At("resting")
    /\ failures' = failures + 1
    /\ job' = Resting
    /\ UNCHANGED <<worldVars, storeVars>>

TickNext ==
    \/ StartTick \/ Scan \/ FetchLogs \/ SaveCursor
    \/ \E b \in Blocks : RecordLog(b)
    \/ Periodic \/ ReadIdle \/ CheckActive \/ StartFlow
    \/ ListFlows \/ \E k \in Keys : AdvanceFlow(k)
    \/ WatchBuffer \/ MarkUnbond \/ Unbond

WorldNext ==
    \/ \E withDeposit \in BOOLEAN : NewBlock(withDeposit)
    \/ Redeem \/ BufferMoves \/ HalfDayPasses \/ CooldownEnds
    \/ \E c \in Configs : WriteConfig(c)

Next == TickNext \/ WorldNext \/ CutShort

Spec == Init /\ [][Next]_vars

(* A tick every 20 seconds, none of whose awaits hangs, and hours that     *)
(* pass.                                                                   *)
FairSpec == Spec /\ WF_vars(TickNext) /\ WF_vars(CooldownEnds)

-----------------------------------------------------------------------------
(***************************************************************************)
(* Properties                                                              *)
(***************************************************************************)
Places == {"resting", "scan", "fetch", "log", "periodic", "readIdle", "checkActive",
           "insert", "flows", "advance", "mark", "unbond"}

Jobs == [at : Places, cfg : [enabled : BOOLEAN, period : Periods],
         from : Nat, to : 0 .. MaxHead, ceiling : 0 .. MaxHead, logs : SUBSET Blocks,
         trigger : Periods, key : Keys, idle : Nat, todo : SUBSET Keys]

(* Every variable has its type.                                            *)
TypeOK ==
    /\ head \in Blocks /\ deposits \subseteq Blocks
    /\ idle \in Nat
    /\ staked \in BOOLEAN /\ dip \in BOOLEAN /\ halfDay \in 0 .. MaxHalfDay
    /\ config \in Configs
    /\ cursor \in 0 .. MaxHead /\ cooling \in BOOLEAN /\ activity \subseteq Blocks
    /\ flows \in [Keys -> [stage : Active \cup Over \cup {"none"}, usdcIn : Nat]]
    /\ job \in Jobs
    /\ failures \in Nat

(* "One run at a time" (107): two would both allocate the same idle USDC.  *)
OneRunAtATime == \A k, l \in Running : k = l

(* "The same deposit or the same time window can never start two runs"     *)
(* (18-19): not after a crash, a replayed range or a cursor pulled back.   *)
RunsNeverRestart ==
    [][\A k \in Keys :
          /\ flows[k].stage \in Over => flows'[k] = flows[k]
          /\ flows[k].stage # "none" => flows'[k].usdcIn = flows[k].usdcIn]_vars

(* The cursor never passes a deposit that is not on the feed: a cut in the *)
(* middle of a range replays it and loses nothing (57-61).  A failed write *)
(* to the feed does lose its line: it never stops the scan (86).           *)
NothingSkipped ==
    [][cursor > 0 /\ cursor' > cursor
       => deposits \cap (cursor + 1 .. cursor') \subseteq activity']_vars

(* A short close to liquidation is answered by an unbond, whatever the     *)
(* runs are doing and although a cut or a failed send costs an hour        *)
(* (155-159, 195).                                                         *)
DipIsAnswered ==
    (dip /\ staked /\ config.enabled) ~> (~dip \/ ~staked \/ ~config.enabled)
=============================================================================
