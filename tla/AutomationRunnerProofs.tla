------------------------ MODULE AutomationRunnerProofs ------------------------
(***************************************************************************)
(* Theorems about AutomationRunner, for any chunk sizes, threshold, set of *)
(* configs, faults and bounds.                                             *)
(***************************************************************************)
EXTENDS AutomationRunner, TLAPS

USE DEF Blocks, Periods, Active, Over

LEMMA KeysOf ==
    ASSUME halfDay \in 0 .. MaxHalfDay
    PROVE  /\ \A b \in Blocks : DepositKey(b) \in Keys
           /\ \A p \in {"12h", "24h"} : WindowKey(p) \in Keys
  BY RunnerAssumption DEF RunnerAssumption, DepositKey, WindowKey, Keys

LEMMA RestingTyped == Resting \in Jobs
  BY RunnerAssumption DEF Resting, Jobs, Places, DepositKey, Keys

(***************************************************************************)
(* Types                                                                   *)
(***************************************************************************)
LEMMA TypeInit == Init => TypeOK
  <1> SUFFICES ASSUME Init PROVE TypeOK  OBVIOUS
  <1> USE RunnerAssumption DEF RunnerAssumption
  <1>1. job \in Jobs  BY RestingTyped DEF Init
  <1>2. NoFlow \in [stage : Active \cup Over \cup {"none"}, usdcIn : Nat]  BY DEF NoFlow
  <1>3. flows \in [Keys -> [stage : Active \cup Over \cup {"none"}, usdcIn : Nat]]
    BY <1>2 DEF Init
  <1>4. /\ head \in Blocks /\ deposits \subseteq Blocks /\ activity \subseteq Blocks
        /\ halfDay \in 0 .. MaxHalfDay /\ cursor \in 0 .. MaxHead
    BY DEF Init
  <1> QED  BY <1>1, <1>3, <1>4 DEF Init, TypeOK

LEMMA EnterTyped ==
    ASSUME job \in Jobs, NEW place \in Places
    PROVE  /\ Enter(place) = [Resting EXCEPT !.at = place, !.cfg = job.cfg]
           /\ Enter(place) \in Jobs
  BY RestingTyped DEF Jobs, Enter, Resting

LEMMA OnwardTyped ==
    ASSUME job \in Jobs
    PROVE  Onward \in Jobs
  <1>1. "flows" \in Places /\ "log" \in Places  BY DEF Places
  <1>2. Resting.key \in Keys  BY RestingTyped DEF Jobs
  <1>3. CASE job.trigger = "deposit"  BY <1>1, <1>2, <1>3 DEF Jobs, Onward
  <1>4. CASE job.trigger # "deposit"  BY <1>1, <1>4, EnterTyped DEF Onward
  <1> QED  BY <1>3, <1>4

LEMMA TypeStep == TypeOK /\ [Next]_vars => TypeOK'
  <1> SUFFICES ASSUME TypeOK, [Next]_vars PROVE TypeOK'  OBVIOUS
  <1> USE RunnerAssumption DEF RunnerAssumption, worldVars, storeVars, At, JobOnly
  <1>j. job \in Jobs  BY DEF TypeOK
  <1>k. /\ \A b \in Blocks : DepositKey(b) \in Keys
        /\ \A p \in {"12h", "24h"} : WindowKey(p) \in Keys
    BY KeysOf DEF TypeOK
  <1>r. (job' \in Jobs) => (UNCHANGED <<worldVars, storeVars, failures>> => TypeOK')
    BY DEF TypeOK, Jobs
  <1>s. (job' = Resting) => (job' \in Jobs)  BY RestingTyped DEF Jobs
  <1>p. /\ "scan" \in Places /\ "fetch" \in Places /\ "log" \in Places /\ "periodic" \in Places
        /\ "readIdle" \in Places /\ "checkActive" \in Places /\ "insert" \in Places
        /\ "flows" \in Places /\ "advance" \in Places /\ "mark" \in Places /\ "unbond" \in Places
    BY DEF Places
  <1>1. CASE StartTick
    <2>1. (job' \in Jobs)  BY <1>1, <1>p, RestingTyped DEF StartTick, Jobs, TypeOK, Resting
    <2> QED  BY <2>1, <1>1, <1>r DEF StartTick
  <1>2. CASE Scan
    <2>1. PICK h \in Heads :
             LET from == IF cursor = 0 THEN h ELSE cursor + 1
             IN  IF from > h
                 THEN /\ cursor' = h
                      /\ job' = Enter("periodic")
                 ELSE /\ job' = [job EXCEPT !.at = "fetch", !.from = from,
                                            !.ceiling = Smaller(h, from + CHUNK * MAX_CHUNKS)]
                      /\ UNCHANGED cursor
      BY <1>2 DEF Scan
    <2>2. h \in Blocks  BY DEF Heads, TypeOK
    <2> DEFINE from == IF cursor = 0 THEN h ELSE cursor + 1
    <2>3. from \in Nat /\ CHUNK * MAX_CHUNKS \in Nat  BY <2>2 DEF TypeOK
    <2>4. Smaller(h, from + CHUNK * MAX_CHUNKS) \in 0 .. MaxHead  BY <2>2, <2>3 DEF Smaller
    <2>5. (job' \in Jobs) /\ cursor' \in 0 .. MaxHead
      <3>1. CASE from > h
        <4>1. cursor' = h /\ job' = Enter("periodic")  BY <2>1, <3>1
        <4>2. Enter("periodic") \in Jobs  BY <1>j, <1>p, EnterTyped
        <4> QED  BY <2>2, <4>1, <4>2
      <3>2. CASE ~(from > h)
        <4>1. job' = [job EXCEPT !.at = "fetch", !.from = from,
                                 !.ceiling = Smaller(h, from + CHUNK * MAX_CHUNKS)]
              /\ UNCHANGED cursor
          BY <2>1, <3>2
        <4> HIDE DEF from
        <4> QED  BY <2>3, <2>4, <4>1, <1>j, <1>p DEF Jobs, TypeOK
      <3> QED  BY <3>1, <3>2
    <2> QED  BY <2>5, <1>2 DEF Scan, TypeOK, Jobs
  <1>3. CASE FetchLogs
    <2>1. Smaller(job.from + CHUNK - 1, job.ceiling) \in 0 .. MaxHead
      BY <1>j DEF Jobs, Smaller
    <2>2. (job' \in Jobs)
      <3> DEFINE to == Smaller(job.from + CHUNK - 1, job.ceiling)
      <3>1. job' = [job EXCEPT !.at = "log", !.to = to, !.logs = deposits \cap (job.from .. to)]
        BY <1>3 DEF FetchLogs
      <3>2. to \in 0 .. MaxHead /\ deposits \cap (job.from .. to) \in SUBSET Blocks
        BY <2>1 DEF TypeOK
      <3> HIDE DEF to
      <3> QED  BY <3>1, <3>2, <1>j, <1>p DEF Jobs
    <2> QED  BY <2>2, <1>3, <1>r DEF FetchLogs
  <1>4. ASSUME NEW b \in Blocks, RecordLog(b)  PROVE TypeOK'
    <2>1. (job' \in Jobs)  BY <1>4, <1>j, <1>k, <1>p DEF RecordLog, Jobs
    <2>2. activity' \subseteq Blocks  BY <1>4 DEF RecordLog, TypeOK
    <2> QED  BY <2>1, <2>2, <1>4 DEF RecordLog, TypeOK, Jobs
  <1>5. CASE SaveCursor
    <2>1. (job' \in Jobs)
      <3>1. CASE job.to < job.ceiling
        <4>1. job' = [Enter("fetch") EXCEPT !.from = job.to + 1, !.ceiling = job.ceiling]
          BY <1>5, <3>1 DEF SaveCursor
        <4>2. Enter("fetch") \in Jobs
          BY <1>j, <1>p, EnterTyped
        <4>3. job.to + 1 \in Nat /\ job.ceiling \in 0 .. MaxHead  BY <1>j DEF Jobs
        <4> QED  BY <4>1, <4>2, <4>3 DEF Jobs
      <3>2. CASE ~(job.to < job.ceiling)
        BY <1>5, <3>2, <1>j, <1>p, EnterTyped DEF SaveCursor, Jobs
      <3> QED  BY <3>1, <3>2
    <2>2. cursor' \in 0 .. MaxHead  BY <1>5, <1>j DEF SaveCursor, Jobs
    <2> QED  BY <2>1, <2>2, <1>5 DEF SaveCursor, TypeOK, Jobs
  <1>6. CASE Periodic
    <2>1. (job' \in Jobs)
      <3>1. CASE ~job.cfg.enabled  BY <1>6, <3>1, <1>s DEF Periodic
      <3>2. CASE job.cfg.enabled /\ job.cfg.period = "deposit"
        <4>1. job' = Enter("flows")  BY <1>6, <3>2 DEF Periodic
        <4> QED  BY <4>1, <1>j, <1>p, EnterTyped
      <3>3. CASE job.cfg.enabled /\ job.cfg.period # "deposit"
        <4>1. job' = [Enter("readIdle") EXCEPT !.trigger = job.cfg.period]
          BY <1>6, <3>3 DEF Periodic
        <4>2. job.cfg.period \in Periods  BY <1>j DEF Jobs
        <4> QED  BY <4>1, <4>2, <1>j, <1>p, EnterTyped DEF Jobs
      <3> QED  BY <3>1, <3>2, <3>3, <1>j DEF Jobs
    <2> QED  BY <2>1, <1>6, <1>r DEF Periodic
  <1>7. CASE ReadIdle
    <2>1. (job' \in Jobs)
      <3>1. CASE idle < Threshold  BY <1>7, <3>1, <1>j, OnwardTyped DEF ReadIdle, Jobs
      <3>2. CASE ~(idle < Threshold)
        BY <1>7, <3>2, <1>j, <1>p DEF ReadIdle, Jobs, TypeOK
      <3> QED  BY <3>1, <3>2
    <2> QED  BY <2>1, <1>7, <1>r DEF ReadIdle
  <1>8. CASE CheckActive
    <2>1. (job' \in Jobs)
      <3>1. CASE Running # {}  BY <1>8, <3>1, <1>j, OnwardTyped DEF CheckActive, Jobs
      <3>2. CASE Running = {}
        <4> DEFINE key == IF job.trigger = "deposit" THEN job.key ELSE WindowKey(job.trigger)
        <4>1. key \in Keys  BY <1>j, <1>k DEF Jobs
        <4>2. job' = [job EXCEPT !.at = "insert", !.key = key]
          BY <1>8, <3>2 DEF CheckActive
        <4> HIDE DEF key
        <4> QED  BY <4>1, <4>2, <1>j, <1>p DEF Jobs
      <3> QED  BY <3>1, <3>2
    <2> QED  BY <2>1, <1>8, <1>r DEF CheckActive
  <1>9. CASE StartFlow
    <2>1. (job' \in Jobs)  BY <1>9, <1>j, OnwardTyped DEF StartFlow, Jobs
    <2>2. flows' \in [Keys -> [stage : Active \cup Over \cup {"none"}, usdcIn : Nat]]
      BY <1>9, <1>j DEF StartFlow, Jobs, TypeOK
    <2> QED  BY <2>1, <2>2, <1>9 DEF StartFlow, TypeOK, Jobs
  <1>10. CASE ListFlows
    <2>1. Running \in SUBSET Keys  BY DEF Running
    <2>2. (job' \in Jobs)  BY <2>1, <1>10, <1>p, RestingTyped DEF ListFlows, Jobs
    <2> QED  BY <2>2, <1>10, <1>r DEF ListFlows
  <1>11. ASSUME NEW k \in Keys, AdvanceFlow(k)  PROVE TypeOK'
    <2>1. (job' \in Jobs)  BY <1>11, <1>j DEF AdvanceFlow, Jobs
    <2> DEFINE Docs == [stage : Active \cup Over \cup {"none"}, usdcIn : Nat]
    <2>3. flows \in [Keys -> Docs] /\ flows[k] \in Docs  BY <1>11 DEF TypeOK
    <2>4. ASSUME NEW stage \in Active \cup Over, FlowGoes(k, stage)
          PROVE  flows' \in [Keys -> Docs]
      <3>1. [flows[k] EXCEPT !.stage = stage] \in Docs  BY <2>3, <2>4
      <3> QED  BY <2>3, <2>4, <3>1 DEF FlowGoes
    <2>2. flows' \in [Keys -> Docs] /\ idle' \in Nat /\ staked' \in BOOLEAN
      <3>1. CASE Spend(k)
        <4>1. idle' \in Nat  BY <2>3, <3>1 DEF Spend, TypeOK
        <4> QED  BY <3>1, <4>1, <2>4 DEF Spend, TypeOK
      <3>2. CASE Stake(k)  BY <3>2, <2>4 DEF Stake, TypeOK
      <3>3. CASE EndFlow(k)
        <4>1. idle' \in Nat /\ staked' \in BOOLEAN  BY <3>3 DEF EndFlow, TypeOK
        <4>2. flows' \in [Keys -> Docs]  BY <3>3, <2>3, <2>4 DEF EndFlow
        <4> QED  BY <4>1, <4>2
      <3> QED  BY <1>11, <3>1, <3>2, <3>3 DEF AdvanceFlow
    <2> QED  BY <2>1, <2>2, <1>11 DEF AdvanceFlow, TypeOK, Jobs
  <1>12. CASE WatchBuffer
    <2>1. (job' \in Jobs)  BY <1>12, <1>j, <1>s, <1>p DEF WatchBuffer, Jobs
    <2> QED  BY <2>1, <1>12, <1>r DEF WatchBuffer
  <1>13. CASE MarkUnbond
    <2>1. (job' \in Jobs)  BY <1>13, <1>j, <1>p DEF MarkUnbond, Jobs
    <2> QED  BY <2>1, <1>13 DEF MarkUnbond, TypeOK, Jobs
  <1>14. CASE Unbond  BY <1>14, <1>s DEF Unbond, TypeOK, Jobs
  <1>15. CASE CutShort  BY <1>15, <1>s DEF CutShort, TypeOK, Jobs
  <1>16. CASE WorldNext
    <2>1. ASSUME NEW withDeposit \in BOOLEAN, NewBlock(withDeposit)  PROVE TypeOK'
      <3>1. head' \in Blocks /\ deposits' \subseteq Blocks /\ idle' \in Nat
        BY <2>1 DEF NewBlock, TypeOK
      <3> QED  BY <2>1, <3>1 DEF NewBlock, TypeOK, Jobs
    <2>2. CASE Redeem  BY <2>2 DEF Redeem, TypeOK, Jobs
    <2>3. CASE BufferMoves  BY <2>3 DEF BufferMoves, TypeOK, Jobs
    <2>4. CASE HalfDayPasses
      <3>1. halfDay' \in 0 .. MaxHalfDay  BY <2>4 DEF HalfDayPasses, TypeOK
      <3> QED  BY <2>4, <3>1 DEF HalfDayPasses, TypeOK, Jobs
    <2>5. CASE CooldownEnds  BY <2>5 DEF CooldownEnds, TypeOK, Jobs
    <2>6. ASSUME NEW c \in Configs, WriteConfig(c)  PROVE TypeOK'
      BY <2>6 DEF WriteConfig, TypeOK, Jobs
    <2> QED  BY <1>16, <2>1, <2>2, <2>3, <2>4, <2>5, <2>6 DEF WorldNext
  <1>17. CASE UNCHANGED vars  BY <1>17 DEF vars, TypeOK
  <1> QED  BY <1>1, <1>2, <1>3, <1>4, <1>5, <1>6, <1>7, <1>8, <1>9, <1>10, <1>11, <1>12,
              <1>13, <1>14, <1>15, <1>16, <1>17 DEF Next, TickNext

(* Every variable of the runner always has its type, whatever the faults.  *)
THEOREM RunnerTypes == Spec => []TypeOK
  <1> QED  BY TypeInit, TypeStep, PTL DEF Spec

-----------------------------------------------------------------------------
(***************************************************************************)
(* One run at a time.  The check of CheckActive still holds at the insert  *)
(* two awaits later, because nothing but the tick opens a run and ticks do *)
(* not overlap; and the list a tick works through holds only runs that are *)
(* still running, so no step of it brings one back.                        *)
(***************************************************************************)
RunInv ==
    /\ TypeOK
    /\ OneRunAtATime
    /\ At("insert") => Running = {}
    /\ At("advance") => job.todo \subseteq Running

LEMMA RunInit == Init => RunInv
  <1> SUFFICES ASSUME Init PROVE RunInv  OBVIOUS
  <1>1. Running = {}  BY DEF Init, Running, NoFlow
  <1>2. ~At("insert") /\ ~At("advance")  BY DEF Init, Resting, At
  <1> QED  BY <1>1, <1>2, TypeInit DEF RunInv, OneRunAtATime

(* Only StartFlow and AdvanceFlow write to the runs.                       *)
LEMMA RunsAreLeftAlone ==
    ASSUME RunInv, flows' = flows, At("insert")' => Running = {},
           At("advance")' => job'.todo \subseteq Running, TypeOK'
    PROVE  RunInv'
  <1>1. Running' = Running  BY DEF Running
  <1> QED  BY <1>1 DEF RunInv, OneRunAtATime, At

LEMMA WhereNext ==
    ASSUME job \in Jobs
    PROVE  /\ Resting.at = "resting"
           /\ \A place \in Places : Enter(place).at = place
           /\ Onward.at \in {"log", "flows"}
  <1>1. Resting.at = "resting"  BY DEF Resting
  <1>2. \A place \in Places : Enter(place).at = place  BY DEF Enter, Resting
  <1>3. Onward.at \in {"log", "flows"}
    <2>1. CASE job.trigger = "deposit"
      <3>1. Onward = [job EXCEPT !.at = "log", !.key = Resting.key, !.idle = 0]
        BY <2>1 DEF Onward
      <3> QED  BY <3>1 DEF Jobs
    <2>2. CASE job.trigger # "deposit"
      <3>1. "flows" \in Places  BY DEF Places
      <3> QED  BY <1>2, <2>2, <3>1 DEF Onward
    <2> QED  BY <2>1, <2>2
  <1> QED  BY <1>1, <1>2, <1>3

(* Neither the world nor a step that is not listed here comes to an insert *)
(* or to a list of runs, or touches the runs.                              *)
LEMMA QuietSteps ==
    ASSUME RunInv,
           \/ StartTick \/ Scan \/ FetchLogs \/ SaveCursor
           \/ \E b \in Blocks : RecordLog(b)
           \/ Periodic \/ ReadIdle \/ WatchBuffer \/ MarkUnbond \/ Unbond \/ CutShort
    PROVE  flows' = flows /\ ~At("insert")' /\ ~At("advance")'
  <1> USE DEF At, JobOnly, storeVars
  <1>j. job \in Jobs  BY DEF RunInv, TypeOK
  <1>p. {"fetch", "periodic", "flows", "readIdle"} \subseteq Places  BY DEF Places
  <1>1. CASE StartTick  BY <1>1 DEF StartTick, Resting
  <1>2. CASE Scan
    <2>1. job'.at \in {"periodic", "fetch"}
      <3>1. CASE job' = Enter("periodic")  BY <3>1, <1>j, <1>p, WhereNext
      <3>2. CASE \E f, c : job' = [job EXCEPT !.at = "fetch", !.from = f, !.ceiling = c]
        BY <3>2, <1>j DEF Jobs
      <3> QED  BY <3>1, <3>2, <1>2 DEF Scan
    <2> QED  BY <2>1, <1>2 DEF Scan
  <1>3. CASE FetchLogs  BY <1>3, <1>j DEF FetchLogs, Jobs
  <1>4. CASE SaveCursor
    <2>1. job'.at \in {"fetch", "periodic"}
      <3>1. CASE job.to < job.ceiling
        <4>1. job' = [Enter("fetch") EXCEPT !.from = job.to + 1, !.ceiling = job.ceiling]
          BY <1>4, <3>1 DEF SaveCursor
        <4>2. Enter("fetch").at = "fetch" /\ Enter("fetch") \in Jobs
          BY <1>j, <1>p, WhereNext, EnterTyped
        <4> QED  BY <4>1, <4>2 DEF Jobs
      <3>2. CASE ~(job.to < job.ceiling)
        BY <1>4, <3>2, <1>j, <1>p, WhereNext DEF SaveCursor
      <3> QED  BY <3>1, <3>2
    <2> QED  BY <2>1, <1>4 DEF SaveCursor
  <1>5. ASSUME NEW b \in Blocks, RecordLog(b)
        PROVE  flows' = flows /\ ~At("insert")' /\ ~At("advance")'
    BY <1>5, <1>j DEF RecordLog, Jobs
  <1>6. CASE Periodic
    <2>1. job'.at \in {"resting", "flows", "readIdle"}
      <3>1. CASE job' = Resting  BY <3>1 DEF Resting
      <3>2. CASE job' = Enter("flows")  BY <3>2, <1>j, <1>p, WhereNext
      <3>3. CASE job' = [Enter("readIdle") EXCEPT !.trigger = job.cfg.period]
        <4>1. Enter("readIdle").at = "readIdle" /\ Enter("readIdle") \in Jobs
          BY <1>j, <1>p, WhereNext, EnterTyped
        <4> QED  BY <3>3, <4>1 DEF Jobs
      <3> QED  BY <3>1, <3>2, <3>3, <1>6 DEF Periodic
    <2> QED  BY <2>1, <1>6 DEF Periodic
  <1>7. CASE ReadIdle
    <2>1. CASE idle < Threshold  BY <2>1, <1>7, <1>j, WhereNext DEF ReadIdle
    <2>2. CASE ~(idle < Threshold)  BY <2>2, <1>7, <1>j DEF ReadIdle, Jobs
    <2> QED  BY <2>1, <2>2
  <1>8. CASE WatchBuffer  BY <1>8, <1>j, WhereNext DEF WatchBuffer, Jobs
  <1>9. CASE MarkUnbond  BY <1>9, <1>j DEF MarkUnbond, Jobs
  <1>10. CASE Unbond  BY <1>10, <1>j, WhereNext DEF Unbond
  <1>11. CASE CutShort  BY <1>11, <1>j, WhereNext DEF CutShort
  <1> QED  BY <1>1, <1>2, <1>3, <1>4, <1>5, <1>6, <1>7, <1>8, <1>9, <1>10, <1>11

LEMMA WorldLeavesTheTick ==
    ASSUME WorldNext
    PROVE  flows' = flows /\ job' = job
  BY DEF WorldNext, NewBlock, Redeem, BufferMoves, HalfDayPasses, CooldownEnds, WriteConfig,
         storeVars

LEMMA RunStep == RunInv /\ [Next]_vars => RunInv'
  <1> SUFFICES ASSUME RunInv, [Next]_vars PROVE RunInv'  OBVIOUS
  <1> USE DEF At
  <1>t. TypeOK /\ TypeOK' /\ job \in Jobs  BY TypeStep DEF RunInv, TypeOK
  <1>1. CASE \/ StartTick \/ Scan \/ FetchLogs \/ SaveCursor
             \/ \E b \in Blocks : RecordLog(b)
             \/ Periodic \/ ReadIdle \/ WatchBuffer \/ MarkUnbond \/ Unbond \/ CutShort
    BY <1>1, <1>t, QuietSteps, RunsAreLeftAlone
  <1>2. CASE WorldNext
    BY <1>2, <1>t, WorldLeavesTheTick, RunsAreLeftAlone DEF RunInv
  <1>3. CASE CheckActive
    <2>1. CASE Running # {}
      <3>1. job'.at \in {"log", "flows"}  BY <2>1, <1>3, <1>t, WhereNext DEF CheckActive
      <3> QED  BY <3>1, <1>3, <1>t, RunsAreLeftAlone DEF CheckActive, JobOnly, storeVars
    <2>2. CASE Running = {}
      <3>1. job'.at = "insert"  BY <2>2, <1>3, <1>t DEF CheckActive, Jobs
      <3> QED  BY <2>2, <3>1, <1>3, <1>t, RunsAreLeftAlone DEF CheckActive, JobOnly, storeVars
    <2> QED  BY <2>1, <2>2
  <1>4. CASE StartFlow
    <2>1. Running = {} /\ job'.at \in {"log", "flows"}
      BY <1>4, <1>t, WhereNext DEF StartFlow, RunInv
    <2>2. Running' \subseteq {job.key}
      BY <1>4, <1>t, <2>1 DEF StartFlow, Running, TypeOK
    <2> QED  BY <2>1, <2>2, <1>t DEF RunInv, OneRunAtATime
  <1>5. CASE ListFlows
    <2>1. job'.todo = Running  BY <1>5 DEF ListFlows, Resting
    <2>2. job'.at = "advance" BY <1>5 DEF ListFlows, Resting
    <2> QED  BY <2>1, <2>2, <1>5, <1>t, RunsAreLeftAlone DEF ListFlows, JobOnly, storeVars
  <1>6. ASSUME NEW k \in Keys, AdvanceFlow(k)  PROVE RunInv'
    <2>1. k \in Running /\ job.todo \subseteq Running  BY <1>6 DEF AdvanceFlow, RunInv
    <2>2. \A l \in Keys : l # k => flows'[l] = flows[l]
      BY <1>6, <1>t DEF AdvanceFlow, Spend, Stake, EndFlow, FlowGoes, TypeOK
    <2>3. Running' \subseteq Running  BY <2>1, <2>2 DEF Running
    <2>4. Running \ {k} \subseteq Running'  BY <2>2 DEF Running
    <2>5. job'.at = "advance" /\ job'.todo = job.todo \ {k}
      BY <1>6, <1>t DEF AdvanceFlow, Jobs
    <2> QED  BY <2>1, <2>3, <2>4, <2>5, <1>t DEF RunInv, OneRunAtATime
  <1>7. CASE UNCHANGED vars
    BY <1>7, <1>t, RunsAreLeftAlone DEF vars, storeVars, RunInv
  <1> QED  BY <1>1, <1>2, <1>3, <1>4, <1>5, <1>6, <1>7 DEF Next, TickNext

(* Two runs never share the idle USDC, whatever is cut short and whenever. *)
THEOREM OneRun == Spec => []OneRunAtATime
  <1>1. RunInv => OneRunAtATime  BY DEF RunInv
  <1> QED  BY <1>1, RunInit, RunStep, PTL DEF Spec

(* A run that is over stays as it ended, and no run changes what it was    *)
(* given: no key starts twice.                                             *)
THEOREM RunsStartOnce == Spec => RunsNeverRestart
  <1>1. RunInv /\ [Next]_vars =>
          [\A k \in Keys :
             /\ flows[k].stage \in Over => flows'[k] = flows[k]
             /\ flows[k].stage # "none" => flows'[k].usdcIn = flows[k].usdcIn]_vars
    <2> SUFFICES ASSUME RunInv, Next, NEW l \in Keys
                 PROVE  /\ flows[l].stage \in Over => flows'[l] = flows[l]
                        /\ flows[l].stage # "none" => flows'[l].usdcIn = flows[l].usdcIn
      OBVIOUS
    <2> USE DEF At
    <2>t. TypeOK /\ job \in Jobs  BY DEF RunInv, TypeOK
    <2>1. CASE StartFlow  BY <2>1, <2>t DEF StartFlow, TypeOK
    <2>2. ASSUME NEW k \in Keys, AdvanceFlow(k)
          PROVE  /\ flows[l].stage \in Over => flows'[l] = flows[l]
                 /\ flows[l].stage # "none" => flows'[l].usdcIn = flows[l].usdcIn
      <3>1. k \in Running  BY <2>2 DEF AdvanceFlow, RunInv
      <3>2. \/ flows' = flows
            \/ \E stage \in Active \cup Over : flows' = [flows EXCEPT ![k].stage = stage]
        BY <2>2 DEF AdvanceFlow, Spend, Stake, EndFlow, FlowGoes
      <3>3. flows[k].stage \notin Over  BY <3>1 DEF Running
      <3> QED  BY <3>2, <3>3, <2>t DEF TypeOK
    <2>3. CASE flows' = flows  BY <2>3
    <2> QED  BY <2>1, <2>2, <2>3, QuietSteps, WorldLeavesTheTick
             DEF Next, TickNext, CheckActive, ListFlows, JobOnly, storeVars
  <1> QED  BY <1>1, RunInit, RunStep, PTL DEF Spec, RunsNeverRestart

-----------------------------------------------------------------------------
(***************************************************************************)
(* Nothing is skipped.  While a range is worked through, every deposit of  *)
(* it is on the feed or still in hand, the range begins right behind the   *)
(* cursor, and it ends at a block the chain has reached, so that no later  *)
(* block can fall into it.                                                 *)
(***************************************************************************)
Scanning ==
    \/ job.at \in {"fetch", "log"}
    \/ job.at \in {"readIdle", "checkActive", "insert"} /\ job.trigger = "deposit"

ScanInv ==
    /\ TypeOK
    /\ Scanning =>
          /\ cursor > 0 => job.from = cursor + 1
          /\ job.ceiling <= head
          /\ ~At("fetch") =>
                /\ job.to <= job.ceiling
                /\ deposits \cap (job.from .. job.to) \subseteq activity \cup job.logs

LEMMA ScanInit == Init => ScanInv
  <1> SUFFICES ASSUME Init PROVE ScanInv  OBVIOUS
  <1>1. ~Scanning  BY DEF Init, Resting, Scanning
  <1> QED  BY <1>1, TypeInit DEF ScanInv

(* A step that stays in the same range and leaves the range, the cursor    *)
(* and what is in hand alone.                                              *)
LEMMA SameRange ==
    ASSUME ScanInv, TypeOK', Scanning, ~At("fetch"), UNCHANGED <<cursor, head, deposits, activity>>,
           job'.from = job.from, job'.to = job.to, job'.ceiling = job.ceiling,
           job'.logs = job.logs
    PROVE  ScanInv'
  BY DEF ScanInv, Scanning, At

LEMMA OnwardInRange ==
    ASSUME job \in Jobs, job' = Onward
    PROVE  \/ /\ job.trigger = "deposit"
              /\ job'.at = "log"
              /\ job'.from = job.from /\ job'.to = job.to /\ job'.ceiling = job.ceiling
              /\ job'.logs = job.logs
           \/ ~Scanning'
  <1>1. CASE job.trigger = "deposit"
    <2>1. job' = [job EXCEPT !.at = "log", !.key = Resting.key, !.idle = 0]
      BY <1>1 DEF Onward
    <2> QED  BY <1>1, <2>1 DEF Jobs
  <1>2. CASE job.trigger # "deposit"
    <2>1. "flows" \in Places  BY DEF Places
    <2>2. job'.at = "flows"  BY <1>2, <2>1, WhereNext DEF Onward
    <2> QED  BY <2>2 DEF Scanning
  <1> QED  BY <1>1, <1>2

LEMMA ScanStep ==
    ASSUME "feedFails" \notin Faults
    PROVE  ScanInv /\ [Next]_vars => ScanInv'
  <1> SUFFICES ASSUME ScanInv, [Next]_vars PROVE ScanInv'  OBVIOUS
  <1> USE DEF At
  <1>t. TypeOK /\ TypeOK' /\ job \in Jobs  BY TypeStep DEF ScanInv, TypeOK
  <1>p. {"fetch", "periodic", "flows", "readIdle"} \subseteq Places  BY DEF Places
  <1>q. ~Scanning' => ScanInv'  BY <1>t DEF ScanInv
  <1>1. CASE \/ StartTick \/ ListFlows \/ WatchBuffer \/ MarkUnbond \/ Unbond \/ CutShort
    <2>1. job'.at \in {"scan", "advance", "mark", "resting", "unbond"}
      BY <1>1, <1>t, WhereNext DEF StartTick, ListFlows, WatchBuffer, MarkUnbond, Unbond,
         CutShort, Jobs, Resting
    <2> QED  BY <1>q, <2>1 DEF Scanning
  <1>2. ASSUME NEW k \in Keys, AdvanceFlow(k)  PROVE ScanInv'
    <2>1. job'.at = "advance"  BY <1>2, <1>t DEF AdvanceFlow, Jobs
    <2> QED  BY <1>q, <2>1 DEF Scanning
  <1>3. CASE Scan
    <2>1. PICK h \in Heads :
             LET from == IF cursor = 0 THEN h ELSE cursor + 1
             IN  IF from > h
                 THEN /\ cursor' = h
                      /\ job' = Enter("periodic")
                 ELSE /\ job' = [job EXCEPT !.at = "fetch", !.from = from,
                                            !.ceiling = Smaller(h, from + CHUNK * MAX_CHUNKS)]
                      /\ UNCHANGED cursor
      BY <1>3 DEF Scan
    <2> DEFINE from == IF cursor = 0 THEN h ELSE cursor + 1
    <2>2. h \in Nat /\ h <= head /\ from \in Nat /\ CHUNK * MAX_CHUNKS \in Nat
      BY <1>t, RunnerAssumption DEF Heads, TypeOK, RunnerAssumption
    <2>3. Smaller(h, from + CHUNK * MAX_CHUNKS) <= head  BY <1>t, <2>2 DEF Smaller, TypeOK
    <2>4. CASE from > h
      <3>1. job'.at = "periodic"  BY <1>t, <1>p, <2>1, <2>4, WhereNext
      <3> QED  BY <1>q, <3>1 DEF Scanning
    <2>5. CASE ~(from > h)
      <3>1. /\ job' = [job EXCEPT !.at = "fetch", !.from = from,
                                  !.ceiling = Smaller(h, from + CHUNK * MAX_CHUNKS)]
            /\ cursor' = cursor
        BY <2>1, <2>5
      <3>2. /\ job'.at = "fetch" /\ job'.from = from
            /\ job'.ceiling = Smaller(h, from + CHUNK * MAX_CHUNKS)
        BY <3>1, <1>t DEF Jobs
      <3>3. cursor > 0 => from = cursor + 1  BY <1>t DEF TypeOK
      <3>4. head' = head  BY <1>3 DEF Scan, worldVars
      <3> QED  BY <1>t, <2>3, <3>1, <3>2, <3>3, <3>4 DEF ScanInv
    <2> QED  BY <2>4, <2>5
  <1>4. CASE FetchLogs
    <2> DEFINE to == Smaller(job.from + CHUNK - 1, job.ceiling)
    <2>1. to <= job.ceiling
      BY <1>t, RunnerAssumption DEF Smaller, Jobs, RunnerAssumption
    <2>2. job' = [job EXCEPT !.at = "log", !.to = to, !.logs = deposits \cap (job.from .. to)]
      BY <1>4 DEF FetchLogs
    <2> HIDE DEF to
    <2>3. /\ job'.from = job.from /\ job'.ceiling = job.ceiling /\ job'.to = to
          /\ job'.logs = deposits \cap (job.from .. to) /\ job'.at = "log"
      BY <2>2, <1>t DEF Jobs
    <2>4. Scanning /\ UNCHANGED <<cursor, head, deposits, activity>>
      BY <1>4 DEF FetchLogs, Scanning, JobOnly, worldVars, storeVars
    <2> QED  BY <1>t, <2>1, <2>3, <2>4 DEF ScanInv
  <1>5. ASSUME NEW b \in Blocks, RecordLog(b)  PROVE ScanInv'
    <2>1. /\ activity' = activity \cup {b}
          /\ UNCHANGED <<cursor, head, deposits>> /\ job.at = "log"
      BY <1>5 DEF RecordLog, worldVars
    <2>2. /\ job'.from = job.from /\ job'.to = job.to /\ job'.ceiling = job.ceiling
          /\ job'.logs = job.logs \ {b} /\ job'.at # "fetch"
      BY <1>5, <1>t DEF RecordLog, Jobs
    <2> QED  BY <1>t, <2>1, <2>2 DEF ScanInv, Scanning
  <1>6. CASE SaveCursor
    <2>1. UNCHANGED head /\ cursor' = job.to /\ job.at = "log"
      BY <1>6 DEF SaveCursor, worldVars
    <2>2. CASE job.to < job.ceiling
      <3>1. job' = [Enter("fetch") EXCEPT !.from = job.to + 1, !.ceiling = job.ceiling]
        BY <1>6, <2>2 DEF SaveCursor
      <3>2. Enter("fetch").at = "fetch" /\ Enter("fetch") \in Jobs
        BY <1>t, <1>p, WhereNext, EnterTyped
      <3>3. job'.at = "fetch" /\ job'.from = job.to + 1 /\ job'.ceiling = job.ceiling
        BY <3>1, <3>2 DEF Jobs
      <3> QED  BY <1>t, <2>1, <3>3 DEF ScanInv, Scanning
    <2>3. CASE ~(job.to < job.ceiling)
      <3>1. job'.at = "periodic"  BY <1>6, <2>3, <1>t, <1>p, WhereNext DEF SaveCursor
      <3> QED  BY <1>q, <3>1 DEF Scanning
    <2> QED  BY <2>2, <2>3
  <1>7. CASE Periodic
    <2>1. ~Scanning'
      <3>1. CASE ~job.cfg.enabled  BY <1>7, <3>1, <1>t, WhereNext DEF Periodic, Scanning
      <3>2. CASE job.cfg.enabled /\ job.cfg.period = "deposit"
        BY <1>7, <3>2, <1>t, <1>p, WhereNext DEF Periodic, Scanning
      <3>3. CASE job.cfg.enabled /\ job.cfg.period # "deposit"
        <4>1. job' = [Enter("readIdle") EXCEPT !.trigger = job.cfg.period]
          BY <1>7, <3>3 DEF Periodic
        <4>2. Enter("readIdle").at = "readIdle" /\ Enter("readIdle") \in Jobs
          BY <1>t, <1>p, WhereNext, EnterTyped
        <4>3. job'.at = "readIdle" /\ job'.trigger # "deposit"
          BY <3>3, <4>1, <4>2 DEF Jobs
        <4> QED  BY <4>3 DEF Scanning
      <3> QED  BY <3>1, <3>2, <3>3, <1>t DEF Jobs
    <2> QED  BY <1>q, <2>1
  <1>8. CASE ReadIdle \/ CheckActive \/ StartFlow
    <2>1. /\ UNCHANGED <<cursor, head, deposits, activity>>
          /\ job.at \in {"readIdle", "checkActive", "insert"}
      BY <1>8 DEF ReadIdle, CheckActive, StartFlow, JobOnly, worldVars, storeVars
    <2>2. CASE job' = Onward
      BY <2>1, <2>2, <1>q, <1>t, OnwardInRange, SameRange DEF Scanning
    <2>3. CASE job' # Onward
      <3>1. /\ job'.from = job.from /\ job'.to = job.to /\ job'.ceiling = job.ceiling
            /\ job'.logs = job.logs /\ job'.trigger = job.trigger
            /\ job'.at \in {"checkActive", "insert"}
        BY <1>8, <2>3, <1>t DEF ReadIdle, CheckActive, StartFlow, Jobs
      <3> QED  BY <2>1, <3>1, <1>q, <1>t, SameRange DEF Scanning
    <2> QED  BY <2>2, <2>3
  <1>9. ASSUME NEW withDeposit \in BOOLEAN, NewBlock(withDeposit)  PROVE ScanInv'
    <2>1. /\ head' = head + 1 /\ UNCHANGED <<cursor, activity, job>>
          /\ deposits' \subseteq deposits \cup {head + 1}
      BY <1>9 DEF NewBlock, storeVars
    <2>2. CASE Scanning
      <3>1. job.ceiling <= head + 1 /\ (cursor > 0 => job.from = cursor + 1)
        BY <1>t, <2>2 DEF ScanInv, TypeOK, Jobs
      <3>2. ~At("fetch") => head + 1 \notin job.from .. job.to
        BY <1>t, <2>2 DEF ScanInv, TypeOK, Jobs
      <3>3. ~At("fetch") => deposits' \cap (job.from .. job.to) \subseteq activity \cup job.logs
        BY <2>1, <2>2, <3>2 DEF ScanInv
      <3>4. ~At("fetch") => job.to <= job.ceiling  BY <2>2 DEF ScanInv
      <3> QED  BY <1>t, <2>1, <3>1, <3>3, <3>4 DEF ScanInv
    <2>3. CASE ~Scanning  BY <1>q, <2>1, <2>3 DEF Scanning
    <2> QED  BY <2>2, <2>3
  <1>10. CASE UNCHANGED <<cursor, head, deposits, activity, job>>
    BY <1>10, <1>t DEF ScanInv, Scanning
  <1> QED  BY <1>1, <1>2, <1>3, <1>4, <1>5, <1>6, <1>7, <1>8, <1>9, <1>10
           DEF Next, TickNext, WorldNext, Redeem, BufferMoves, HalfDayPasses, CooldownEnds,
               WriteConfig, vars, storeVars, worldVars

(* As long as the feed can be written, no deposit is passed over unseen.   *)
THEOREM NoDepositIsSkipped ==
    ASSUME "feedFails" \notin Faults
    PROVE  Spec => NothingSkipped
  <1>1. ScanInv /\ [Next]_vars =>
          [cursor > 0 /\ cursor' > cursor
           => deposits \cap (cursor + 1 .. cursor') \subseteq activity']_vars
    <2> SUFFICES ASSUME ScanInv, Next, cursor > 0, cursor' > cursor
                 PROVE  deposits \cap (cursor + 1 .. cursor') \subseteq activity'
      OBVIOUS
    <2> USE DEF At
    <2>t. TypeOK  BY DEF ScanInv
    <2>1. CASE SaveCursor
      <3>1. /\ Scanning /\ job.at = "log" /\ job.logs = {} /\ cursor' = job.to
            /\ activity' = activity
        BY <2>1 DEF SaveCursor, Scanning
      <3> QED  BY <3>1 DEF ScanInv
    <2>2. CASE Scan
      <3>1. \E h \in Heads : cursor + 1 > h /\ cursor' = h
        BY <2>2, <2>t DEF Scan, TypeOK
      <3> QED  BY <3>1, <2>t DEF Heads, TypeOK
    <2>3. CASE cursor' = cursor  BY <2>3, <2>t DEF TypeOK
    <2> QED
      BY <2>1, <2>2, <2>3 DEF Next, TickNext, WorldNext, NewBlock, Redeem, BufferMoves,
         HalfDayPasses, CooldownEnds, WriteConfig, CutShort, StartTick, FetchLogs, RecordLog,
         Periodic, ReadIdle, CheckActive, StartFlow, ListFlows, AdvanceFlow, WatchBuffer,
         MarkUnbond, Unbond, JobOnly, storeVars
  <1> QED  BY <1>1, ScanInit, ScanStep, PTL DEF Spec, NothingSkipped
=============================================================================
