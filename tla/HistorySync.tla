----------------------------- MODULE HistorySync -----------------------------
(***************************************************************************)
(* The crawl of Perpl's history (accountingPerpl.ts 158-197, 256-282), its *)
(* durable cursor and rows (accountingStore.ts 87-126) and what a chart    *)
(* may claim from them (accounting.ts 163-172).                            *)
(*                                                                         *)
(* A feed serves rows newest first, a page at a time.  The crawl walks     *)
(* from the head down to the newest row of the last finished sweep, the    *)
(* anchor; it may stop between any two awaits and goes on from its cursor  *)
(* at a later tick, while rows keep arriving at the head.                  *)
(*                                                                         *)
(* Rows are numbered by arrival and stand for their keys; 0 is null.  The  *)
(* page token is opaque to the code.  It is either the newest row of the   *)
(* page it stands for, or an offset from the head, so that a page read     *)
(* later begins with newer rows.                                           *)
(***************************************************************************)
EXTENDS Naturals, Sequences, FiniteSets

CONSTANTS
    Streams,            \* the streams funding is read from
    PageSize,           \* rows on a page (100)
    PagesPerTick,       \* ACCOUNTING_HISTORY_PAGES_PER_TICK
    HistoryFrom,        \* binding.historyFrom: earlier rows are not ours to keep
    ByOffset,           \* does a page token count from the head
    Foreign,            \* numbers of the rows that belong to other accounts
    MaxRows,            \* bound: the rows a stream ever has
    MaxClock, CutBound  \* bounds

ASSUME HistoryAssumption ==
    /\ {PageSize, PagesPerTick} \subseteq Nat \ {0}
    /\ {HistoryFrom, MaxClock, CutBound} \subseteq Nat
    /\ MaxRows \in [Streams -> Nat] /\ Streams # {}
    /\ ByOffset \in BOOLEAN

VARIABLES
    feed,               \* the exchange: when each row of a stream arrived, oldest first
    clock,              \* the time both sides go by
    cursor,             \* HistoryCursor, the durable document of a stream
    saved,              \* accountingEvents, as row numbers
    sync,               \* the worker of a stream
    cutsLeft            \* bound only: how often a sync may still be cut short

historyVars == <<feed, clock, cursor, saved, sync, cutsLeft>>

Rows(s)      == 1 .. Len(feed[s])
Wanted(s, i) == i \notin Foreign /\ feed[s][i] >= HistoryFrom

NoCursor == [page |-> 0, anchor |-> 0, pendingHead |-> 0,
             backfillComplete |-> FALSE, syncedThrough |-> 0, sweepStartedAt |-> 0]
Idle == [at |-> "idle", now |-> 0, state |-> NoCursor, left |-> 0, first |-> 0, np |-> 0]

HistoryInit ==
    /\ feed = [s \in Streams |-> <<>>]
    /\ clock = 1
    /\ cursor = [s \in Streams |-> NoCursor]
    /\ saved = [s \in Streams |-> {}]
    /\ sync = [s \in Streams |-> Idle]
    /\ cutsLeft = CutBound

-----------------------------------------------------------------------------
(* The collector's tick: no two overlap (active), every stream starts.     *)
StartSync ==
    /\ \A s \in Streams : sync[s] = Idle
    /\ sync' = [s \in Streams |-> [at |-> "read", now |-> clock, state |-> cursor[s],
                                   left |-> PagesPerTick, first |-> 0, np |-> 0]]
    /\ UNCHANGED <<feed, clock, cursor, saved, cutsLeft>>

(* The oldest row of a page that begins at first is the one above Rest.    *)
Rest(first) == IF first > PageSize THEN first - PageSize ELSE 0

(* External: where the page of a token begins, and the token of the next.  *)
PageStart(s, page) ==
    IF page = 0 THEN Len(feed[s]) ELSE IF ByOffset THEN Len(feed[s]) - page ELSE page

NextPage(s, first) ==
    IF Rest(first) = 0 THEN 0 ELSE IF ByOffset THEN Len(feed[s]) - Rest(first) ELSE Rest(first)

ReadPage(s) ==
    LET first == PageStart(s, sync[s].state.page)
    IN  /\ sync[s].at = "read"
        /\ sync' = [sync EXCEPT ![s].at = "save", ![s].first = first, ![s].np = NextPage(s, first)]
        /\ UNCHANGED <<feed, clock, cursor, saved, cutsLeft>>

AnchorFound(job) == job.state.anchor \in Rest(job.first) + 1 .. job.first

(* The rows of the page in hand that are newer than the anchor.            *)
Fresh(s) ==
    LET job == sync[s]
    IN  {i \in (IF AnchorFound(job) THEN job.state.anchor ELSE Rest(job.first)) + 1 .. job.first :
             Wanted(s, i)}

(* $setOnInsert by identity: a row that is there already stays as it is.   *)
SaveRows(s) ==
    /\ sync[s].at = "save"
    /\ saved' = [saved EXCEPT ![s] = @ \cup Fresh(s)]
    /\ sync' = [sync EXCEPT ![s].at = "store"]
    /\ UNCHANGED <<feed, clock, cursor, cutsLeft>>

SweepDone(job) == AnchorFound(job) \/ job.np = 0

NextState_as_head_only(job) ==
    [job.state EXCEPT !.page = 0, !.pendingHead = 0, !.backfillComplete = TRUE,
                      !.anchor = IF job.first # 0 THEN job.first ELSE @]

(* The cursor behind the page in hand.                                     *)
NextState(job) ==
    LET old     == job.state
        head    == IF old.pendingHead # 0 \/ old.page # 0 THEN old.pendingHead ELSE job.first
        started == IF old.page = 0 THEN job.now ELSE old.sweepStartedAt
    IN  IF SweepDone(job)
        THEN [page |-> 0, pendingHead |-> 0,
              anchor |-> IF head # 0 THEN head ELSE old.anchor,
              backfillComplete |-> TRUE,
              syncedThrough |-> IF started # 0 THEN started ELSE old.syncedThrough,
              sweepStartedAt |-> 0]
        ELSE [old EXCEPT !.page = job.np, !.pendingHead = head, !.sweepStartedAt = started]

StoreCursor(s) ==
    LET job  == sync[s]
        next == NextState(job)
    IN  /\ job.at = "store"
        /\ cursor' = [cursor EXCEPT ![s] = next]
        /\ sync' = [sync EXCEPT ![s] =
               IF SweepDone(job) \/ job.left = 1 THEN Idle
               ELSE [job EXCEPT !.at = "read", !.state = next, !.left = @ - 1,
                                !.first = 0, !.np = 0]]
        /\ UNCHANGED <<feed, clock, saved, cutsLeft>>

(* A failed read or write, or stop(), ends the sync of one stream and not  *)
(* of the others; a bulk write may have landed in part.                    *)
CutShort(s) ==
    /\ sync[s].at # "idle" /\ cutsLeft > 0
    /\ cutsLeft' = cutsLeft - 1
    /\ \/ UNCHANGED saved
       \/ /\ sync[s].at = "save"
          /\ \E low \in Fresh(s) :
                saved' = [saved EXCEPT ![s] = @ \cup {i \in Fresh(s) : i >= low}]
    /\ sync' = [sync EXCEPT ![s] = Idle]
    /\ UNCHANGED <<feed, clock, cursor>>

(* The process dies: what the database has is all there is.                *)
Crash ==
    /\ cutsLeft > 0 /\ \E s \in Streams : sync[s] # Idle
    /\ cutsLeft' = cutsLeft - 1
    /\ sync' = [s \in Streams |-> Idle]
    /\ UNCHANGED <<feed, clock, cursor, saved>>

(* External: the wallet's feed carries every account of the wallet.        *)
RowArrives(s) ==
    /\ Len(feed[s]) < MaxRows[s]
    /\ feed' = [feed EXCEPT ![s] = Append(@, clock)]
    /\ UNCHANGED <<clock, cursor, saved, sync, cutsLeft>>

TimePasses ==
    /\ clock < MaxClock
    /\ clock' = clock + 1
    /\ UNCHANGED <<feed, cursor, saved, sync, cutsLeft>>

HistoryWork == StartSync \/ \E s \in Streams : ReadPage(s) \/ SaveRows(s) \/ StoreCursor(s)

HistoryNext ==
    \/ HistoryWork
    \/ Crash \/ TimePasses
    \/ \E s \in Streams : CutShort(s) \/ RowArrives(s)

HistorySpec == HistoryInit /\ [][HistoryNext]_historyVars

(* Ticks go on, and the awaits of a sync come back.                        *)
HistoryFairSpec == HistorySpec /\ WF_historyVars(HistoryWork)

-----------------------------------------------------------------------------
Covered_as_latest ==
    LET moments == {cursor[s].syncedThrough : s \in Streams}
    IN  IF 0 \in moments THEN 0 ELSE CHOOSE t \in moments : \A u \in moments : u <= t

(* getAccountingHistory's fundingThrough: the least of the streams, null   *)
(* while one of them has not finished its first sweep.                     *)
Covered ==
    IF \A s \in Streams : cursor[s].backfillComplete /\ cursor[s].syncedThrough # 0
    THEN CHOOSE t \in {cursor[s].syncedThrough : s \in Streams} :
             \A s \in Streams : t <= cursor[s].syncedThrough
    ELSE 0

(* A chart that is complete up to a moment misses no row of ours before    *)
(* it, on either stream, over stops, restarts, replayed pages and rows     *)
(* that pushed in at the head meanwhile (accounting.ts 163-172,            *)
(* accountingPerpl.ts 188-191).                                            *)
CoverageIsTrue ==
    \A s \in Streams : \A i \in Rows(s) :
        Wanted(s, i) /\ feed[s][i] < Covered => i \in saved[s]

Entry(s, i) == [stream |-> s, row |-> i, at |-> feed[s][i]]

Ledger == INSTANCE HistoryLedger WITH
    Row      <- [stream : Streams, row : Nat \ {0}, at : Nat],
    happened <- UNION {{Entry(s, i) : i \in {j \in Rows(s) : Wanted(s, j)}} : s \in Streams},
    recorded <- UNION {{Entry(s, i) : i \in saved[s]} : s \in Streams},
    through  <- Covered

(* The crawl is a ledger: rows are recorded, never lost and never made up, *)
(* and the claim of completeness only moves forward, over recorded rows.   *)
ImplementsLedger == Ledger!LedgerSpec

(* However often a sweep is cut short: once rows stop coming, every row of *)
(* ours is recorded, for good (158-197: an unfinished backfill resumes,    *)
(* new head rows are caught on the next pass).                             *)
EveryRowIsRecorded ==
    <>[](\A s \in Streams : {i \in Rows(s) : Wanted(s, i)} \subseteq saved[s])
=============================================================================
