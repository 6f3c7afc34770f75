---------------------------- MODULE HistoryLedger ----------------------------
(***************************************************************************)
(* What the accounting promises its charts (accounting.ts 163-172): rows   *)
(* happen at an exchange, they are recorded once each, and whatever the    *)
(* ledger claims to be complete up to a moment is complete up to it.  How  *)
(* the rows are found is the business of HistorySync, which implements     *)
(* this specification.                                                     *)
(***************************************************************************)
EXTENDS Naturals

CONSTANT Row            \* what may happen: records with a field "at"

VARIABLES
    happened,           \* rows the exchange has
    recorded,           \* rows the ledger has
    through             \* 0, or: every row before this moment is recorded

ledgerVars == <<happened, recorded, through>>

LedgerInit == happened = {} /\ recorded = {} /\ through = 0

(* Rows happen; never before a moment that was already vouched for.        *)
Happen ==
    /\ happened \subseteq happened'
    /\ \A row \in happened' \ happened : row \in Row /\ row.at >= through
    /\ UNCHANGED <<recorded, through>>

(* Some rows that happened are recorded; nothing recorded is lost.         *)
Record ==
    /\ recorded \subseteq recorded' /\ recorded' \subseteq happened
    /\ UNCHANGED <<happened, through>>

(* The claim moves forward, over recorded rows only.                       *)
Claim ==
    /\ through' >= through
    /\ \A row \in happened : row.at < through' => row \in recorded
    /\ UNCHANGED <<happened, recorded>>

LedgerNext == Happen \/ Record \/ Claim

LedgerSpec == LedgerInit /\ [][LedgerNext]_ledgerVars
=============================================================================
