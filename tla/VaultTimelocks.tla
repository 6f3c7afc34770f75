---------------------------- MODULE VaultTimelocks ----------------------------
(***************************************************************************)
(* How the owner changes what a depositor of DeltaMonVault.sol relies on:  *)
(* the performance fee, the perp ceiling and the risk limits, which        *)
(* tighten at once and loosen after a delay, and the swap venue with its   *)
(* oracle, which always waits.                                             *)
(*                                                                         *)
(* The three settings that loosen share their logic (the fee and the       *)
(* ceiling are one limit each, the risk limits are several): a value is a  *)
(* function from the setting's limits to numbers.  A depositor is anyone   *)
(* who reads the contract at some moment and does not look again.          *)
(***************************************************************************)
EXTENDS Integers

CONSTANTS
    Settings,           \* {"fee", "ceiling", "risk"}
    Limits,             \* the limits of each setting
    Values,             \* what a setting may be set to
    Venues,             \* pairs of a spot venue and an oracle
    NoVenue,            \* the zero address
    Delay,              \* FEE_TIMELOCK = CONFIG_TIMELOCK = VENUE_TIMELOCK
    MaxTime             \* bound: the last value of the clock

ASSUME TimelockAssumption ==
    /\ \A s \in Settings : Values[s] \subseteq [Limits[s] -> Nat]
    /\ NoVenue \notin Venues
    /\ Delay \in Nat \ {0}
    /\ MaxTime \in Nat

VARIABLES
    inForce, pending, effectiveAt,                  \* per setting
    venue, pendingVenue, venueEffectiveAt,
    now,
    announced,          \* observation only: the value in each setting's last event
    seen                \* observation only: what the depositor last read

settingVars == <<inForce, pending, effectiveAt, announced>>
venueVars   == <<venue, pendingVenue, venueEffectiveAt>>
vars == <<settingVars, venueVars, now, seen>>

Reading ==
    [at |-> now, inForce |-> inForce, pending |-> pending, effectiveAt |-> effectiveAt,
     venue |-> venue, pendingVenue |-> pendingVenue, venueEffectiveAt |-> venueEffectiveAt]

(* What a deleted slot reads; its date, zero as well, says nothing waits.  *)
deleted(s) == [l \in Limits[s] |-> 0]

Init ==
    /\ inForce \in [Settings -> UNION {Values[s] : s \in Settings}]
    /\ \A s \in Settings : inForce[s] \in Values[s]
    /\ pending = [s \in Settings |-> deleted(s)]
    /\ announced = inForce
    /\ effectiveAt = [s \in Settings |-> 0]
    /\ venue \in Venues /\ pendingVenue = NoVenue /\ venueEffectiveAt = 0
    /\ now = 1
    /\ seen = Reading

-----------------------------------------------------------------------------
(* Definitions named _as_... are never used by the specification: each is   *)
(* the definition below it with a plausible bug.                            *)
loosens_as_all_limits(s, v) == \A l \in Limits[s] : v[l] > inForce[s][l]

(* One wider limit makes the whole set looser.                             *)
loosens(s, v) == \E l \in Limits[s] : v[l] > inForce[s][l]

(* A cut withdraws the raise that is still waiting.                        *)
TightenNow(s, v) ==
    /\ inForce' = [inForce EXCEPT ![s] = v]
    /\ pending' = [pending EXCEPT ![s] = deleted(s)]
    /\ effectiveAt' = [effectiveAt EXCEPT ![s] = 0]

(* A raise replaces the one that waits and starts the delay again.         *)
Queue(s, v) ==
    /\ pending' = [pending EXCEPT ![s] = v]
    /\ effectiveAt' = [effectiveAt EXCEPT ![s] = now + Delay]
    /\ UNCHANGED inForce

(* proposePerformanceFee, setMaxPerpAllocation, setRiskParams              *)
Propose(s, v) ==
    /\ \/ loosens(s, v) /\ Queue(s, v)
       \/ ~loosens(s, v) /\ TightenNow(s, v)
    /\ announced' = [announced EXCEPT ![s] = v]
    /\ UNCHANGED <<venueVars, now, seen>>

(* applyPerformanceFee, applyMaxPerpAllocation, applyRiskParams            *)
Apply(s) ==
    /\ effectiveAt[s] # 0
    /\ now >= effectiveAt[s]
    /\ inForce' = [inForce EXCEPT ![s] = pending[s]]
    /\ pending' = [pending EXCEPT ![s] = deleted(s)]
    /\ effectiveAt' = [effectiveAt EXCEPT ![s] = 0]
    /\ announced' = [announced EXCEPT ![s] = pending[s]]
    /\ UNCHANGED <<venueVars, now, seen>>

ProposeVenue_as_clock_kept(v) ==
    /\ pendingVenue' = v
    /\ venueEffectiveAt' = IF venueEffectiveAt = 0 THEN now + Delay ELSE venueEffectiveAt
    /\ UNCHANGED <<settingVars, venue, now, seen>>

ProposeVenue(v) ==
    /\ pendingVenue' = v
    /\ venueEffectiveAt' = now + Delay
    /\ UNCHANGED <<settingVars, venue, now, seen>>

ApplyVenue ==
    /\ venueEffectiveAt # 0
    /\ now >= venueEffectiveAt
    /\ venue' = pendingVenue
    /\ pendingVenue' = NoVenue /\ venueEffectiveAt' = 0
    /\ UNCHANGED <<settingVars, now, seen>>

CancelVenueChange ==
    /\ pendingVenue' = NoVenue /\ venueEffectiveAt' = 0
    /\ UNCHANGED <<settingVars, venue, now, seen>>

-----------------------------------------------------------------------------
(* External: time passes, and a depositor reads the contract.              *)
Tick == now < MaxTime /\ now' = now + 1 /\ UNCHANGED <<settingVars, venueVars, seen>>

Look == seen' = Reading /\ UNCHANGED <<settingVars, venueVars, now>>

Next ==
    \/ \E s \in Settings : Apply(s) \/ \E v \in Values[s] : Propose(s, v)
    \/ \E v \in Venues : ProposeVenue(v)
    \/ ApplyVenue
    \/ CancelVenueChange
    \/ Tick
    \/ Look

Spec == Init /\ [][Next]_vars

-----------------------------------------------------------------------------
(* Every slot has its type; a change waits with a date, for a value or a   *)
(* venue that may be set, and nobody has read the future.                  *)
TypeOK ==
    /\ inForce \in [Settings -> UNION {Values[s] : s \in Settings}]
    /\ \A s \in Settings : inForce[s] \in Values[s]
    /\ DOMAIN pending = Settings /\ DOMAIN announced = Settings
    /\ effectiveAt \in [Settings -> Nat]
    /\ \A s \in Settings : effectiveAt[s] # 0 => pending[s] \in Values[s]
    /\ venue \in Venues /\ venueEffectiveAt \in Nat
    /\ venueEffectiveAt # 0 => pendingVenue \in Venues
    /\ now \in Nat \ {0}
    /\ seen.at \in 1 .. now

(* The change a depositor read as pending could have landed by now.        *)
seenDue(s)   == seen.effectiveAt[s] # 0 /\ now >= seen.effectiveAt[s]
seenVenueDue == seen.venueEffectiveAt # 0 /\ now >= seen.venueEffectiveAt

(* FEE_TIMELOCK, CONFIG_TIMELOCK (54-60): whatever the owner does, for the *)
(* whole delay after a depositor read the contract no limit is wider than  *)
(* it was, or than the raise that was already announced once that is due.  *)
NoSurprise ==
    now < seen.at + Delay =>
        \A s \in Settings : \A l \in Limits[s] :
            \/ inForce[s][l] <= seen.inForce[s][l]
            \/ seenDue(s) /\ inForce[s][l] <= seen.pending[s][l]

(* A cut withdraws the raise before it (672-674, 723-725, 766-768): what   *)
(* waits is always the last thing announced, and what is in force is what  *)
(* was announced last or is about to be replaced by it, so no raise can    *)
(* fire behind a later, lower number.                                      *)
RaiseIsTheLastWord ==
    \A s \in Settings :
        announced[s] = IF effectiveAt[s] # 0 THEN pending[s] ELSE inForce[s]

(* VENUE_TIMELOCK (56-57, 821-823): in that time the swaps go through the  *)
(* venue and oracle that were read, or the pair announced before, once due.*)
NoVenueSurprise ==
    now < seen.at + Delay =>
        \/ venue = seen.venue
        \/ seenVenueDue /\ venue = seen.pendingVenue
=============================================================================
