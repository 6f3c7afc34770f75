------------------------- MODULE VaultTimelocksProofs -------------------------
(***************************************************************************)
(* Proofs about VaultTimelocks.tla, for any settings, limits, values and   *)
(* venues and any length of the delay.                                     *)
(***************************************************************************)
EXTENDS VaultTimelocks, TLAPS

(* What was read is a value too, and a pending one if it had a date.       *)
SeenTypeOK ==
    \A s \in Settings :
        /\ seen.inForce[s] \in Values[s]
        /\ seen.effectiveAt[s] \in Nat
        /\ seen.effectiveAt[s] # 0 => seen.pending[s] \in Values[s]

(* A change that waits is the one that was read, or was announced later.   *)
AnnouncedInTime ==
    \A s \in Settings : effectiveAt[s] # 0 =>
        \/ effectiveAt[s] = seen.effectiveAt[s] /\ pending[s] = seen.pending[s]
        \/ effectiveAt[s] >= seen.at + Delay

VenueAnnouncedInTime ==
    venueEffectiveAt # 0 =>
        \/ venueEffectiveAt = seen.venueEffectiveAt /\ pendingVenue = seen.pendingVenue
        \/ venueEffectiveAt >= seen.at + Delay

SettingInv == SeenTypeOK /\ AnnouncedInTime /\ NoSurprise

VenueInv ==
    /\ seen.venueEffectiveAt \in Nat
    /\ VenueAnnouncedInTime
    /\ NoVenueSurprise

(* No surprise is not inductive alone: it holds because of what waits.     *)
TimelockInv == TypeOK /\ SettingInv /\ VenueInv /\ RaiseIsTheLastWord

-----------------------------------------------------------------------------
LEMMA ValuesAreNumbers ==
    ASSUME NEW s \in Settings, NEW v \in Values[s]
    PROVE  v \in [Limits[s] -> Nat]
  BY TimelockAssumption DEF TimelockAssumption

LEMMA TimelockInvInit == Init => TimelockInv
  <1> SUFFICES ASSUME Init PROVE TimelockInv
    OBVIOUS
  <1>1. Delay \in Nat \ {0}
    BY TimelockAssumption DEF TimelockAssumption
  <1>2. /\ now = 1 /\ seen.at = 1 /\ seen.inForce = inForce
        /\ seen.effectiveAt = [s \in Settings |-> 0]
        /\ seen.venue = venue /\ seen.venueEffectiveAt = 0
    BY DEF Init, Reading
  <1>3. TypeOK
    BY <1>2 DEF Init, TypeOK
  <1>4. SettingInv
    <2>1. \A s \in Settings : \A l \in Limits[s] : inForce[s][l] <= seen.inForce[s][l]
      BY <1>2, ValuesAreNumbers DEF Init
    <2> QED BY <1>2, <2>1 DEF Init, SettingInv, SeenTypeOK, AnnouncedInTime, NoSurprise
  <1>5. VenueInv
    BY <1>2 DEF Init, VenueInv, VenueAnnouncedInTime, NoVenueSurprise
  <1>6. RaiseIsTheLastWord
    BY DEF Init, RaiseIsTheLastWord
  <1> QED BY <1>3, <1>4, <1>5, <1>6 DEF TimelockInv

LEMMA SettingInvFrame ==
    ASSUME SettingInv, UNCHANGED <<settingVars, now, seen>>
    PROVE  SettingInv'
  BY DEF SettingInv, SeenTypeOK, AnnouncedInTime, NoSurprise, seenDue, settingVars

LEMMA LastWordFrame ==
    ASSUME RaiseIsTheLastWord, UNCHANGED settingVars
    PROVE  RaiseIsTheLastWord'
  BY DEF RaiseIsTheLastWord, settingVars

LEMMA VenueInvFrame ==
    ASSUME VenueInv, UNCHANGED <<venueVars, now, seen>>
    PROVE  VenueInv'
  BY DEF VenueInv, VenueAnnouncedInTime, NoVenueSurprise, seenVenueDue, venueVars

-----------------------------------------------------------------------------
LEMMA ProposeKeepsInv ==
    ASSUME TimelockInv, NEW s \in Settings, NEW v \in Values[s], Propose(s, v)
    PROVE  TimelockInv'
  <1> USE DEF TimelockInv
  <1>1. Delay \in Nat \ {0}
    BY TimelockAssumption DEF TimelockAssumption
  <1>2. /\ announced' = [announced EXCEPT ![s] = v]
        /\ UNCHANGED <<venueVars, now, seen>>
    BY DEF Propose
  <1>3. VenueInv'
    BY <1>2, VenueInvFrame
  <1>4. CASE Queue(s, v)
    <2>1. /\ inForce' = inForce
          /\ pending' = [pending EXCEPT ![s] = v]
          /\ effectiveAt' = [effectiveAt EXCEPT ![s] = now + Delay]
      BY <1>4 DEF Queue
    <2>2. TypeOK'
      BY <1>1, <1>2, <2>1 DEF TypeOK, venueVars
    <2>3. AnnouncedInTime'
      BY <1>1, <1>2, <2>1 DEF TypeOK, SettingInv, AnnouncedInTime
    <2>4. NoSurprise' /\ SeenTypeOK'
      BY <1>2, <2>1 DEF SettingInv, NoSurprise, SeenTypeOK, seenDue
    <2>5. RaiseIsTheLastWord'
      BY <1>1, <1>2, <2>1 DEF TypeOK, RaiseIsTheLastWord
    <2> QED BY <1>3, <2>2, <2>3, <2>4, <2>5 DEF SettingInv
  <1>5. CASE ~loosens(s, v) /\ TightenNow(s, v)
    <2>1. /\ inForce' = [inForce EXCEPT ![s] = v]
          /\ pending' = [pending EXCEPT ![s] = deleted(s)]
          /\ effectiveAt' = [effectiveAt EXCEPT ![s] = 0]
      BY <1>5 DEF TightenNow
    <2>2. TypeOK'
      BY <1>2, <2>1 DEF TypeOK, venueVars
    <2>3. AnnouncedInTime' /\ SeenTypeOK'
      BY <1>2, <2>1 DEF TypeOK, SettingInv, AnnouncedInTime, SeenTypeOK
    <2>4. \A l \in Limits[s] : v[l] <= inForce[s][l]
      <3>1. v \in [Limits[s] -> Nat] /\ inForce[s] \in [Limits[s] -> Nat]
        BY ValuesAreNumbers DEF TypeOK
      <3> QED BY <1>5, <3>1 DEF loosens
    <2>5. NoSurprise'
      <3> SUFFICES ASSUME now < seen.at + Delay, NEW r \in Settings, NEW l \in Limits[r]
                   PROVE  \/ inForce'[r][l] <= seen.inForce[r][l]
                          \/ seenDue(r) /\ inForce'[r][l] <= seen.pending[r][l]
        BY <1>2 DEF NoSurprise, seenDue
      <3>1. \/ inForce[r][l] <= seen.inForce[r][l]
            \/ seenDue(r) /\ inForce[r][l] <= seen.pending[r][l]
        BY DEF SettingInv, NoSurprise
      <3>2. CASE r # s
        BY <2>1, <3>1, <3>2 DEF TypeOK
      <3>3. CASE r = s
        <4>1. inForce'[r][l] = v[l]
          BY <2>1, <3>3 DEF TypeOK
        <4>2. inForce[r][l] \in Nat /\ v[l] \in Nat /\ seen.inForce[r][l] \in Nat
          BY <3>3, ValuesAreNumbers DEF TypeOK, SettingInv, SeenTypeOK
        <4>3. seenDue(r) => seen.pending[r][l] \in Nat
          BY <3>3, ValuesAreNumbers DEF SettingInv, SeenTypeOK, seenDue
        <4>4. v[l] <= inForce[r][l]
          BY <2>4, <3>3
        <4> QED BY <3>1, <4>1, <4>2, <4>3, <4>4
      <3> QED BY <3>2, <3>3
    <2>6. RaiseIsTheLastWord'
      BY <1>2, <2>1 DEF TypeOK, RaiseIsTheLastWord
    <2> QED BY <1>3, <2>2, <2>3, <2>5, <2>6 DEF SettingInv
  <1> QED BY <1>4, <1>5 DEF Propose

LEMMA ApplyKeepsInv ==
    ASSUME TimelockInv, NEW s \in Settings, Apply(s)
    PROVE  TimelockInv'
  <1> USE DEF TimelockInv
  <1>1. Delay \in Nat \ {0}
    BY TimelockAssumption DEF TimelockAssumption
  <1>2. /\ effectiveAt[s] # 0 /\ now >= effectiveAt[s]
        /\ inForce' = [inForce EXCEPT ![s] = pending[s]]
        /\ pending' = [pending EXCEPT ![s] = deleted(s)]
        /\ effectiveAt' = [effectiveAt EXCEPT ![s] = 0]
        /\ announced' = [announced EXCEPT ![s] = pending[s]]
        /\ UNCHANGED <<venueVars, now, seen>>
    BY DEF Apply
  <1>3. VenueInv'
    BY <1>2, VenueInvFrame
  <1>4. TypeOK'
    BY <1>2 DEF TypeOK, venueVars
  <1>5. AnnouncedInTime' /\ SeenTypeOK'
    BY <1>2 DEF TypeOK, SettingInv, AnnouncedInTime, SeenTypeOK
  <1>6. NoSurprise'
    <2> SUFFICES ASSUME now < seen.at + Delay, NEW r \in Settings, NEW l \in Limits[r]
                 PROVE  \/ inForce'[r][l] <= seen.inForce[r][l]
                        \/ seenDue(r) /\ inForce'[r][l] <= seen.pending[r][l]
      BY <1>2 DEF NoSurprise, seenDue
    <2>1. CASE r # s
      <3>1. inForce'[r] = inForce[r]
        BY <1>2, <2>1 DEF TypeOK
      <3> QED BY <3>1 DEF SettingInv, NoSurprise
    <2>2. CASE r = s
      <3>1. effectiveAt[s] = seen.effectiveAt[s] /\ pending[s] = seen.pending[s]
        BY <1>1, <1>2 DEF TypeOK, SettingInv, AnnouncedInTime
      <3>2. seenDue(s) /\ seen.pending[s] \in [Limits[s] -> Nat]
        BY <1>2, <3>1, ValuesAreNumbers DEF seenDue, SettingInv, SeenTypeOK
      <3>3. inForce'[s] = seen.pending[s]
        BY <1>2, <3>1 DEF TypeOK
      <3> QED BY <2>2, <3>2, <3>3
    <2> QED BY <2>1, <2>2
  <1>7. RaiseIsTheLastWord'
    BY <1>2 DEF TypeOK, RaiseIsTheLastWord
  <1> QED BY <1>3, <1>4, <1>5, <1>6, <1>7 DEF SettingInv

LEMMA VenueStepsKeepInv ==
    ASSUME TimelockInv, (\E v \in Venues : ProposeVenue(v)) \/ ApplyVenue \/ CancelVenueChange
    PROVE  TimelockInv'
  <1> USE DEF TimelockInv
  <1>1. Delay \in Nat \ {0}
    BY TimelockAssumption DEF TimelockAssumption
  <1>2. UNCHANGED <<settingVars, now, seen>>
    BY DEF ProposeVenue, ApplyVenue, CancelVenueChange
  <1>3. SettingInv'
    BY <1>2, SettingInvFrame
  <1>4. TypeOK'
    BY <1>1, <1>2 DEF TypeOK, ProposeVenue, ApplyVenue, CancelVenueChange, settingVars
  <1>5. VenueInv'
    BY <1>1, <1>2 DEF TypeOK, VenueInv, VenueAnnouncedInTime, NoVenueSurprise, seenVenueDue,
       ProposeVenue, ApplyVenue, CancelVenueChange
  <1> QED BY <1>2, <1>3, <1>4, <1>5, LastWordFrame

LEMMA TickKeepsInv ==
    ASSUME TimelockInv, Tick
    PROVE  TimelockInv'
  <1> USE DEF TimelockInv
  <1>1. Delay \in Nat /\ now \in Nat /\ now' = now + 1 /\ seen.at \in Nat
    BY TimelockAssumption DEF TimelockAssumption, TypeOK, Tick
  <1>2. UNCHANGED <<settingVars, venueVars, seen>>
    BY DEF Tick
  <1>3. TypeOK'
    BY <1>1, <1>2 DEF TypeOK, settingVars, venueVars
  <1>4. \A s \in Settings : seenDue(s) => seenDue(s)'
    BY <1>1, <1>2 DEF SettingInv, SeenTypeOK, seenDue
  <1>5. seenVenueDue => seenVenueDue'
    BY <1>1, <1>2 DEF VenueInv, seenVenueDue
  <1>6. now' < seen'.at + Delay => now < seen.at + Delay
    BY <1>1, <1>2
  <1>7. SettingInv'
    BY <1>2, <1>4, <1>6 DEF SettingInv, SeenTypeOK, AnnouncedInTime, NoSurprise, settingVars
  <1>8. VenueInv'
    BY <1>2, <1>5, <1>6 DEF VenueInv, VenueAnnouncedInTime, NoVenueSurprise, venueVars
  <1> QED BY <1>2, <1>3, <1>7, <1>8, LastWordFrame

LEMMA LookKeepsInv ==
    ASSUME TimelockInv, Look
    PROVE  TimelockInv'
  <1> USE DEF TimelockInv
  <1>1. UNCHANGED <<settingVars, venueVars, now>>
    BY DEF Look
  <1>2. /\ seen'.at = now /\ seen'.inForce = inForce /\ seen'.pending = pending
        /\ seen'.effectiveAt = effectiveAt /\ seen'.venue = venue
        /\ seen'.pendingVenue = pendingVenue /\ seen'.venueEffectiveAt = venueEffectiveAt
    BY DEF Look, Reading
  <1>3. TypeOK'
    BY <1>1, <1>2 DEF TypeOK, settingVars, venueVars
  <1>4. SettingInv'
    <2>1. \A s \in Settings : \A l \in Limits[s] : inForce[s][l] <= inForce[s][l]
      BY ValuesAreNumbers DEF TypeOK
    <2> QED BY <1>1, <1>2, <2>1 DEF TypeOK, SettingInv, SeenTypeOK, AnnouncedInTime,
                                    NoSurprise, settingVars
  <1>5. VenueInv'
    BY <1>1, <1>2 DEF TypeOK, VenueInv, VenueAnnouncedInTime, NoVenueSurprise, venueVars
  <1> QED BY <1>1, <1>3, <1>4, <1>5, LastWordFrame

LEMMA TimelockInvStep == TimelockInv /\ [Next]_vars => TimelockInv'
  <1> SUFFICES ASSUME TimelockInv, [Next]_vars PROVE TimelockInv'
    OBVIOUS
  <1>1. CASE Next
    BY <1>1, ProposeKeepsInv, ApplyKeepsInv, VenueStepsKeepInv, TickKeepsInv, LookKeepsInv
       DEF Next
  <1>2. CASE UNCHANGED vars
    BY <1>2, SettingInvFrame, VenueInvFrame, LastWordFrame DEF vars, TimelockInv, TypeOK, settingVars, venueVars
  <1> QED BY <1>1, <1>2

THEOREM TimelockInvariant == Spec => []TimelockInv
  <1> QED BY TimelockInvInit, TimelockInvStep, PTL DEF Spec

THEOREM TimelockTypes == Spec => []TypeOK
  <1>1. TimelockInv => TypeOK BY DEF TimelockInv
  <1> QED BY TimelockInvariant, <1>1, PTL

(* DeltaMonVault.sol 54-60, 667-690, 719-742, 770-814: a depositor who     *)
(* looks once per delay is never met by a wider limit than the ones read.  *)
THEOREM LimitsNeverSurprise == Spec => []NoSurprise
  <1>1. TimelockInv => NoSurprise BY DEF TimelockInv, SettingInv
  <1> QED BY TimelockInvariant, <1>1, PTL

(* DeltaMonVault.sol 672-674, 723-725, 766-768: no raise stays armed       *)
(* behind a later cut.                                                     *)
THEOREM NoRaiseBehindACut == Spec => []RaiseIsTheLastWord
  <1>1. TimelockInv => RaiseIsTheLastWord BY DEF TimelockInv
  <1> QED BY TimelockInvariant, <1>1, PTL

(* DeltaMonVault.sol 56-57, 821-850: nor by a venue or an oracle that was  *)
(* not yet announced.                                                      *)
THEOREM VenueNeverSurprises == Spec => []NoVenueSurprise
  <1>1. TimelockInv => NoVenueSurprise BY DEF TimelockInv, VenueInv
  <1> QED BY TimelockInvariant, <1>1, PTL
=============================================================================
