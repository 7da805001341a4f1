------------------------------- MODULE QualityProofs -------------------------------
(* Proofs about QualityController, for any tiers and thresholds, and about    *)
(* RoomQuality, for any tiers, participants and bounds.                       *)
EXTENDS QualityController, SequenceTheorems, FiniteSetTheorems,
        WellFoundedInduction, TLAPS

(* RoomQuality follows in the second half, as an instance of its own.         *)
CONSTANTS Participant, MaxMoves, MaxJoins
VARIABLES present, tiers, roomTier, sending, inbox, told, overlapped, newcomers,
          moved, joined

Room == INSTANCE RoomQuality WITH tier <- tiers, moves <- moved, joins <- joined

\* A run of bad reports that counts began with the last report, and a forced
\* profile has none.
RunIsRecent ==
  /\ down > 0 => reports[1] < tier
  /\ forced => down = 0

Inv == TypeOK /\ ProbeIsOneStepUp /\ RunIsRecent /\ EncoderNearTier

-----------------------------------------------------------------------------
\* The thresholds and tiers as numbers.
LEMMA Numbers ==
  /\ TopTier \in Nat /\ Good \in Tier /\ Good = 2
  /\ FallAfter \in Nat /\ 1 < FallAfter /\ FallAfter <= DowngradeThreshold
  /\ RiseAfter \in Nat /\ 0 < RiseAfter /\ RiseAfter <= StudioUpgradeThreshold
  /\ Classes \subseteq Tier
  BY ThresholdAssumption, TopTierAssumption
     DEF FallAfter, RiseAfter, Good, Tier, Classes

\* The controller starts as the invariant says.
LEMMA InvInit == Init => Inv
<1> SUFFICES ASSUME Init PROVE Inv
  OBVIOUS
<1>1. /\ up \in 0..(StudioUpgradeThreshold - 1)
      /\ down \in 0..(DowngradeThreshold - 1)
      /\ bad \in 0..ProbeMaxBad
  BY ThresholdAssumption DEF Init
<1>2. reports \in Tier \X Tier
  BY Numbers DEF Init
<1>3. TypeOK
  BY <1>1, <1>2, Numbers DEF Init, TypeOK, Context
<1>4. ProbeIsOneStepUp /\ RunIsRecent /\ EncoderNearTier
  BY Numbers DEF Init, ProbeIsOneStepUp, RunIsRecent, EncoderNearTier,
     Recommended
<1> QED
  BY <1>3, <1>4 DEF Inv

\* What the history becomes.
LEMMA NoteStep ==
  ASSUME TypeOK, NEW seen \in Classes, Note(seen)
  PROVE  /\ reports' \in Tier \X Tier
         /\ reports'[1] = seen /\ reports'[2] = reports[1]
         /\ forced' = forced /\ context' = context /\ encoder' = encoder
  BY Numbers DEF TypeOK, Note

\* What a report without transition leaves behind, whatever the probe does.
LEMMA CountsStep ==
  ASSUME Inv, NEW seen \in Classes, NoTransition(seen)
  PROVE  /\ down' \in 0..(DowngradeThreshold - 1)
         /\ reports' \in Tier \X Tier /\ reports'[1] = seen
         /\ down' > 0 => seen < tier
         /\ ~forced /\ forced' = forced
         /\ context' = context /\ encoder' = encoder
  BY Numbers, ThresholdAssumption
     DEF Inv, TypeOK, NoTransition, Note, Falls, Tier

\* The count of better reports stays below its threshold.
LEMMA CountUpType ==
  ASSUME Inv, NEW seen \in Classes, CountUp(seen)
  PROVE  up' \in 0..(StudioUpgradeThreshold - 1)
  BY Numbers, ThresholdAssumption DEF Inv, TypeOK, CountUp, Rises, Tier

\* A report is answered by one of the ways observe ends; each keeps the
\* invariant.
LEMMA ObserveStep ==
  ASSUME Inv, NEW seen \in Classes, Observe(seen)
  PROVE  Inv'
<1> USE Numbers, ThresholdAssumption, TopTierAssumption DEF Inv
<1>1. CASE Fall(seen)
  <2>1. /\ up' \in 0..(StudioUpgradeThreshold - 1)
        /\ down' \in 0..(DowngradeThreshold - 1)
        /\ bad' \in 0..ProbeMaxBad
    BY <1>1, NoteStep DEF TypeOK, Tier, Fall, Falls, MoveTo, CancelProbe,
       StopProbe
  <2>2. tier' \in Tier /\ probe' \subseteq Tier /\ pending' \subseteq Tier
    BY <1>1, NoteStep DEF TypeOK, Tier, ProbeIsOneStepUp, Fall, Falls,
       MoveTo, CancelProbe, StopProbe
  <2>3. TypeOK'
    BY <1>1, <2>1, <2>2, NoteStep DEF TypeOK, Fall, Falls, MoveTo,
       CancelProbe, StopProbe
  <2>4. ProbeIsOneStepUp' /\ RunIsRecent' /\ EncoderNearTier'
    BY <1>1, NoteStep DEF TypeOK, Tier, ProbeIsOneStepUp, RunIsRecent,
       EncoderNearTier, Recommended, Fall, Falls, MoveTo, CancelProbe, StopProbe
  <2> QED
    BY <2>3, <2>4
<1>2. CASE Rise(seen)
  <2>1. /\ up' \in 0..(StudioUpgradeThreshold - 1)
        /\ down' \in 0..(DowngradeThreshold - 1)
        /\ bad' \in 0..ProbeMaxBad
    BY <1>2, NoteStep DEF TypeOK, Tier, Rise, Rises, MoveTo, NextStep,
       CancelProbe, StopProbe
  <2>2. tier' \in Tier /\ probe' \subseteq Tier /\ pending' \subseteq Tier
    BY <1>2, NoteStep DEF TypeOK, Tier, ProbeIsOneStepUp, Rise, Rises,
       MoveTo, NextStep, CancelProbe, StopProbe
  <2>3. TypeOK'
    BY <1>2, <2>1, <2>2, NoteStep DEF TypeOK, Rise, Rises, MoveTo,
       NextStep, CancelProbe, StopProbe
  <2>4. ProbeIsOneStepUp' /\ RunIsRecent' /\ EncoderNearTier'
    BY <1>2, NoteStep DEF TypeOK, Tier, ProbeIsOneStepUp, RunIsRecent,
       EncoderNearTier, Recommended, Rise, Rises, MoveTo, NextStep,
       CancelProbe, StopProbe
  <2> QED
    BY <2>3, <2>4
<1>3. CASE ProbeFails(seen)
  <2>1. /\ up' \in 0..(StudioUpgradeThreshold - 1)
        /\ down' \in 0..(DowngradeThreshold - 1)
        /\ bad' \in 0..ProbeMaxBad
    BY <1>3, CountsStep, CountUpType DEF TypeOK, Tier, ProbeFails,
       StopProbe, Stay
  <2>2. tier' \in Tier /\ probe' \subseteq Tier /\ pending' \subseteq Tier
    BY <1>3, CountsStep, CountUpType DEF TypeOK, Tier, ProbeIsOneStepUp,
       ProbeFails, StopProbe, Stay
  <2>3. TypeOK'
    BY <1>3, <2>1, <2>2, CountsStep, CountUpType DEF TypeOK, ProbeFails,
       StopProbe, Stay
  <2>4. ProbeIsOneStepUp' /\ RunIsRecent' /\ EncoderNearTier'
    BY <1>3, CountsStep, CountUpType DEF TypeOK, Tier, ProbeIsOneStepUp,
       RunIsRecent,
       EncoderNearTier, Recommended, ProbeFails, StopProbe, Stay
  <2> QED
    BY <2>3, <2>4
<1>4. CASE ProbeSucceeds(seen)
  <2>1. /\ up' \in 0..(StudioUpgradeThreshold - 1)
        /\ down' \in 0..(DowngradeThreshold - 1)
        /\ bad' \in 0..ProbeMaxBad
    BY <1>4, CountsStep DEF TypeOK, Tier, ProbeSucceeds, MayProbe, MoveTo,
       StopProbe
  <2>2. tier' \in Tier /\ probe' \subseteq Tier /\ pending' \subseteq Tier
    BY <1>4, CountsStep DEF TypeOK, Tier, ProbeIsOneStepUp, ProbeSucceeds,
       MayProbe, MoveTo, StopProbe
  <2>3. TypeOK'
    BY <1>4, <2>1, <2>2, CountsStep DEF TypeOK, ProbeSucceeds, MayProbe,
       MoveTo, StopProbe
  <2>4. ProbeIsOneStepUp' /\ RunIsRecent' /\ EncoderNearTier'
    BY <1>4, CountsStep DEF TypeOK, Tier, ProbeIsOneStepUp, RunIsRecent,
       EncoderNearTier, Recommended, ProbeSucceeds, MayProbe, MoveTo, StopProbe
  <2> QED
    BY <2>3, <2>4
<1>5. CASE ProbeGoesOn(seen)
  <2>1. /\ up' \in 0..(StudioUpgradeThreshold - 1)
        /\ down' \in 0..(DowngradeThreshold - 1)
        /\ bad' \in 0..ProbeMaxBad
    BY <1>5, CountsStep, CountUpType DEF TypeOK, Tier, ProbeGoesOn, Bad, Stay
  <2>2. tier' \in Tier /\ probe' \subseteq Tier /\ pending' \subseteq Tier
    BY <1>5, CountsStep, CountUpType DEF TypeOK, Tier, ProbeIsOneStepUp,
       ProbeGoesOn, Bad, Stay
  <2>3. TypeOK'
    BY <1>5, <2>1, <2>2, CountsStep, CountUpType DEF TypeOK, ProbeGoesOn,
       Bad, Stay
  <2>4. ProbeIsOneStepUp' /\ RunIsRecent' /\ EncoderNearTier'
    BY <1>5, CountsStep, CountUpType DEF TypeOK, Tier, ProbeIsOneStepUp,
       RunIsRecent,
       EncoderNearTier, Recommended, ProbeGoesOn, Bad, Stay
  <2> QED
    BY <2>3, <2>4
<1>6. CASE StartProbe(seen)
  <2>1. /\ up' \in 0..(StudioUpgradeThreshold - 1)
        /\ down' \in 0..(DowngradeThreshold - 1)
        /\ bad' \in 0..ProbeMaxBad
    BY <1>6, CountsStep, CountUpType DEF TypeOK, Tier, StartProbe, MayProbe
  <2>2. tier' \in Tier /\ probe' \subseteq Tier /\ pending' \subseteq Tier
    BY <1>6, CountsStep, CountUpType DEF TypeOK, Tier, ProbeIsOneStepUp,
       StartProbe, MayProbe
  <2>3. TypeOK'
    BY <1>6, <2>1, <2>2, CountsStep, CountUpType DEF TypeOK, StartProbe,
       MayProbe
  <2>4. ProbeIsOneStepUp' /\ RunIsRecent' /\ EncoderNearTier'
    BY <1>6, CountsStep, CountUpType DEF TypeOK, Tier, ProbeIsOneStepUp,
       RunIsRecent,
       EncoderNearTier, Recommended, StartProbe, MayProbe
  <2> QED
    BY <2>3, <2>4
<1>7. CASE Watch(seen)
  <2>1. /\ up' \in 0..(StudioUpgradeThreshold - 1)
        /\ down' \in 0..(DowngradeThreshold - 1)
        /\ bad' \in 0..ProbeMaxBad
    BY <1>7, CountsStep, CountUpType DEF TypeOK, Tier, Watch, probing, Stay
  <2>2. tier' \in Tier /\ probe' \subseteq Tier /\ pending' \subseteq Tier
    BY <1>7, CountsStep, CountUpType DEF TypeOK, Tier, ProbeIsOneStepUp,
       Watch, probing, Stay
  <2>3. stable' \in BOOLEAN
    <3>1. seen \in Nat /\ tier \in Nat
      BY DEF TypeOK, Tier
    <3>2. (seen >= tier) \in BOOLEAN
      BY <3>1
    <3> QED
      BY <1>7, <3>2 DEF TypeOK, Watch, probing
  <2>4. TypeOK'
    BY <1>7, <2>1, <2>2, <2>3, CountsStep, CountUpType DEF TypeOK, Watch,
       probing, Stay
  <2>5. ProbeIsOneStepUp' /\ RunIsRecent' /\ EncoderNearTier'
    BY <1>7, CountsStep, CountUpType DEF TypeOK, Tier, ProbeIsOneStepUp,
       RunIsRecent,
       EncoderNearTier, Recommended, Watch, probing, Stay
  <2> QED
    BY <2>4, <2>5
<1>8. CASE Ignore(seen)
  <2>1. /\ up' \in 0..(StudioUpgradeThreshold - 1)
        /\ down' \in 0..(DowngradeThreshold - 1)
        /\ bad' \in 0..ProbeMaxBad
    BY <1>8, NoteStep DEF TypeOK, Tier, Ignore, Stay, counters, probing
  <2>2. tier' \in Tier /\ probe' \subseteq Tier /\ pending' \subseteq Tier
    BY <1>8, NoteStep DEF TypeOK, Tier, ProbeIsOneStepUp, Ignore, Stay,
       counters, probing
  <2>3. TypeOK'
    BY <1>8, <2>1, <2>2, NoteStep DEF TypeOK, Ignore, Stay, counters, probing
  <2>4. RunIsRecent'
    BY <1>8, NoteStep DEF TypeOK, RunIsRecent, Ignore, Stay, counters
  <2>5. ProbeIsOneStepUp' /\ EncoderNearTier'
    BY <1>8, NoteStep DEF ProbeIsOneStepUp, EncoderNearTier, Recommended,
       Ignore, Stay, probing
  <2> QED
    BY <2>3, <2>4, <2>5
<1> QED
  BY <1>1, <1>2, <1>3, <1>4, <1>5, <1>6, <1>7, <1>8 DEF Observe

\* Every step keeps the invariant.
LEMMA InvStep ==
  ASSUME Inv, [Next]_vars
  PROVE  Inv'
<1> USE Numbers, ThresholdAssumption, TopTierAssumption DEF Inv, TypeOK,
        ProbeIsOneStepUp, RunIsRecent, EncoderNearTier, Recommended
<1>1. ASSUME NEW seen \in Classes, Observe(seen) PROVE Inv'
  BY <1>1, ObserveStep
<1>2. ASSUME NEW to \in Context, NetworkChange(to) PROVE Inv'
  <2>1. /\ up' \in 0..(StudioUpgradeThreshold - 1)
        /\ down' \in 0..(DowngradeThreshold - 1)
        /\ bad' = 0 /\ 0 \in 0..ProbeMaxBad
    BY <1>2 DEF NetworkChange, CancelProbe, StopProbe, counters
  <2>2. tier' \in Tier /\ profile' \in Tier
    BY <1>2 DEF NetworkChange, Tier
  <2>3. forced' \in BOOLEAN /\ adrift' \in BOOLEAN
    BY <1>2 DEF NetworkChange
  <2>4. TypeOK'
    BY <1>2, <2>1, <2>2, <2>3 DEF NetworkChange, CancelProbe, StopProbe
  <2>5. RunIsRecent'
    BY <1>2 DEF NetworkChange, counters
  <2>6. ProbeIsOneStepUp'
    BY <1>2 DEF NetworkChange, CancelProbe, StopProbe
  <2>7. EncoderNearTier'
    <3>1. adrift' \/ (adrift' = adrift /\ tier' = tier)
      BY <1>2 DEF NetworkChange, Tier
    <3>2. pending' = pending /\ encoder' = encoder /\ (adrift => adrift')
      BY <1>2 DEF NetworkChange
    <3> QED
      BY <3>1, <3>2
  <2> QED
    BY <2>4, <2>5, <2>6, <2>7
<1>3. ASSUME NEW p \in Asked, ForceProfile(p) PROVE Inv'
  <2>0. p \in Tier
    OBVIOUS
  <2>1. /\ 0 \in 0..(StudioUpgradeThreshold - 1)
        /\ 0 \in 0..(DowngradeThreshold - 1)
    OBVIOUS
  <2>2. TypeOK'
    BY <1>3, <2>0, <2>1 DEF ForceProfile, probing
  <2>3. RunIsRecent' /\ EncoderNearTier'
    BY <1>3 DEF ForceProfile
  <2>4. ProbeIsOneStepUp'
    BY <1>3 DEF ForceProfile, probing
  <2> QED
    BY <2>2, <2>3, <2>4
<1>4. CASE ResetCounters
  <2>1. /\ 0 \in 0..(StudioUpgradeThreshold - 1)
        /\ 0 \in 0..(DowngradeThreshold - 1)
        /\ 0 \in 0..ProbeMaxBad
    OBVIOUS
  <2>2. TypeOK'
    BY <1>4, <2>1 DEF ResetCounters, CancelProbe, StopProbe
  <2>3. ProbeIsOneStepUp' /\ RunIsRecent' /\ EncoderNearTier'
    BY <1>4 DEF ResetCounters, CancelProbe, StopProbe
  <2> QED
    BY <2>2, <2>3
<1>5. CASE ApplyProfile
  BY <1>5 DEF ApplyProfile, controller, counters, probing
<1>6. ASSUME NEW p \in Asked, Directive(p) PROVE Inv'
  <2>1. p \in Tier
    OBVIOUS
  <2>2. TypeOK'
    BY <1>6, <2>1 DEF Directive, controller, counters, probing
  <2>3. ProbeIsOneStepUp' /\ RunIsRecent' /\ EncoderNearTier'
    BY <1>6 DEF Directive, controller, counters, probing
  <2> QED
    BY <2>2, <2>3
<1>7. ASSUME NEW p \in Asked, ApplyEffective(p) PROVE Inv'
  <2>1. p \in Tier
    OBVIOUS
  <2>2. (pending = {}) \in BOOLEAN /\ adrift' \in BOOLEAN
    BY <1>7 DEF ApplyEffective
  <2>3. TypeOK'
    BY <1>7, <2>1, <2>2 DEF ApplyEffective, controller, counters, probing
  <2>4. ProbeIsOneStepUp' /\ RunIsRecent'
    BY <1>7 DEF ApplyEffective, controller, counters, probing
  <2>5. EncoderNearTier'
    <3>1. CASE pending = {}
      BY <1>7, <3>1 DEF ApplyEffective
    <3>2. CASE pending # {}
      BY <1>7, <3>2 DEF ApplyEffective, controller
    <3> QED
      BY <3>1, <3>2
  <2> QED
    BY <2>3, <2>4, <2>5
<1>8. CASE UNCHANGED vars
  <2>1. TypeOK'
    BY <1>8 DEF vars
  <2>2. ProbeIsOneStepUp' /\ RunIsRecent' /\ EncoderNearTier'
    BY <1>8 DEF vars
  <2> QED
    BY <2>1, <2>2
<1> QED
  BY <1>1, <1>2, <1>3, <1>4, <1>5, <1>6, <1>7, <1>8 DEF Next

-----------------------------------------------------------------------------
\* The invariant holds in every reachable state of AdaptiveQualityController.
THEOREM Inductive == Spec => []Inv
  BY InvInit, InvStep, PTL DEF Spec

\* The types and the bounds of the counters, of AdaptiveQualityController.
THEOREM SpecTypeOK == Spec => []TypeOK
<1>1. Inv => TypeOK
  BY DEF Inv
<1> QED
  BY <1>1, Inductive, PTL

\* A running probe tests the tier above the current one, whatever moves the
\* tier meanwhile.
THEOREM ProbesAreOneStepUp == Spec => []ProbeIsOneStepUp
<1>1. Inv => ProbeIsOneStepUp
  BY DEF Inv
<1> QED
  BY <1>1, Inductive, PTL

\* Whoever else steers the encoder, where the controller had the last word it
\* was told the controller's tier or the one above.
THEOREM EncoderStaysNear == Spec => []EncoderNearTier
<1>1. Inv => EncoderNearTier
  BY DEF Inv
<1> QED
  BY <1>1, Inductive, PTL

\* observe never lowers the tier on a single bad report.
THEOREM FallsTakeTwoReports == Spec => FallsAreEarned
<1>1. ASSUME Inv, [Next]_vars, tier' < tier, context' = context
      PROVE  reports'[1] < tier /\ reports'[2] < tier
  <2> USE Numbers, ThresholdAssumption, TopTierAssumption DEF Tier, Inv, TypeOK
  <2>1. ASSUME NEW seen \in Classes, Observe(seen)
        PROVE  reports'[1] < tier /\ reports'[2] < tier
    <3>1. Fall(seen)
      BY <1>1, <2>1 DEF Observe, Rise, ProbeFails, ProbeSucceeds, ProbeGoesOn,
         StartProbe, Watch, Ignore, MoveTo, NextStep, Stay, ProbeIsOneStepUp
    <3>2. down > 0 /\ seen < tier /\ tier' = seen
      BY <1>1, <3>1 DEF Fall, Falls, MoveTo
    <3>3. reports'[1] = seen /\ reports'[2] = reports[1]
      BY <1>1, <3>1, NoteStep DEF Fall
    <3> QED
      BY <1>1, <3>2, <3>3 DEF RunIsRecent
  <2>2. ASSUME NEW to \in Context, NetworkChange(to)
        PROVE  FALSE
    BY <1>1, <2>2 DEF NetworkChange
  <2>3. CASE \/ \E p \in Asked : \/ ForceProfile(p)
                             \/ Directive(p) \/ ApplyEffective(p)
             \/ ResetCounters \/ ApplyProfile \/ UNCHANGED vars
    BY <1>1, <2>3 DEF ForceProfile, Directive, ApplyEffective, controller,
       ResetCounters, ApplyProfile, vars
  <2> QED
    BY <1>1, <2>1, <2>2, <2>3 DEF Next
<1> QED
  BY <1>1, Inductive, PTL DEF Spec, FallsAreEarned

\* The tier never climbs into the studio tiers on a cellular network.
THEOREM CellularStaysOffStudio == Spec => NoStudioOnCellular
<1>1. ASSUME Inv, [Next]_vars, context = "cellular", tier' > tier
      PROVE  tier' <= Good
  <2> USE Numbers, ThresholdAssumption, TopTierAssumption DEF Tier, Inv, TypeOK
  <2>1. ASSUME NEW seen \in Classes, Observe(seen)
        PROVE  tier' <= Good
    <3>1. Rise(seen)
      BY <1>1, <2>1 DEF Observe, Fall, Falls, ProbeFails, ProbeSucceeds,
         ProbeGoesOn, StartProbe, Watch, Ignore, MoveTo, MayProbe, Stay
    <3> QED
      BY <1>1, <3>1 DEF Rise, Rises, MoveTo, NextStep, Classes
  <2>2. ASSUME NEW to \in Context, NetworkChange(to)
        PROVE  FALSE
    BY <1>1, <2>2 DEF NetworkChange
  <2>3. CASE \/ \E p \in Asked : \/ ForceProfile(p)
                             \/ Directive(p) \/ ApplyEffective(p)
             \/ ResetCounters \/ ApplyProfile \/ UNCHANGED vars
    BY <1>1, <2>3 DEF ForceProfile, Directive, ApplyEffective, controller,
       ResetCounters, ApplyProfile, vars
  <2> QED
    BY <1>1, <2>1, <2>2, <2>3 DEF Next
<1> QED
  BY <1>1, Inductive, PTL DEF Spec, NoStudioOnCellular

\* A tier falls to any lower one or rises by one step: what the relay's room
\* tier takes for granted (MovesFrom in RoomQuality).
THEOREM TierMovesInSteps == Spec => TierSteps
<1>1. ASSUME Inv, [Next]_vars, tier' # tier
      PROVE  tier' \in MovesFrom(tier)
  <2> USE Numbers, ThresholdAssumption, TopTierAssumption
      DEF Tier, Inv, TypeOK, MovesFrom
  <2>1. ASSUME NEW seen \in Classes, Observe(seen)
        PROVE  tier' \in MovesFrom(tier)
    BY <1>1, <2>1 DEF Observe, Fall, Falls, Rise, Rises, ProbeFails,
       ProbeSucceeds, ProbeGoesOn, StartProbe, Watch, Ignore, MoveTo, NextStep,
       Stay, MayProbe, ProbeIsOneStepUp
  <2>2. ASSUME NEW to \in Context, NetworkChange(to)
        PROVE  tier' \in MovesFrom(tier)
    BY <1>1, <2>2 DEF NetworkChange
  <2>3. CASE \/ \E p \in Asked : \/ ForceProfile(p)
                             \/ Directive(p) \/ ApplyEffective(p)
             \/ ResetCounters \/ ApplyProfile \/ UNCHANGED vars
    BY <1>1, <2>3 DEF ForceProfile, Directive, ApplyEffective, controller,
       ResetCounters, ApplyProfile, vars
  <2> QED
    BY <1>1, <2>1, <2>2, <2>3 DEF Next
<1>2. Init => tier = Good
  BY DEF Init
<1>3. Inv /\ [Next]_vars => [tier' \in MovesFrom(tier)]_tier
  BY <1>1
<1> QED
  BY <1>2, <1>3, Inductive, PTL DEF Spec, TierSteps

-----------------------------------------------------------------------------
(* The relay's room: RoomQuality *)

\* A set of tiers has a weakest one, which is what Min returns.
LEMMA LeastTier ==
  ASSUME NEW S \in SUBSET Room!Tier, S # {}
  PROVE  Room!Min(S) \in S /\ \A t \in S : Room!Min(S) <= t
<1> DEFINE Below(x) == {y \in S : y < x}
           T == {D \in SUBSET S : \E x \in S : D = Below(x)}
<1>1. IsFiniteSet(S) /\ S \subseteq Nat
  <2>1. 0 \in Int /\ TopTier \in Int
    BY TopTierAssumption
  <2>2. IsFiniteSet(0..TopTier)
    BY <2>1, FS_Interval
  <2>3. S \subseteq 0..TopTier
    BY DEF Room!Tier
  <2>4. S \subseteq Nat
    BY <2>1, <2>3
  <2>5. IsFiniteSet(S)
    BY <2>2, <2>3, FS_Subset
  <2> QED
    BY <2>4, <2>5
<1>2. IsWellFoundedOn(StrictSubsetOrdering(S), SUBSET S)
  BY <1>1, FS_StrictSubsetOrderingWellFounded, FS_FiniteSubsetsOfFinite
<1>3. T \subseteq SUBSET S /\ T # {}
  <2>1. PICK x \in S : TRUE
    OBVIOUS
  <2>2. Below(x) \in T
    OBVIOUS
  <2> QED
    BY <2>2
<1>4. \E D \in T : \A E \in T : ~(<<E, D>> \in StrictSubsetOrdering(S))
  <2> HIDE DEF T
  <2> QED
    BY <1>2, <1>3, WFMin
<1>5. PICK D \in T : \A E \in T : ~(<<E, D>> \in StrictSubsetOrdering(S))
  BY <1>4
<1>6. PICK x \in S : D = Below(x)
  OBVIOUS
<1>7. ASSUME NEW y \in S, ~(x <= y)
      PROVE  FALSE
  <2>1. y < x
    BY <1>1, <1>7
  <2>2. Below(y) \subseteq Below(x) /\ y \in Below(x) /\ y \notin Below(y)
    <3>1. x \in Nat /\ y \in Nat /\ \A z \in S : z \in Nat
      BY <1>1
    <3>2. ASSUME NEW z \in Below(y)
          PROVE  z \in Below(x)
      <4>1. z \in S /\ z \in Nat /\ z < y
        BY <3>1
      <4>2. z < x
        BY <4>1, <2>1, <3>1
      <4> QED
        BY <4>1, <4>2
    <3>3. y \in Below(x)
      BY <2>1
    <3>4. y \notin Below(y)
      BY <3>1
    <3> QED
      BY <3>2, <3>3, <3>4
  <2>3. Below(y) \in T
    OBVIOUS
  <2>4. <<Below(y), D>> \in StrictSubsetOrdering(S)
    BY <1>6, <2>2 DEF StrictSubsetOrdering
  <2> QED
    BY <1>5, <2>3, <2>4
<1>8. \E z \in S : \A y \in S : z <= y
  BY <1>7
<1> QED
  BY <1>8 DEF Room!Min

\* weakest_tier is a tier, and none of the participants is below it.
LEMMA WeakestIsLeast ==
  ASSUME Room!TypeOK, NEW p \in Participant, NEW t \in Room!Tier
  PROVE  /\ Room!Weakest(p, t) \in Room!Tier
         /\ Room!Weakest(p, t) <= t
         /\ \A q \in present \ {p} : Room!Weakest(p, t) <= tiers[q]
<1> DEFINE S == {tiers[q] : q \in present \ {p}} \cup {t}
<1>1. S \in SUBSET Room!Tier /\ S # {}
  BY DEF Room!TypeOK
<1>2. Room!Min(S) \in S /\ \A u \in S : Room!Min(S) <= u
  BY <1>1, LeastTier
<1> QED
  BY <1>1, <1>2 DEF Room!Weakest

-----------------------------------------------------------------------------
\* Every step keeps the types.
LEMMA RoomTypeStep ==
  ASSUME Room!TypeOK, [Room!Next]_(Room!vars),
         MaxMoves \in Nat, MaxJoins \in Nat
  PROVE  Room!TypeOK'
<1> USE DEF Room!TypeOK
<1>1. Room!Good \in Room!Tier
  BY TopTierAssumption DEF Room!Good, Room!Tier
<1>2. CASE UNCHANGED Room!vars
  BY <1>2 DEF Room!vars
<1>3. ASSUME NEW p \in Participant, Room!Join(p)
      PROVE  Room!TypeOK'
  BY <1>1, <1>3 DEF Room!Join
<1>4. ASSUME NEW p \in Participant, Room!Leave(p)
      PROVE  Room!TypeOK'
  <2>1. \A q \in Participant :
          [sending[q] EXCEPT !.to = @ \ {p}] \in [tier : Room!Tier, to : SUBSET Participant]
    <3>1. ASSUME NEW q \in Participant,
                 NEW d \in [tier : Room!Tier, to : SUBSET Participant]
          PROVE  [d EXCEPT !.to = @ \ {p}] \in [tier : Room!Tier, to : SUBSET Participant]
      OBVIOUS
    <3> QED
      BY <3>1
  <2>2. sending' \in [Participant -> [tier : Room!Tier, to : SUBSET Participant]]
    BY <1>4, <2>1 DEF Room!Leave
  <2> QED
    BY <1>4, <2>2 DEF Room!Leave
<1>5. ASSUME NEW p \in Participant, NEW t \in Room!MovesFrom(tiers[p]), Room!ObserveQuality(p, t)
      PROVE  Room!TypeOK'
  <2>1. t \in Room!Tier
    BY DEF Room!MovesFrom
  <2>2. Room!Weakest(p, t) \in Room!Tier
    BY <2>1, WeakestIsLeast
  <2> QED
    <3>1. [tier |-> Room!Weakest(p, t), to |-> present] \in [tier : Room!Tier, to : SUBSET Participant]
      BY <2>2
    <3>2. sending' \in [Participant -> [tier : Room!Tier, to : SUBSET Participant]]
      BY <1>5, <3>1 DEF Room!ObserveQuality, Room!AllSenders
    <3>3. overlapped' \in BOOLEAN
      BY <1>5, Zenon DEF Room!ObserveQuality
    <3>4. moved' \in 0..MaxMoves
      BY <1>5 DEF Room!ObserveQuality
    <3> QED
      BY <1>5, <2>1, <2>2, <3>2, <3>3, <3>4 DEF Room!ObserveQuality
<1>6. ASSUME NEW p \in Participant, NEW q \in Participant, Room!Broadcast(p, q)
      PROVE  Room!TypeOK'
  <2>1. /\ sending[p].tier \in Room!Tier /\ sending[p].to \subseteq Participant
        /\ inbox[q] \in Seq(Room!Tier)
    OBVIOUS
  <2>2. Append(inbox[q], sending[p].tier) \in Seq(Room!Tier)
    BY <2>1
  <2>3. inbox' \in [Participant -> Seq(Room!Tier)]
    BY <1>6, <2>2 DEF Room!Broadcast
  <2> QED
    <3> DEFINE Announced == [tier : Room!Tier, to : SUBSET Participant]
    <3>0. ASSUME NEW d \in Announced
          PROVE  [d EXCEPT !.to = @ \ {q}] \in Announced
      OBVIOUS
    <3>1. [sending[p] EXCEPT !.to = @ \ {q}] \in Announced
      BY <3>0
    <3>2. sending' \in [Participant -> [tier : Room!Tier, to : SUBSET Participant]]
      BY <1>6, <3>1 DEF Room!Broadcast
    <3> QED
      BY <1>6, <2>3, <3>2 DEF Room!Broadcast
<1>7. ASSUME NEW p \in Participant, Room!ReceiveDirective(p)
      PROVE  Room!TypeOK'
  <2>1. Head(inbox[p]) \in Room!Tier /\ Tail(inbox[p]) \in Seq(Room!Tier)
    BY <1>7 DEF Room!ReceiveDirective
  <2> QED
    BY <1>7, <2>1 DEF Room!ReceiveDirective
<1> QED
  BY <1>2, <1>3, <1>4, <1>5, <1>6, <1>7 DEF Room!Next

\* Only a join puts somebody next to a tier that does not know of him, and
\* only a report that moves a controller sets the tier, from all of them.
LEMMA WeakestStep ==
  ASSUME Room!TypeOK, Room!RoomNotAboveWeakest, [Room!Next]_(Room!vars)
  PROVE  Room!RoomNotAboveWeakest'
<1> USE DEF Room!TypeOK, Room!RoomNotAboveWeakest
<1>1. CASE UNCHANGED <<present, tiers, roomTier, newcomers>>
  BY <1>1
<1>2. ASSUME NEW p \in Participant, Room!Join(p)
      PROVE  Room!RoomNotAboveWeakest'
  BY <1>2, TopTierAssumption DEF Room!Join, Room!Good, Room!Tier
<1>3. ASSUME NEW p \in Participant, Room!Leave(p)
      PROVE  Room!RoomNotAboveWeakest'
  BY <1>3 DEF Room!Leave
<1>4. ASSUME NEW p \in Participant, NEW t \in Room!MovesFrom(tiers[p]), Room!ObserveQuality(p, t)
      PROVE  Room!RoomNotAboveWeakest'
  <2>1. t \in Room!Tier
    BY DEF Room!MovesFrom
  <2>2. /\ Room!Weakest(p, t) <= t
        /\ \A q \in present \ {p} : Room!Weakest(p, t) <= tiers[q]
    BY <2>1, WeakestIsLeast
  <2>3. /\ present' = present /\ roomTier' = Room!Weakest(p, t)
        /\ tiers' = [tiers EXCEPT ![p] = t]
    BY <1>4 DEF Room!ObserveQuality
  <2> QED
    BY <2>2, <2>3
<1> QED
  BY <1>1, <1>2, <1>3, <1>4
  DEF Room!Next, Room!vars, Room!Broadcast, Room!ReceiveDirective

-----------------------------------------------------------------------------
RoomInv == Room!TypeOK /\ Room!RoomNotAboveWeakest

\* What observe_quality and the joins and leaves keep is inductive.
THEOREM RoomInductive ==
  ASSUME MaxMoves \in Nat, MaxJoins \in Nat
  PROVE  Room!Spec => []RoomInv
<1>1. Room!Init => RoomInv
  <2>1. Room!Good \in Room!Tier /\ 0 \in 0..MaxMoves /\ 0 \in 0..MaxJoins
    BY TopTierAssumption DEF Room!Good, Room!Tier
  <2>2. Room!NoDirective \in [tier : Room!Tier, to : SUBSET Participant]
    BY <2>1 DEF Room!NoDirective
  <2>3. <<>> \in Seq(Room!Tier)
    OBVIOUS
  <2> QED
    BY <2>1, <2>2, <2>3
    DEF Room!Init, RoomInv, Room!TypeOK, Room!RoomNotAboveWeakest
<1>2. RoomInv /\ [Room!Next]_(Room!vars) => RoomInv'
  BY RoomTypeStep, WeakestStep DEF RoomInv
<1> QED
  BY <1>1, <1>2, PTL DEF Room!Spec

\* The controllers, the room's tier and the directives under way keep their types.
THEOREM RoomTypeOK ==
  ASSUME MaxMoves \in Nat, MaxJoins \in Nat
  PROVE  Room!Spec => []Room!TypeOK
<1>1. RoomInv => Room!TypeOK
  BY DEF RoomInv
<1> QED
  BY <1>1, RoomInductive, PTL

\* observe_quality and the joins and leaves around it never leave the room
\* above a participant's tier, but for one who joined a room above Good since
\* the last report that moved a controller.
THEOREM RoomIsNotAboveWeakest ==
  ASSUME MaxMoves \in Nat, MaxJoins \in Nat
  PROVE  Room!Spec => []Room!RoomNotAboveWeakest
<1>1. RoomInv => Room!RoomNotAboveWeakest
  BY DEF RoomInv
<1> QED
  BY <1>1, RoomInductive, PTL
-----------------------------------------------------------------------------
(* Directives sent one after the other *)

\* Who is present and is owed no directive: his last one, on its way or
\* received, is the room's tier.
LastIsRoomTier(q) ==
  IF inbox[q] # <<>> THEN inbox[q][Len(inbox[q])] = roomTier
                     ELSE told[q] # {} => told[q] = {roomTier}

\* Only who is present sends and is sent to; and as long as no two directives
\* were sent at once the one that is being sent is the room's tier.
DirectiveInv ==
  /\ \A p \in Participant : sending[p].to \subseteq present
  /\ \A p \in Participant : sending[p].to # {} => p \in present
  /\ ~overlapped =>
       /\ \A p \in Participant : sending[p].to # {} => sending[p].tier = roomTier
       /\ \A q \in present :
            (\A p \in Participant : q \notin sending[p].to) => LastIsRoomTier(q)

\* What taking somebody off the list of a directive leaves of it.
LEMMA DirectiveFields ==
  ASSUME NEW d \in [tier : Room!Tier, to : SUBSET Participant], NEW p
  PROVE  /\ [d EXCEPT !.to = @ \ {p}].to = d.to \ {p}
         /\ [d EXCEPT !.to = @ \ {p}].tier = d.tier
  OBVIOUS

\* A newcomer is owed nothing and was told nothing, and a room that was empty
\* is sending nothing.
LEMMA JoinInOrder ==
  ASSUME Room!TypeOK, DirectiveInv, NEW p \in Participant, Room!Join(p)
  PROVE  DirectiveInv'
<1>1. /\ sending' = sending /\ present' = present \cup {p}
      /\ inbox'[p] = <<>> /\ told'[p] = {}
      /\ \A q \in Participant \ {p} : inbox'[q] = inbox[q] /\ told'[q] = told[q]
  BY DEF Room!Join, Room!TypeOK
<1>2. CASE present = {}
  <2>1. \A q \in Participant : sending[q].to = {}
    BY <1>2 DEF DirectiveInv
  <2>2. LastIsRoomTier(p)'
    BY <1>1 DEF LastIsRoomTier
  <2> QED
    BY <1>1, <1>2, <2>1, <2>2 DEF DirectiveInv
<1>3. CASE present # {}
  <2>1. roomTier' = roomTier /\ overlapped' = overlapped
    BY <1>3 DEF Room!Join, Room!TypeOK
  <2>2. LastIsRoomTier(p)'
    BY <1>1 DEF LastIsRoomTier
  <2>3. \A q \in present : q # p /\ (LastIsRoomTier(q) => LastIsRoomTier(q)')
    BY <1>1, <2>1 DEF LastIsRoomTier, Room!Join, Room!TypeOK
  <2> QED
    BY <1>1, <2>1, <2>2, <2>3 DEF DirectiveInv
<1> QED
  BY <1>2, <1>3

\* Who leaves is taken off every list and has sent what he had to send.
LEMMA LeaveInOrder ==
  ASSUME Room!TypeOK, DirectiveInv, NEW p \in Participant, Room!Leave(p)
  PROVE  DirectiveInv'
<1>1. \A q \in Participant : /\ sending'[q].to = sending[q].to \ {p}
                             /\ sending'[q].tier = sending[q].tier
  BY DirectiveFields DEF Room!Leave, Room!TypeOK
<1>2. /\ present' = present \ {p} /\ sending[p].to = {}
      /\ roomTier' = roomTier /\ overlapped' = overlapped
      /\ \A q \in present' : LastIsRoomTier(q) => LastIsRoomTier(q)'
  BY DEF Room!Leave, LastIsRoomTier
<1> QED
  BY <1>1, <1>2 DEF DirectiveInv

\* A new directive goes to everybody; if it is the only one it is the last
\* that anybody will have heard.
LEMMA ReportInOrder ==
  ASSUME Room!TypeOK, DirectiveInv, NEW p \in Participant, NEW t \in Room!Tier,
         Room!ObserveQuality(p, t)
  PROVE  DirectiveInv'
<1>1. present' = present /\ inbox' = inbox /\ told' = told /\ p \in present
  BY DEF Room!ObserveQuality
<1>2. CASE UNCHANGED <<sending, overlapped, roomTier>>
  BY <1>1, <1>2 DEF DirectiveInv, LastIsRoomTier
<1>3. CASE /\ sending' = [sending EXCEPT ![p] =
                            [tier |-> roomTier', to |-> present]]
           /\ overlapped' = (overlapped \/ \E q \in Participant : sending[q].to # {})
  <2>1. /\ sending'[p].tier = roomTier' /\ sending'[p].to = present
        /\ \A q \in Participant \ {p} : sending'[q] = sending[q]
    BY <1>3 DEF Room!TypeOK
  <2>2. ~overlapped' => \A q \in Participant : sending[q].to = {}
    BY <1>3
  <2> QED
    BY <1>1, <2>1, <2>2 DEF DirectiveInv
<1>4. \/ UNCHANGED <<sending, overlapped, roomTier>>
      \/ /\ sending' = [sending EXCEPT ![p] = [tier |-> roomTier', to |-> present]]
         /\ overlapped' = (overlapped \/ \E q \in Participant : sending[q].to # {})
  BY Zenon DEF Room!ObserveQuality, Room!AllSenders
<1> QED
  BY <1>2, <1>3, <1>4

\* Who is sent a directive has it as his last from then on.
LEMMA BroadcastInOrder ==
  ASSUME Room!TypeOK, DirectiveInv, NEW p \in Participant, NEW q \in Participant,
         Room!Broadcast(p, q)
  PROVE  DirectiveInv'
<1>1. /\ sending'[p].to = sending[p].to \ {q} /\ sending'[p].tier = sending[p].tier
      /\ \A r \in Participant \ {p} : sending'[r] = sending[r]
  BY DirectiveFields DEF Room!Broadcast, Room!TypeOK
<1>2. /\ q \in sending[p].to /\ present' = present /\ told' = told
      /\ roomTier' = roomTier /\ overlapped' = overlapped
      /\ inbox'[q] = Append(inbox[q], sending[p].tier)
      /\ \A r \in Participant \ {q} : inbox'[r] = inbox[r]
  BY DEF Room!Broadcast, Room!TypeOK
<1>3. inbox[q] \in Seq(Room!Tier) /\ sending[p].tier \in Room!Tier
  BY DEF Room!TypeOK
<1>4. inbox'[q] # <<>> /\ inbox'[q][Len(inbox'[q])] = sending[p].tier
  BY <1>2, <1>3
<1>5. ~overlapped => LastIsRoomTier(q)'
  BY <1>2, <1>4 DEF LastIsRoomTier, DirectiveInv
<1>6. \A r \in present : r # q /\ LastIsRoomTier(r) => LastIsRoomTier(r)'
  BY <1>2 DEF LastIsRoomTier, Room!TypeOK
<1>7. /\ \A r \in Participant : sending'[r].to \subseteq sending[r].to
      /\ \A r \in Participant : sending'[r].tier = sending[r].tier
      /\ \A r, s \in Participant : s # q => (s \in sending'[r].to <=> s \in sending[r].to)
  BY <1>1
<1>8. present \subseteq Participant
  BY DEF Room!TypeOK
<1> QED
  BY <1>2, <1>5, <1>6, <1>7, <1>8 DEF DirectiveInv

\* The last directive received is the last one of the inbox.
LEMMA ReceiveInOrder ==
  ASSUME Room!TypeOK, DirectiveInv, NEW p \in Participant, Room!ReceiveDirective(p)
  PROVE  DirectiveInv'
<1>1. /\ UNCHANGED <<present, sending, roomTier, overlapped>>
      /\ inbox[p] # <<>> /\ inbox'[p] = Tail(inbox[p]) /\ told'[p] = {Head(inbox[p])}
      /\ \A r \in Participant \ {p} : inbox'[r] = inbox[r] /\ told'[r] = told[r]
  BY DEF Room!ReceiveDirective, Room!TypeOK
<1>2. inbox[p] \in Seq(Room!Tier) /\ present \subseteq Participant
  BY DEF Room!TypeOK
<1>3. \/ Tail(inbox[p]) = <<>> /\ Len(inbox[p]) = 1 /\ Head(inbox[p]) = inbox[p][1]
      \/ /\ Tail(inbox[p]) # <<>> /\ Len(Tail(inbox[p])) = Len(inbox[p]) - 1
         /\ Tail(inbox[p])[Len(Tail(inbox[p]))] = inbox[p][Len(inbox[p])]
  <2>1. ASSUME NEW s \in Seq(Room!Tier), s # <<>>
        PROVE  \/ Tail(s) = <<>> /\ Len(s) = 1 /\ Head(s) = s[1]
               \/ /\ Tail(s) # <<>> /\ Len(Tail(s)) = Len(s) - 1
                  /\ Tail(s)[Len(Tail(s))] = s[Len(s)]
    <3>1. Len(s) \in Nat /\ Len(s) > 0 /\ Head(s) = s[1]
      BY <2>1
    <3>2. Tail(s) \in Seq(Room!Tier) /\ Len(Tail(s)) = Len(s) - 1
      BY <2>1
    <3>3. \A i \in 1..Len(s) - 1 : Tail(s)[i] = s[i + 1]
      BY <2>1
    <3>4. CASE Len(s) = 1
      <4>1. Len(Tail(s)) = 0
        BY <3>2, <3>4
      <4>2. Tail(s) = <<>>
        BY <3>2, <4>1, EmptySeq
      <4> QED
        BY <3>1, <3>4, <4>2
    <3>5. CASE Len(s) # 1
      <4>1. PICK k \in Nat \ {0} : Len(s) = k + 1
        <5>1. ASSUME NEW m \in Nat, m > 0, m # 1
              PROVE  m - 1 \in Nat \ {0} /\ m = (m - 1) + 1
          BY <5>1
        <5> QED
          BY <3>1, <3>5, <5>1
      <4>2. Len(Tail(s)) = k /\ Len(<<>>) = 0
        BY <3>2, <4>1
      <4>3. Tail(s)[k] = s[k + 1]
        BY <3>3, <4>1
      <4> QED
        BY <3>2, <4>1, <4>2, <4>3
    <3> QED
      BY <3>4, <3>5
  <2> QED
    BY <1>1, <1>2, <2>1
<1>4. LastIsRoomTier(p) => LastIsRoomTier(p)'
  BY <1>1, <1>3 DEF LastIsRoomTier
<1>5. \A r \in present : r # p /\ LastIsRoomTier(r) => LastIsRoomTier(r)'
  BY <1>1, <1>2 DEF LastIsRoomTier
<1> QED
  BY <1>1, <1>4, <1>5 DEF DirectiveInv

\* observe_quality sends its directive after it has released the room's lock.
\* When no task began to send while another one still was, everybody who heard
\* a directive has heard the room's tier last once all of them have arrived,
\* however participants join and leave meanwhile.
THEOREM DirectivesStayInOrder ==
  ASSUME MaxMoves \in Nat, MaxJoins \in Nat
  PROVE  Room!Spec => []Room!DirectivesInOrder
<1>1. Room!Init => DirectiveInv
  BY DEF Room!Init, Room!NoDirective, DirectiveInv
<1>2. ASSUME RoomInv, DirectiveInv, [Room!Next]_(Room!vars)
      PROVE  DirectiveInv'
  <2>1. CASE UNCHANGED Room!vars
    BY <1>2, <2>1 DEF Room!vars, DirectiveInv, LastIsRoomTier
  <2>2. CASE Room!Next
    BY <1>2, <2>2, JoinInOrder, LeaveInOrder, ReportInOrder, BroadcastInOrder,
       ReceiveInOrder DEF Room!Next, Room!MovesFrom, RoomInv
  <2> QED
    BY <1>2, <2>1, <2>2
<1>3. RoomInv /\ DirectiveInv => Room!DirectivesInOrder
  BY DEF RoomInv, Room!TypeOK, DirectiveInv, LastIsRoomTier, Room!DirectivesInOrder,
     Room!Settled
<1>4. RoomInv /\ DirectiveInv /\ [Room!Next]_(Room!vars) => DirectiveInv'
  BY <1>2
<1> QED
  BY <1>1, <1>3, <1>4, RoomInductive, PTL DEF Room!Spec
=============================================================================
