------------------------- MODULE QualityController -------------------------
(***************************************************************************)
(* The adaptive quality controller of a client (AdaptiveQualityController  *)
(* in wzp-proto/src/quality.rs) and the encoder it steers, with the others *)
(* that steer it.  The receive task feeds the controller the reports and   *)
(* the network changes and leaves what it recommends in pending_profile,   *)
(* where the signal task leaves the relay's directives too; the send task  *)
(* swaps it out and switches the encoder.  Before, at the top of its loop, *)
(* the send task of the desktop switches the encoder to the quality that   *)
(* the peers agreed on or the peer's maximum, when that has changed.       *)
(* The call is in automatic mode (auto_profile).                           *)
(*                                                                         *)
(* A report is the tier it classifies to.  Whether the 30 s of stability,  *)
(* the 5 s of a probe or its cooldown have passed, and whether the         *)
(* bandwidth estimate leaves room, is left open at every report.           *)
(***************************************************************************)
EXTENDS Tiers

CONSTANTS
  DowngradeThreshold,          \* worse reports in a row that lower the tier
  CellularDowngradeThreshold,  \* the same on cellular networks
  UpgradeThreshold,            \* better reports in a row that raise it
  StudioUpgradeThreshold,      \* the same into the studio tiers
  ProbeMaxBad,                 \* bad reports a probe survives
  Asked                        \* bound: the profiles that others ask for

ASSUME ThresholdAssumption ==
  /\ DowngradeThreshold \in Nat /\ CellularDowngradeThreshold \in Nat
  /\ UpgradeThreshold \in Nat /\ StudioUpgradeThreshold \in Nat
  /\ ProbeMaxBad \in Nat
  /\ 1 < CellularDowngradeThreshold
  /\ CellularDowngradeThreshold <= DowngradeThreshold
  /\ 0 < UpgradeThreshold /\ UpgradeThreshold <= StudioUpgradeThreshold
  /\ Asked \subseteq Tier

Context == {"wifi", "cellular", "unknown"}

VARIABLES
  tier,     \* current_tier
  profile,  \* current_profile
  up, down, \* consecutive_up, consecutive_down
  forced,   \* a profile was forced by hand
  context,  \* network_context
  probe,    \* the tier under test, if there is one
  bad,      \* bad reports of the probe
  stable,   \* stable_since is set
  pending,  \* pending_profile, if there is one
  encoder,  \* the profile of the encoder
  reports,  \* history: the last two reports, the latest first
  adrift    \* history: another than the controller had the last word on the
            \* encoder, or the tier moved without a word to it

vars == <<tier, profile, up, down, forced, context, probe, bad, stable, pending,
          encoder, reports, adrift>>
counters == <<up, down>>
probing == <<probe, bad, stable>>

Init ==
  /\ tier = Good /\ profile = Good
  /\ up = 0 /\ down = 0
  /\ forced = FALSE
  /\ context = "unknown"
  /\ probe = {} /\ bad = 0 /\ stable = FALSE
  /\ pending = {} /\ encoder = Good
  /\ reports = <<Good, Good>>
  /\ adrift = FALSE

-----------------------------------------------------------------------------
(* observe: one action for each way a report can end *)

\* classify_with_context: there is no studio tier on cellular networks.
Classes == IF context = "cellular" THEN 0..Good ELSE Tier

FallAfter == IF context = "cellular" THEN CellularDowngradeThreshold
             ELSE DowngradeThreshold
RiseAfter == IF tier >= Good THEN StudioUpgradeThreshold ELSE UpgradeThreshold

\* Mutant: one bad report lowers the tier.
FallsAtOnce(seen) == seen < tier
Falls(seen) == seen < tier /\ down + 1 >= FallAfter
Rises(seen) == seen > tier /\ up + 1 >= RiseAfter

Note(seen) ==
  /\ reports' = <<seen, reports[1]>>
  /\ UNCHANGED <<forced, context, encoder>>

\* Mutant: the encoder is not told.
MoveToSilently(t) ==
  /\ tier' = t /\ profile' = t
  /\ adrift' = FALSE
  /\ UNCHANGED pending
\* The tier changes, and the encoder is told.
MoveTo(t) ==
  /\ tier' = t /\ profile' = t
  /\ pending' = {t}
  /\ adrift' = FALSE
Stay == UNCHANGED <<tier, profile, pending, adrift>>
StopProbe == probe' = {} /\ bad' = 0
\* Mutant: a transition leaves the probe running.
LeaveProbe == UNCHANGED probing
\* A transition ends the probe and the stability.
CancelProbe == StopProbe /\ stable' = FALSE

Fall(seen) ==
  /\ ~forced /\ Falls(seen)
  /\ MoveTo(seen)
  /\ up' = 0 /\ down' = 0
  /\ CancelProbe
  /\ Note(seen)

\* Mutant: the tier rises to what the report allows.
StepToSeen(seen) == seen
\* upgrade_one_step, whatever the report would allow.
NextStep(seen) == tier + 1

Rise(seen) ==
  /\ ~forced /\ Rises(seen)
  /\ MoveTo(NextStep(seen))
  /\ up' = 0 /\ down' = 0
  /\ CancelProbe
  /\ Note(seen)

\* The report is no transition: it counts, or the count starts again. A rise
\* for which there is no bandwidth starts again too.
NoTransition(seen) ==
  /\ ~forced /\ ~Falls(seen)
  /\ down' = IF seen < tier THEN down + 1 ELSE 0
  /\ Note(seen)
CountUp(seen) == up' = IF seen > tier /\ ~Rises(seen) THEN up + 1 ELSE 0

\* Mutant: probes run on cellular networks too.
MayProbeAnywhere == tier # TopTier
\* check_probe does nothing at the top and on cellular networks.
MayProbe == tier # TopTier /\ context # "cellular"

\* The bad reports of the probe with this one.
Bad(seen) == bad + (IF \E target \in probe : seen < target THEN 1 ELSE 0)

\* Too many bad reports: the tier stays, and nothing is recommended.
ProbeFails(seen) ==
  /\ NoTransition(seen) /\ CountUp(seen)
  /\ MayProbe /\ probe # {} /\ Bad(seen) > ProbeMaxBad
  /\ StopProbe /\ stable' = TRUE
  /\ Stay

\* The first report after the time of the probe, good or bad.
ProbeSucceeds(seen) ==
  /\ NoTransition(seen) /\ up' = 0
  /\ MayProbe /\ Bad(seen) <= ProbeMaxBad
  /\ \E target \in probe : MoveTo(target)
  /\ StopProbe /\ stable' = TRUE

ProbeGoesOn(seen) ==
  /\ NoTransition(seen) /\ CountUp(seen)
  /\ MayProbe /\ probe # {} /\ Bad(seen) <= ProbeMaxBad
  /\ bad' = Bad(seen)
  /\ UNCHANGED <<probe, stable>>
  /\ Stay

\* Stable for long enough: recommend the next tier without moving to it.
StartProbe(seen) ==
  /\ NoTransition(seen) /\ CountUp(seen)
  /\ MayProbe /\ probe = {} /\ stable /\ seen >= tier
  /\ probe' = {tier + 1} /\ bad' = 0
  /\ pending' = {tier + 1} /\ adrift' = FALSE
  /\ UNCHANGED <<tier, profile, stable>>

\* No probe and none starts.
Watch(seen) ==
  /\ NoTransition(seen) /\ CountUp(seen)
  /\ \/ ~MayProbe /\ UNCHANGED probing
     \/ /\ MayProbe /\ probe = {}
        /\ stable' = (seen >= tier)
        /\ UNCHANGED <<probe, bad>>
  /\ Stay

Ignore(seen) ==
  /\ forced
  /\ Note(seen)
  /\ Stay /\ UNCHANGED <<counters, probing>>

Observe(seen) ==
  \/ Fall(seen) \/ Rise(seen)
  \/ ProbeFails(seen) \/ ProbeSucceeds(seen) \/ ProbeGoesOn(seen)
  \/ StartProbe(seen) \/ Watch(seen)
  \/ Ignore(seen)

-----------------------------------------------------------------------------
(* The other operations *)

\* signal_network_change: from WiFi to cellular the tier goes one step down at
\* once, but nobody tells the encoder. Any change ends the probe.
NetworkChange(to) ==
  /\ context' = to
  /\ \/ /\ context = "wifi" /\ to = "cellular"
        /\ \/ tier > 0 /\ tier' = tier - 1 /\ profile' = tier - 1
           \/ tier = 0 /\ UNCHANGED <<tier, profile>>
        /\ up' = 0 /\ down' = 0
        /\ forced' = FALSE
        /\ adrift' = (adrift \/ tier > 0)
     \/ /\ ~(context = "wifi" /\ to = "cellular")
        /\ UNCHANGED <<tier, profile, counters, forced, adrift>>
  /\ CancelProbe
  /\ UNCHANGED <<pending, encoder, reports>>

\* force_profile: the encoder is not told.
ForceProfile(p) ==
  /\ profile' = p
  /\ forced' = TRUE
  /\ up' = 0 /\ down' = 0
  /\ UNCHANGED <<tier, context, probing, pending, encoder, reports, adrift>>

\* reset_counters.
ResetCounters ==
  /\ up' = 0 /\ down' = 0
  /\ CancelProbe
  /\ UNCHANGED <<tier, profile, forced, context, pending, encoder, reports,
                 adrift>>

-----------------------------------------------------------------------------
(* What else steers the encoder *)

controller == <<tier, profile, counters, forced, context, probing>>

\* The relay's QualityDirective takes the place of what the controller
\* recommended, and the controller hears nothing of it.
Directive(p) ==
  /\ pending' = {p} /\ adrift' = TRUE
  /\ UNCHANGED <<controller, encoder, reports>>

\* At the top of its loop the send task finds another effective quality, the
\* smaller of active_quality and peer_max_quality, than it applied last.  Which
\* one, and that it is another, is left open.
ApplyEffective(p) ==
  /\ encoder' = p
  /\ adrift' = (adrift \/ pending = {})
  /\ UNCHANGED <<controller, pending, reports>>

\* The send task picks up what is pending.
ApplyProfile ==
  /\ pending # {}
  /\ encoder' \in pending
  /\ pending' = {}
  /\ UNCHANGED <<controller, reports, adrift>>

-----------------------------------------------------------------------------
Next ==
  \/ \E seen \in Classes : Observe(seen)
  \/ \E to \in Context : NetworkChange(to)
  \/ \E p \in Asked : ForceProfile(p)
  \/ ResetCounters
  \/ \E p \in Asked : Directive(p) \/ ApplyEffective(p)
  \/ ApplyProfile

Spec == Init /\ [][Next]_vars

-----------------------------------------------------------------------------
(* Properties *)

\* The state has its type and the counters stay below their thresholds.
TypeOK ==
  /\ tier \in Tier /\ profile \in Tier
  /\ up \in 0..(StudioUpgradeThreshold - 1)
  /\ down \in 0..(DowngradeThreshold - 1)
  /\ forced \in BOOLEAN
  /\ context \in Context
  /\ probe \in SUBSET Tier
  /\ bad \in 0..ProbeMaxBad
  /\ stable \in BOOLEAN
  /\ pending \in SUBSET Tier
  /\ encoder \in Tier
  /\ reports \in Tier \X Tier
  /\ adrift \in BOOLEAN

\* A probe always tests the tier right above the current one: the tier never
\* moves under a running probe, through transitions, network changes and
\* forced profiles.
ProbeIsOneStepUp == probe \subseteq {tier + 1}

\* What the encoder was last told.
Recommended == IF pending # {} THEN pending ELSE {encoder}

\* Where the controller had the last word, the encoder is at most one step
\* above its tier and never below: neither its own probes nor an older word
\* of another, applied late, take the encoder away from what it decided.
EncoderNearTier == adrift \/ Recommended \subseteq {tier, tier + 1}

\* Hysteresis: outside a network change a single bad report never lowers the
\* tier, whatever probes and upgrades lie between; the report before it was
\* bad for that tier too.
FallsAreEarned ==
  [][tier' < tier /\ context' = context
       => reports'[1] < tier /\ reports'[2] < tier]_vars

\* On a cellular network the tier never climbs into the studio tiers.
NoStudioOnCellular ==
  [][context = "cellular" /\ tier' > tier => tier' <= Good]_vars

\* The promise the relay's room tier builds on.
TierSteps == tier = Good /\ [][tier' \in MovesFrom(tier)]_tier

\* "stay at current tier": once a probe is over, one way or the other, the
\* encoder runs at the controller's tier.
EncoderFollows ==
  probe = {} /\ pending = {} /\ ~adrift => encoder = tier
=============================================================================
