------------------------------- MODULE Tiers -------------------------------
(***************************************************************************)
(* The quality tiers (Tier in wzp-proto/src/quality.rs).  Catastrophic is  *)
(* 0, Degraded 1, Good 2, and the studio tiers lie above Good; a tier also *)
(* stands for the profile that belongs to it, which is how the engines     *)
(* pass profiles about (profile_to_index and index_to_profile).            *)
(***************************************************************************)
EXTENDS Naturals

CONSTANT TopTier  \* Studio64k, the fifth

ASSUME TopTierAssumption == TopTier \in Nat /\ TopTier > 2

Tier == 0..TopTier
Good == 2

\* What a controller promises whoever follows its tier: it may fall to any
\* lower tier at once, and it rises one step at a time.
MovesFrom(t) == {u \in Tier : u < t \/ u = t + 1}
=============================================================================
