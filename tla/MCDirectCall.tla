----------------------------- MODULE MCDirectCall -----------------------------
(* Small instances of DirectCall. *)
EXTENDS DirectCall, TLC

CONSTANTS r1, r2, ann, bob, cat, a1, a2, b1, c1, k1, k2

\* Two clients of one relay call each other.
OneHome == ann :> r1 @@ bob :> r1
OneConnFp == [c \in Conn |-> IF c = b1 THEN bob ELSE ann]
OneCaller == [k \in Call |-> IF k = k1 THEN ann ELSE bob]
OneCallee == [k \in Call |-> IF k = k1 THEN bob ELSE ann]

\* ann and cat are on two relays; ann may reconnect.
TwoHome == ann :> r1 @@ cat :> r2
TwoConnFp == [c \in Conn |-> IF c = c1 THEN cat ELSE ann]
TwoCaller == [k \in Call |-> IF k = k1 THEN ann ELSE cat]
TwoCallee == [k \in Call |-> IF k = k1 THEN cat ELSE ann]
==============================================================================
