--------------------------- MODULE MCV3Takeover -----------------------------
(* Small instance of the canary takeover: one text types no command, the   *)
(* other a safe one.                                                       *)
EXTENDS V3Takeover, TLC

CONSTANTS q1, q2, canary1, plain, tester, other, t1, t2

MCTypedIn == t1 :> "none" @@ t2 :> "safe"

Symmetry == Permutations({q1, q2})
=============================================================================
