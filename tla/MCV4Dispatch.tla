---------------------------- MODULE MCV4Dispatch ----------------------------
(* A small instance of V4Dispatch for TLC. *)
EXTENDS V4Dispatch, TLC

CONSTANTS r1, r2, c1, c2, t1, t2, error

MCTurns == [text : Texts, source : {"v4", "legacy"}]

\* One conversation of the time before V4; the bridge remembers its turn too.
MCSavedTexts == c1 :> <<t1>>

MCBridgeTexts == [c \in Convs |-> IF c = c1 THEN <<t1>> ELSE <<>>]

MCAllowedActions == {"need_clarification", "general_chat"}

MCAllActions == MCAllowedActions \cup {"cmdb_query"}

MCOtherActions == {"execute_commands"}

NoTurnLists == {}

Symmetry == Permutations(Requests)
=============================================================================
