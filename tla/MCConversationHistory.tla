----------------------- MODULE MCConversationHistory -----------------------
(* A small instance of ConversationHistory for TLC. *)
EXTENDS ConversationHistory, TLC

CONSTANTS c1, c2, c3, t1

\* One conversation of earlier days, with one turn.
MCSaved == c1 :> <<t1>>

NewConvs == Convs \ {c1}

Symmetry == Permutations(Questions) \cup Permutations(NewConvs)
=============================================================================
