--------------------------- MODULE MCContextStore ---------------------------
(* A small instance of ContextStore for TLC. *)
EXTENDS ContextStore

CONSTANTS t1, t2, t3

\* One migrated list, longer than the limit of the instance.
MCSavedTurns == {<<t3, t1, t2>>}
=============================================================================
