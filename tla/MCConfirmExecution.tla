------------------------- MODULE MCConfirmExecution -------------------------
(* Small instances of ConfirmExecution for TLC. *)
EXTENDS ConfirmExecution, TLC

CONSTANTS c1, c2, u1, u2, f1, f2, a, b, x

MCGuard == (a :> "passed") @@ (b :> "passed") @@ (x :> "blocked")

\* Two user names with files of their own.
MCUserFile == (u1 :> f1) @@ (u2 :> f2)

\* Every user has the file f1: one user, or names that _safe_user maps to the
\* same text.
MCSharedUserFile == [u \in Users |-> f1]

Pass(cmd) == [command |-> cmd, guard |-> "passed"]
Review(cmd) == [command |-> cmd, guard |-> "review"]

\* A list with a command to be skipped, and one over the batch limit.
MCLists == {<<Review(b), Pass(a)>>, <<Pass(a), Pass(b), Pass(b)>>}

\* A list of two commands and a list of one.
MCShortLists == {<<Pass(a), Pass(b)>>, <<Pass(b)>>}

\* Three typed commands make two chunks; the guard blocks one of them.
MCTyped == {<<a, x, b>>}

MCTypedOne == {<<a>>}
=============================================================================
