------------------------------ MODULE ToolCall ------------------------------
(***************************************************************************)
(* What a call of an MCP tool promises: the server runs it at most once,   *)
(* and the caller is told "ok" only of a call that has run.  "failed"      *)
(* promises nothing: the call may have run, or may still run.              *)
(***************************************************************************)
EXTENDS Naturals

CONSTANT Calls

VARIABLES
  ran,   \* how often the server has run a call
  told   \* what the caller has been told of it

vars == <<ran, told>>

TypeOK ==
  /\ ran \in [Calls -> 0..1]
  /\ told \in [Calls -> {"none", "ok", "failed"}]

Init ==
  /\ ran = [c \in Calls |-> 0]
  /\ told = [c \in Calls |-> "none"]

Run(c) ==
  /\ ran[c] = 0
  /\ ran' = [ran EXCEPT ![c] = 1]
  /\ UNCHANGED told

TellOk(c) ==
  /\ told[c] = "none"
  /\ ran[c] = 1
  /\ told' = [told EXCEPT ![c] = "ok"]
  /\ UNCHANGED ran

TellFailed(c) ==
  /\ told[c] = "none"
  /\ told' = [told EXCEPT ![c] = "failed"]
  /\ UNCHANGED ran

Next == \E c \in Calls : Run(c) \/ TellOk(c) \/ TellFailed(c)

Spec == Init /\ [][Next]_vars
=============================================================================
