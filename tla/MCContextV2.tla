---------------------------- MODULE MCContextV2 -----------------------------
(* Small instance of the V2 context: a command of topic cpu and a log       *)
(* command, which is evidence for cpu and not for topic bfd.               *)
EXTENDS ContextV2, TLC

CONSTANTS r1, r2, c1, c2, u1, u2, f1, f2, d1, d2, cpu, bfd,
          showCpu, showLog

MCFileOf == u1 :> f1 @@ u2 :> f2
MCTopicOf == showCpu :> cpu @@ showLog :> "log"
MCInferred == showCpu :> cpu @@ showLog :> None
MCTemplate == cpu :> {showCpu, showLog} @@ bfd :> {showLog}

Symmetry == Permutations(Requests) \cup Permutations(Conversations) \cup Permutations(Devices)
=============================================================================
