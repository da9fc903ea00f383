-------------------------- MODULE MCSagaExecution --------------------------
(* Atomic instance s1 with a starter d1 and a follower d2; best-effort      *)
(* instance s2, which writes to the same aggregates; atomic instance s3,    *)
(* whose reaction to d4 sends two commands to one aggregate.  In the second *)
(* instance d1 starts s1, and d2 and d3 follow.                             *)
EXTENDS SagaExecution, TLC

CONSTANTS d1, d2, d3, d4, s1, s2, s3, a1, a2

MCInstanceOf == (d1 :> s1) @@ (d2 :> s1) @@ (d3 :> s2) @@ (d4 :> s3)
MCCommands ==
  (d1 :> <<a1, a2>>) @@ (d2 :> <<a1>>) @@ (d3 :> <<a2, a2>>) @@ (d4 :> <<a2, a2>>)

MCOneSaga == [d \in {d1, d2, d3} |-> s1]
MCNoCommands == [d \in {d1, d2, d3} |-> << >>]
=============================================================================
