----------------------------- MODULE ModJobCalls -----------------------------
(***************************************************************************)
(* What start(), stop() and status() of ModsJobService promise: one mod    *)
(* job at a time, which ends, and is reported as cancelled only if         *)
(* somebody asked for that.                                                *)
(***************************************************************************)
VARIABLE job

Verdicts == {"done", "cancelled", "error"}

Init == job = "idle"

Starts == job \in {"idle"} \cup Verdicts /\ job' = "running"
Asked  == job = "running" /\ job' = "stopping"
Ends   == \/ job = "running" /\ job' \in Verdicts \ {"cancelled"}
          \/ job = "stopping" /\ job' \in Verdicts

Next == Starts \/ Asked \/ Ends

\* A job that was started ends.
Answers == job \in {"running", "stopping"} ~> job \in Verdicts

Spec == Init /\ [][Next]_job /\ Answers
=============================================================================
