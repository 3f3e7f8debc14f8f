-------------------------- MODULE DeploymentLifecycle --------------------------
(***************************************************************************)
(* What the platform promises about one project's deployments, whatever    *)
(* the processes behind it do: a deployment moves through the documented   *)
(* statuses prepare, deploy, finalize, completed (or fail on the way),     *)
(* reaches a conclusion and keeps it.                                      *)
(***************************************************************************)
CONSTANT Deployments

VARIABLES
  phase,      \* "absent", or the deployment's status
  conclusion  \* "none" until the deployment has concluded

vars == <<phase, conclusion>>

Init ==
  /\ phase = [d \in Deployments |-> "absent"]
  /\ conclusion = [d \in Deployments |-> "none"]

Move(d, from, to) ==
  /\ phase[d] \in from
  /\ phase' = [phase EXCEPT ![d] = to]
  /\ UNCHANGED conclusion

End(d, from, result) ==
  /\ phase[d] \in from
  /\ conclusion[d] \in {"none", result}
  /\ phase' = [phase EXCEPT ![d] = "completed"]
  /\ conclusion' = [conclusion EXCEPT ![d] = result]

Open(d)     == Move(d, {"absent"}, "prepare")
Deploy(d)   == Move(d, {"prepare"}, "deploy")
Finalize(d) == Move(d, {"deploy"}, "finalize")
Succeed(d)  == End(d, {"finalize"}, "succeeded")
Cancel(d)   == End(d, {"prepare", "deploy"}, "canceled")

\* A failing deployment may be failed again: a second handler changes nothing else.
Fail(d) ==
  \/ conclusion[d] = "none" /\ Move(d, {"prepare", "deploy", "finalize"}, "fail")
  \/ conclusion[d] = "failed" /\ Move(d, {"completed"}, "fail")
Failed(d) == End(d, {"fail", "completed"}, "failed")

Progress(d) == Deploy(d) \/ Finalize(d) \/ Succeed(d) \/ Fail(d) \/ Failed(d)

Next == \E d \in Deployments : Open(d) \/ Cancel(d) \/ Progress(d)

Spec == Init /\ [][Next]_vars

===============================================================================
