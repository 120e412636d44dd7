------------------------------ MODULE MCRelease ------------------------------
(* Bounded instance of package delta and deployment: two packages of three *)
(* files over an installed one; a delta may leave one file out.            *)
EXTENDS Deployment

MCOrders == {<<"3dsx", "app.lua", "manifest">>, <<"3dsx", "manifest">>}

MCBootMarks == {{"complete", "probes"}, {"injected"}}

(* Deployments start once the delta is published, after an undisturbed     *)
(* making.                                                                 *)
DeployAfterDelta ==
    number' > 0 => UNCHANGED deltaVars /\ maker = "done" /\ changes = 0

(* An assessment changes nothing that another step reads: it is the last,  *)
(* and taken after the last deployment.                                    *)
AssessLast == verdict = None /\ (verdict' # None => tool = "none" /\ number = MaxDeploys)

(* The console boots once between two deployments.                         *)
OneBoot == log' # log /\ log' # None => log = None \/ log.time < number
=============================================================================
