---------------------------- MODULE MCDeployment ----------------------------
(***************************************************************************)
(* Both topologies; the clusters, the pods and the scripts are finite.  A  *)
(* bootstrap script may be diverted before its 18th command: in Silo, when *)
(* all the policies are there and the agents are not.                      *)
(***************************************************************************)
EXTENDS Deployment
=============================================================================
