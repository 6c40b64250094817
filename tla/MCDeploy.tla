-------------------------------- MODULE MCDeploy --------------------------------
(***************************************************************************)
(* Deploy with a first installation, two upgrades and two faults.           *)
(***************************************************************************)
EXTENDS Deploy
=============================================================================
