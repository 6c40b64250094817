------------------------------ MODULE MCUserUnits ------------------------------
(***************************************************************************)
(* UserUnits with two definitions that systemd accepts and one it rejects.  *)
(***************************************************************************)
EXTENDS UserUnits
=============================================================================
