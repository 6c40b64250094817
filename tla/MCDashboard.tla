------------------------------ MODULE MCDashboard -------------------------------
(* Two connections; the second snapshot may replace the first.               *)
EXTENDS Dashboard

=============================================================================
