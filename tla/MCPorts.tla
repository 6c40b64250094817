-------------------------------- MODULE MCPorts ---------------------------------
(* A process application with two processes, a Compose application with a    *)
(* published port and a container on the host's network, and a process of    *)
(* another user.                                                             *)
EXTENDS Ports, TLC

CONSTANTS a1, a2, p1, p2, p3, p4, p5, any4, any6, lo4, lo6, map4

MCPidsOf == (a1 :> {p1, p2}) @@ (a2 :> {p3, p5})

MCMapOf == map4 :> lo4

=============================================================================
