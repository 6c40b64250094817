--------------------------- MODULE MCAuthentication ----------------------------
(* Two pages of a remote client, one of them loaded from an external origin. *)
(* They reach the server directly, through one or two trusted proxies, or    *)
(* through a forwarder on the server's machine that is not trusted, which is *)
(* also how the account is set up.                                           *)
EXTENDS Authentication, TLC

CONSTANTS local, v6, remote, gate, t1, t2, localhost, external

MCHeaders  == {<<>>, <<local>>, <<remote>>, <<NotAnAddress>>}
MCRoutes   == {<<local>>, <<gate, local>>}
MCHostOf   == (t1 :> remote) @@ (t2 :> remote)
MCOriginOf == (t1 :> NoOrigin) @@ (t2 :> external)

=============================================================================
