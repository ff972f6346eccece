--------------------------- MODULE MCControlSocket ---------------------------
(* Two daemons and one client.                                                *)
EXTENDS ControlSocket
=============================================================================
