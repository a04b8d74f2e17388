------------------------------ MODULE MCRelay ------------------------------
(***************************************************************************)
(* One node that reconnects over two links, and two dials: enough for a    *)
(* link to outlive its successor's arrival while a dial still holds it,    *)
(* and for a dial to wait while another gives up.                          *)
(***************************************************************************)
EXTENDS Relay

=============================================================================
