--------------------------- MODULE MCRelayServer ----------------------------
(* Instance of RelayServer for TLC: no symmetry, a liveness property is checked. *)
EXTENDS RelayServer
=============================================================================
