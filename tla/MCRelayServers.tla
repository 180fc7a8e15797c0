---------------------------- MODULE MCRelayServers ----------------------------
(* Instances of RelayServers for TLC. *)
EXTENDS RelayServers

CONSTANTS r1, r2, r3

\* Lists that overlap, one of a single server.
Lists == {{r1, r2}, {r2, r3}, {r3}}
=============================================================================
