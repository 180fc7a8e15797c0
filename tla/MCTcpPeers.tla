----------------------------- MODULE MCTcpPeers ------------------------------
(* Instances of TcpPeers for TLC. *)
EXTENDS TcpPeers, TLC

CONSTANTS tcp1, ws1, ws2, tcpAddr, wsAddr

\* One TCP client, and two WebSocket clients behind one IP.
Mixed == tcp1 :> tcpAddr @@ ws1 :> wsAddr @@ ws2 :> wsAddr

Symmetry == Permutations({ws1, ws2})

\* Two WebSocket clients behind one IP.
Shared == ws1 :> wsAddr @@ ws2 :> wsAddr
=============================================================================
