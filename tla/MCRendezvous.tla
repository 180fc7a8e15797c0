---------------------------- MODULE MCRendezvous -----------------------------
(* Instances of Rendezvous for TLC. *)
EXTENDS Rendezvous, TLC

CONSTANTS c1, c2, here, far, near, home, abroad, alice, bob, p1, p2

\* Two controllers of one address; p2 is behind the same router as they.
OneAddr == c1 :> here @@ c2 :> here
MCIpOf == here :> home @@ near :> home @@ far :> abroad
TwoAccounts == c1 :> alice @@ c2 :> bob
MCPeerAddr == p1 :> far @@ p2 :> near
AnyMask == {{}, {here, near}, {far}}

\* Controllers and their accounts may be swapped.
Symmetry == {c1 :> c2 @@ c2 :> c1 @@ alice :> bob @@ bob :> alice}
=============================================================================
