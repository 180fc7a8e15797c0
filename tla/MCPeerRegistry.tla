--------------------------- MODULE MCPeerRegistry ----------------------------
(* Instances of PeerRegistry for TLC. *)
EXTENDS PeerRegistry, FiniteSets, TLC

Symmetry ==
  Permutations(Task) \cup Permutations(Uuid) \cup Permutations(Pk) \cup Permutations(Ref)

\* One kind of trouble at a time: each of them voids what is said of the rest.
OneTrouble == Cardinality(trouble) <= 1
=============================================================================
