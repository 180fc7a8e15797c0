--------------------------- MODULE MCAccountStore ---------------------------
(* Instances of AccountStore for TLC. *)
EXTENDS AccountStore, TLC

\* Rows, tokens and request slots of one kind are interchangeable.
Symmetry == Permutations(Token) \cup Permutations(Ticket) \cup Permutations(RelayId)
              \cup Permutations(Password) \cup Permutations(Name)
              \cup Permutations(Login) \cup Permutations(Issuer) \cup Permutations(Admin)
=============================================================================
