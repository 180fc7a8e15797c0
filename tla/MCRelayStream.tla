----------------------------- MODULE MCRelayStream -----------------------------
(* Instance of RelayStream for TLC. *)
EXTENDS RelayStream, TLC

\* Pairs share USAGE and the lists only, and the lists are changed by neither.
\* So two connections are seen with no list, for two seconds: enough for either
\* to insert and to remove its entry in every order. All that takes longer, and
\* what a list does, is seen of one.
Young(s) == idle[s] <= 1 /\ sending[s] <= 1 /\ due[s] > -1

OneGrowsOld ==
  \/ blocklist \cup blacklist = {} /\ \A s \in Stream : Paired(s) => Young(s)
  \/ \A s, t \in Stream : at[s] # "over" /\ at[t] # "over" => s = t

Symmetry == Permutations(Stream)
=============================================================================
