------------------------------ MODULE MCRateLimits ------------------------------
(* Instance of RateLimits for TLC. *)
EXTENDS RateLimits, TLC

CONSTANTS ip1, ip2, ip3, i1, t1

\* Addresses share only the ids, an id is counted whatever its address is, and
\* registrations, attempts and the log share nothing but the clock. So a
\* behaviour has attempts, entries of the log, or registrations of one address:
\* of one id in two tasks that look up its record, with no address forgiven, or
\* of all ids, one at a time and within a second, with no count of an id.
NoAttempts == attempts = [ip \in {} |-> 0] /\ reqs = <<>>
Addresses == /\ NoAttempts
             /\ \A t \in Task \ {t1} : tasks[t].at = "idle"
             /\ \A id \in Id : /\ counted[id].number = 0
                               /\ tasks[t1].id = id => admitted[ip1][id] = now
OneId == /\ NoAttempts
         /\ \A id \in Id \ {i1} : /\ admitted[ip1][id] = 0 /\ peer[id] = NoRecord
                                  /\ \A t \in Task : tasks[t].id # id
         /\ blocker[ip1] = NoEntry => /\ counted[i1].number = 0
                                      /\ \A t \in Task : tasks[t].at \in {"idle", "seeking"}
NoRegistrations == blocker[ip1] = NoEntry /\ counted[i1].number = 0
                   /\ \A id \in Id : peer[id] = NoRecord
                   /\ \A t \in Task : tasks[t].at = "idle"
\* Counts past the limit are alike.
Attempts == NoRegistrations /\ reqs = <<>>
            /\ \A ip \in DOMAIN attempts : attempts[ip].count <= Limit + 2
\* A log of four, of one address or for one id.
Punches == NoRegistrations /\ attempts = [ip \in {} |-> 0] /\ Len(reqs) <= 4
           /\ \A k \in DOMAIN reqs : reqs[k].ip = ip1 \/ reqs[k].id = i1

OneLimiter ==
  /\ \A ip \in Ip \ {ip1} : blocker[ip] = NoEntry
  /\ Addresses \/ OneId \/ Attempts \/ Punches

Symmetry == Permutations(Id \ {i1}) \cup Permutations(Ip \ {ip1})
=============================================================================
