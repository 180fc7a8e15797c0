-------------------------------- MODULE MCWol --------------------------------
(* Instances of Wol for TLC. *)
EXTENDS Wol, TLC

CONSTANTS alice, password, s1, helper, sleeper

\* What the helper's polls say.
Reports == {[id |-> helper, peers |-> {sleeper}]}

\* A reachable state to start from: alice has logged in with s1, her sleeper
\* polled once, and the clock has moved on so that it is offline.
SleeperInit ==
  /\ now = FreshTime + 1
  /\ accounts = {[name |-> alice, password |-> password, enabled |-> TRUE]}
  /\ sessions = {[token |-> s1, name |-> alice, expires |-> SessionTTL,
                  password |-> password, raced |-> FALSE]}
  /\ tickets = {} /\ logins = {} /\ issues = {} /\ admins = {}
  /\ minted = {s1} /\ issued = {} /\ redeemed = {} /\ aborted = {}
  /\ devices = {[owner |-> alice, id |-> sleeper, seen |-> 0, session |-> s1,
                 peers |-> {}, era |-> 0, raced |-> FALSE]}
  /\ jobs = {} /\ polls = {} /\ wakes = {}
  /\ era = [n \in Name |-> 0]
  /\ queued = 0
  /\ handed = {}

SleeperSpec == SleeperInit /\ [][WolNext]_wolVars

\* passwd and disable touch no wake-on-LAN row, and AccountStore's runs have
\* them: only delete commands here, and only one that deletes rows.
OneRecreation ==
  /\ \A c \in admins : /\ c.op = "delete"
                       /\ era[c.name] = 0 \/ c.step = "account"
  /\ aborted = {}
  /\ \A q \in wakes : q.target = sleeper

Symmetry == Permutations(Request)
=============================================================================
