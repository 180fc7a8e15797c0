---------------------------- MODULE RelayTickets ----------------------------
(***************************************************************************)
(* What the account store promises about relay tickets, with no database,  *)
(* no clock and no accounts: a ticket is bound to one relay id when it is  *)
(* issued, admits at most one relay stream, and admits none once it has    *)
(* lapsed (its sixty seconds are over, or the session it hangs on is gone).*)
(* AccountStore implements this module.                                    *)
(***************************************************************************)
CONSTANTS Ticket,   \* ticket secrets
          RelayId   \* relay ids: the uuid of a RequestRelay

VARIABLES issued,   \* set of [ticket, relay]: every ticket ever handed out
          live,     \* tickets that may still admit a stream
          admitted  \* set of [ticket, relay]: streams the tickets admitted

tickets == <<issued, live, admitted>>

Grant == [ticket : Ticket, relay : RelayId]

TypeOK ==
  /\ issued \subseteq Grant
  /\ live \subseteq Ticket
  /\ admitted \subseteq Grant

Init ==
  /\ issued = {}
  /\ live = {}
  /\ admitted = {}

\* A ticket is handed out. Its session may have ended while it was being made,
\* so it may be dead on arrival.
Issue(k, r) ==
  /\ \A g \in issued : g.ticket # k
  /\ issued' = issued \cup {[ticket |-> k, relay |-> r]}
  /\ live' \in {live, live \cup {k}}
  /\ UNCHANGED admitted

\* A relay server presents the ticket for the relay id it was issued for.
Admit(k, r) ==
  /\ k \in live
  /\ [ticket |-> k, relay |-> r] \in issued
  /\ live' = live \ {k}
  /\ admitted' = admitted \cup {[ticket |-> k, relay |-> r]}
  /\ UNCHANGED issued

\* Tickets lapse, for good.
Lapse ==
  /\ live' \in SUBSET live
  /\ UNCHANGED <<issued, admitted>>

Next ==
  \/ \E k \in Ticket, r \in RelayId : Issue(k, r) \/ Admit(k, r)
  \/ Lapse

Spec == Init /\ [][Next]_tickets

\* What this amounts to for a relay server: a stream was admitted for the relay id
\* its ticket was issued for, and its ticket admits no other (store.rs:206-258).
SingleUse ==
  /\ admitted \subseteq issued
  /\ \A g, h \in issued : g.ticket = h.ticket => g = h
  /\ \A g \in admitted : g.ticket \notin live

\* A ticket that was used, or lapsed at any moment, is of no use ever again
\* (store.rs:147-157, 206-258).
NoRevival == [][\A g \in issued : g.ticket \notin live => g.ticket \notin live']_tickets
=============================================================================
