---------------------------- MODULE AccountProofs ----------------------------
(***************************************************************************)
(* Theorems about AccountStore for any sets of names, tokens and tickets,  *)
(* any number of concurrent requests and commands and any lifetimes; then  *)
(* about Wol for any sets of names, devices, sessions and requests and any *)
(* times. The database under Wol is AccountStore, whose type invariant is  *)
(* carried over (StoreRuns).                                               *)
(***************************************************************************)
EXTENDS Wol, TLAPS

USE DEF store, requests, history

\* Rows, requests and commands have their columns, and the clock and every
\* expiry computed from it are natural numbers (store.rs:33-43).
THEOREM TypeCorrect == Spec => []TypeOK
<1>1. Init => TypeOK
  BY DEF Init, TypeOK
<1>2. TypeOK /\ [Next]_vars => TypeOK'
  <2> SUFFICES ASSUME TypeOK, [Next]_vars
               PROVE  TypeOK'
    OBVIOUS
  <2> USE DEF TypeOK
  <2>1. ASSUME NEW l \in Login, NEW n \in Name, NEW p \in Password, LoginVerify(l, n, p)
        PROVE  TypeOK'
    BY <2>1 DEF LoginVerify, LoginRequest
  <2>2. ASSUME NEW q \in logins, LoginPurge(q)
        PROVE  TypeOK'
    <3>1. [q EXCEPT !.step = "purged"] \in LoginRequest
      BY DEF LoginRequest
    <3> QED BY <2>2, <3>1 DEF LoginPurge
  <2>3. ASSUME NEW q \in logins, NEW t \in Token, LoginInsert(q, t)
        PROVE  TypeOK'
    <3>1. Raced(q) \in BOOLEAN
      BY DEF Raced
    <3>2. now + SessionTTL \in Nat
      BY TimeAssumption
    <3>3. [token |-> t, name |-> q.name, expires |-> now + SessionTTL,
           password |-> q.password, raced |-> Raced(q)] \in SessionRow
      BY <3>1, <3>2 DEF SessionRow, LoginRequest
    <3> QED BY <2>3, <3>3 DEF LoginInsert
  <2>4. ASSUME NEW t \in Token, Logout(t)
        PROVE  TypeOK'
    BY <2>4 DEF Logout
  <2>5. ASSUME NEW i \in Issuer, NEW t \in Token, NEW r \in RelayId, TicketCheck(i, t, r)
        PROVE  TypeOK'
    BY <2>5 DEF TicketCheck, IssueRequest
  <2>6. ASSUME NEW q \in issues, TicketPurge(q)
        PROVE  TypeOK'
    <3>1. [q EXCEPT !.step = "purged"] \in IssueRequest
      BY DEF IssueRequest
    <3> QED BY <2>6, <3>1 DEF TicketPurge
  <2>7. ASSUME NEW q \in issues, NEW k \in Ticket, TicketInsert(q, k)
        PROVE  TypeOK'
    <3>1. now + TicketTTL \in Nat
      BY TimeAssumption
    <3>2. [ticket |-> k, session |-> q.token, relay |-> q.relay,
           expires |-> now + TicketTTL] \in TicketRow
      BY <3>1 DEF TicketRow, IssueRequest
    <3>3. [ticket |-> k, relay |-> q.relay] \in [ticket : Ticket, relay : RelayId]
      BY DEF IssueRequest
    <3> QED BY <2>7, <3>2, <3>3 DEF TicketInsert
  <2>8. ASSUME NEW k \in Ticket, NEW r \in RelayId, Redeem(k, r)
        PROVE  TypeOK'
    BY <2>8 DEF Redeem
  <2>9. ASSUME NEW n \in Name, NEW p \in Password, CreateUser(n, p)
        PROVE  TypeOK'
    <3>1. [name |-> n, password |-> p, enabled |-> TRUE] \in AccountRow
      BY DEF AccountRow
    <3> QED BY <2>9, <3>1 DEF CreateUser
  <2>10. ASSUME NEW a \in Admin, NEW n \in Name, NEW p \in Password, SetPassword(a, n, p)
         PROVE  TypeOK'
    <3>1. accounts' \subseteq AccountRow
      <4>1. \A row \in accounts : [row EXCEPT !.password = p] \in AccountRow
        BY DEF AccountRow
      <4> QED BY <2>10, <4>1 DEF SetPassword
    <3>2. Command(a, n, "passwd", "tickets") \in AdminCommand
      BY DEF Command, AdminCommand
    <3> QED BY <2>10, <3>1, <3>2 DEF SetPassword
  <2>11. ASSUME NEW a \in Admin, NEW n \in Name, Disable(a, n)
         PROVE  TypeOK'
    <3>1. accounts' \subseteq AccountRow
      <4>1. \A row \in accounts : [row EXCEPT !.enabled = FALSE] \in AccountRow
        BY DEF AccountRow
      <4> QED BY <2>11, <4>1 DEF Disable
    <3>2. Command(a, n, "disable", "tickets") \in AdminCommand
      BY DEF Command, AdminCommand
    <3> QED BY <2>11, <3>1, <3>2 DEF Disable
  <2>12. ASSUME NEW a \in Admin, NEW n \in Name, DeleteUser(a, n)
         PROVE  TypeOK'
    <3>1. Command(a, n, "delete", "tickets") \in AdminCommand
      BY DEF Command, AdminCommand
    <3> QED BY <2>12, <3>1 DEF DeleteUser
  <2>13. ASSUME NEW n \in Name, Enable(n)
         PROVE  TypeOK'
    <3>1. \A row \in accounts : [row EXCEPT !.enabled = TRUE] \in AccountRow
      BY DEF AccountRow
    <3> QED BY <2>13, <3>1 DEF Enable
  <2>14. ASSUME NEW c \in admins, RevokeTickets(c)
         PROVE  TypeOK'
    <3>1. [c EXCEPT !.step = "sessions"] \in AdminCommand
      BY DEF AdminCommand
    <3> QED BY <2>14, <3>1 DEF RevokeTickets
  <2>15. ASSUME NEW c \in admins, RevokeSessions(c)
         PROVE  TypeOK'
    <3>1. [c EXCEPT !.step = "jobs"] \in AdminCommand
      BY DEF AdminCommand
    <3> QED BY <2>15, <3>1 DEF RevokeSessions
  <2>16. ASSUME NEW c \in admins, DeleteAccount(c)
         PROVE  TypeOK'
    BY <2>16 DEF DeleteAccount
  <2>17. ASSUME NEW c \in admins, AdminFails(c)
         PROVE  TypeOK'
    BY <2>17 DEF AdminFails, AdminCommand
  <2>21. ASSUME NEW c \in admins, DeleteJobs(c) \/ DeleteDevices(c)
         PROVE  TypeOK'
    <3>1. /\ [c EXCEPT !.step = "devices"] \in AdminCommand
          /\ [c EXCEPT !.step = "account"] \in AdminCommand
      BY DEF AdminCommand
    <3> QED BY <2>21, <3>1 DEF DeleteJobs, DeleteDevices
  <2>18. CASE DropRequest
    BY <2>18 DEF DropRequest
  <2>19. CASE Tick
    BY <2>19 DEF Tick
  <2>20. CASE UNCHANGED vars
    BY <2>20 DEF vars
  <2> QED
    BY <2>1, <2>2, <2>3, <2>4, <2>5, <2>6, <2>7, <2>8, <2>9, <2>10, <2>11,
       <2>12, <2>13, <2>14, <2>15, <2>16, <2>17, <2>18, <2>19, <2>20,
       <2>21
       DEF Next, LoginNext, TicketNext, AdminNext, CommandNext
<1> QED BY <1>1, <1>2, PTL DEF Spec

-----------------------------------------------------------------------------
\* A command past its DELETE of sessions that goes on is a delete, and the
\* sessions of its name that exist by then were inserted after it deleted the
\* others.
DeletePastSessions ==
  \A c \in admins :
    Deleting(c) =>
      /\ c.op = "delete"
      /\ \A s \in sessions : s.name = c.name => s.raced

RevocationInv == OnlyRacesOutliveRevocation /\ DeletePastSessions

\* Changes that take nothing away from what makes a session authentic keep the
\* invariant, provided every session was there before.
LEMMA QuietStep ==
  ASSUME RevocationInv,
         sessions' \subseteq sessions,
         accounts \subseteq accounts',
         admins' = admins,
         aborted' = aborted
  PROVE  RevocationInv'
BY DEF RevocationInv, OnlyRacesOutliveRevocation, DeletePastSessions, Authentic, Revoking

\* Only a login that raced a passwd, disable or delete command leaves a session
\* that the command should have taken away, unless the command itself failed
\* halfway (store.rs:81-132, 147-157, 165-205).
THEOREM RevocationSafe == Spec => []OnlyRacesOutliveRevocation
<1> USE DEF RevocationInv, OnlyRacesOutliveRevocation, DeletePastSessions, Deleting,
            Authentic, Revoking
<1>1. Init => RevocationInv
  BY DEF Init
<1>2. TypeOK /\ RevocationInv /\ [Next]_vars => RevocationInv'
  <2> SUFFICES ASSUME TypeOK, RevocationInv, [Next]_vars
               PROVE  RevocationInv'
    OBVIOUS
  <2>1. ASSUME NEW l \in Login, NEW n \in Name, NEW p \in Password, LoginVerify(l, n, p)
        PROVE  RevocationInv'
    BY <2>1, QuietStep DEF LoginVerify
  <2>2. ASSUME NEW q \in logins, LoginPurge(q)
        PROVE  RevocationInv'
    BY <2>2, QuietStep DEF LoginPurge
  <2>3. ASSUME NEW q \in logins, NEW t \in Token, LoginInsert(q, t)
        PROVE  RevocationInv'
    <3> DEFINE new == [token |-> t, name |-> q.name, expires |-> now + SessionTTL,
                       password |-> q.password, raced |-> Raced(q)]
    <3>1. /\ accounts' = accounts /\ admins' = admins /\ aborted' = aborted
          /\ sessions' = sessions \cup {new}
      BY <2>3 DEF LoginInsert
    <3>2. new.raced \/ Authentic(new)
      BY DEF Raced
    <3>3. \A c \in admins : Deleting(c) /\ new.name = c.name => new.raced
      BY DEF Raced
    <3> HIDE DEF new
    <3>4. OnlyRacesOutliveRevocation'
      BY <3>1, <3>2
    <3>5. DeletePastSessions'
      BY <3>1, <3>3
    <3> QED BY <3>4, <3>5
  <2>4. ASSUME NEW t \in Token, Logout(t)
        PROVE  RevocationInv'
    BY <2>4, QuietStep DEF Logout
  <2>5. CASE TicketNext
    BY <2>5, QuietStep DEF TicketNext, TicketCheck, TicketPurge, TicketInsert, Redeem
  <2>6. ASSUME NEW n \in Name, NEW p \in Password, CreateUser(n, p)
        PROVE  RevocationInv'
    BY <2>6, QuietStep DEF CreateUser
  <2>7. ASSUME NEW a \in Admin, NEW n \in Name, NEW p \in Password, SetPassword(a, n, p)
        PROVE  RevocationInv'
    <3>1. \A s \in sessions : s.name # n /\ Authentic(s) => Authentic(s)'
      BY <2>7 DEF SetPassword
    <3> DEFINE new == Command(a, n, "passwd", "tickets")
    <3>2. new.name = n /\ new.op = "passwd" /\ new.step = "tickets"
      BY DEF Command
    <3>3. sessions' = sessions /\ aborted' = aborted /\ admins' = admins \cup {new}
      BY <2>7 DEF SetPassword
    <3> HIDE DEF new, Authentic
    <3>4. OnlyRacesOutliveRevocation'
      BY <3>1, <3>2, <3>3
    <3>5. DeletePastSessions'
      BY <3>2, <3>3
    <3> QED BY <3>4, <3>5
  <2>8. ASSUME NEW a \in Admin, NEW n \in Name, Disable(a, n)
        PROVE  RevocationInv'
    <3>1. \A s \in sessions : s.name # n /\ Authentic(s) => Authentic(s)'
      BY <2>8 DEF Disable
    <3> DEFINE new == Command(a, n, "disable", "tickets")
    <3>2. new.name = n /\ new.op = "disable" /\ new.step = "tickets"
      BY DEF Command
    <3>3. sessions' = sessions /\ aborted' = aborted /\ admins' = admins \cup {new}
      BY <2>8 DEF Disable
    <3> HIDE DEF new, Authentic
    <3>4. OnlyRacesOutliveRevocation'
      BY <3>1, <3>2, <3>3
    <3>5. DeletePastSessions'
      BY <3>2, <3>3
    <3> QED BY <3>4, <3>5
  <2>9. ASSUME NEW n \in Name, Enable(n)
        PROVE  RevocationInv'
    <3>1. \A s \in sessions : Authentic(s) => Authentic(s)'
      <4> SUFFICES ASSUME NEW s \in sessions, Authentic(s)
                   PROVE  Authentic(s)'
        OBVIOUS
      <4> DEFINE row == [name |-> s.name, password |-> s.password, enabled |-> TRUE]
      <4>1. row \in accounts /\ row.enabled = TRUE
        OBVIOUS
      <4>2. \A r \in AccountRow : r.enabled = TRUE => [r EXCEPT !.enabled = TRUE] = r
        BY DEF AccountRow
      <4> HIDE DEF row
      <4>3. row \in accounts'
        BY <2>9, <4>1, <4>2 DEF Enable, TypeOK
      <4>4. sessions' = sessions
        BY <2>9 DEF Enable
      <4> QED BY <4>3, <4>4 DEF row
    <3>2. sessions' = sessions /\ aborted' = aborted /\ admins' = admins
      BY <2>9 DEF Enable
    <3> HIDE DEF Authentic
    <3> QED BY <3>1, <3>2
  <2>10. ASSUME NEW a \in Admin, NEW n \in Name, DeleteUser(a, n)
         PROVE  RevocationInv'
    BY <2>10 DEF DeleteUser, Command
  <2>11. ASSUME NEW c \in admins, RevokeTickets(c)
         PROVE  RevocationInv'
    <3> DEFINE next == [c EXCEPT !.step = "sessions"]
    <3>1. next.name = c.name /\ next.op = c.op /\ next.step = "sessions"
      BY DEF TypeOK, AdminCommand
    <3>2. /\ sessions' = sessions /\ accounts' = accounts /\ aborted' = aborted
          /\ admins' = (admins \ {c}) \cup {next}
      BY <2>11 DEF RevokeTickets
    <3> HIDE DEF next
    <3> QED BY <3>1, <3>2
  <2>12. ASSUME NEW c \in admins, RevokeSessions(c)
         PROVE  RevocationInv'
    <3> DEFINE next == [c EXCEPT !.step = "jobs"]
    <3>1. next.name = c.name /\ next.op = c.op /\ next.step = "jobs"
      BY DEF TypeOK, AdminCommand
    <3>2. /\ accounts' = accounts /\ aborted' = aborted \ {c.name}
          /\ sessions' = {s \in sessions : s.name # c.name}
          /\ admins' = (admins \ {c}) \cup (IF c.op = "delete" THEN {next} ELSE {})
      BY <2>12 DEF RevokeSessions
    <3> HIDE DEF next
    <3> QED BY <3>1, <3>2
  <2>13. ASSUME NEW c \in admins, DeleteAccount(c)
         PROVE  RevocationInv'
    BY <2>13 DEF DeleteAccount
  <2>14. ASSUME NEW c \in admins, AdminFails(c)
         PROVE  RevocationInv'
    BY <2>14 DEF AdminFails
  <2>18. ASSUME NEW c \in admins, NEW to \in {"devices", "account"}, Deleting(c),
                admins' = (admins \ {c}) \cup {[c EXCEPT !.step = to]},
                UNCHANGED <<sessions, accounts, aborted>>
         PROVE  RevocationInv'
    <3> DEFINE next == [c EXCEPT !.step = to]
    <3>1. next.name = c.name /\ next.op = c.op /\ next.step = to
      BY DEF TypeOK, AdminCommand
    <3>2. admins' = (admins \ {c}) \cup {next}
      BY <2>18
    <3> HIDE DEF next
    <3> QED BY <2>18, <3>1, <3>2
  <2>19. ASSUME NEW c \in admins, DeleteJobs(c) \/ DeleteDevices(c)
         PROVE  RevocationInv'
    BY <2>18, <2>19 DEF DeleteJobs, DeleteDevices
  <2>15. CASE DropRequest
    BY <2>15, QuietStep DEF DropRequest
  <2>16. CASE Tick
    BY <2>16, QuietStep DEF Tick
  <2>17. CASE UNCHANGED vars
    BY <2>17, QuietStep DEF vars
  <2> QED
    BY <2>1, <2>2, <2>3, <2>4, <2>5, <2>6, <2>7, <2>8, <2>9, <2>10, <2>11,
       <2>12, <2>13, <2>14, <2>15, <2>16, <2>17, <2>19
       DEF Next, LoginNext, AdminNext, CommandNext
<1>3. RevocationInv => OnlyRacesOutliveRevocation
  OBVIOUS
<1> QED BY <1>1, <1>2, <1>3, TypeCorrect, PTL DEF Spec

-----------------------------------------------------------------------------
\* What ties the tables together: a token or a ticket in a row was made, a
\* ticket row is the only one of its ticket.
KeyInv ==
  /\ \A s \in sessions : s.token \in minted
  /\ \A q \in issues : q.token \in minted
  /\ \A k \in tickets : /\ k.session \in minted
                        /\ [ticket |-> k.ticket, relay |-> k.relay] \in issued
  /\ \A k1, k2 \in tickets : k1.ticket = k2.ticket => k1 = k2

LEMMA KeysHold == Spec => []KeyInv
<1> USE DEF KeyInv
<1>1. Init => KeyInv
  BY DEF Init
<1>2. TypeOK /\ KeyInv /\ [Next]_vars => KeyInv'
  <2> SUFFICES ASSUME TypeOK, KeyInv, [Next]_vars
               PROVE  KeyInv'
    OBVIOUS
  <2>1. CASE LoginNext
    <3>1. ASSUME NEW q \in logins, NEW t \in Token, LoginInsert(q, t)
          PROVE  KeyInv'
      BY <3>1 DEF LoginInsert
    <3> QED BY <2>1, <3>1 DEF LoginNext, LoginVerify, LoginPurge, Logout
  <2>2. ASSUME NEW i \in Issuer, NEW t \in Token, NEW r \in RelayId, TicketCheck(i, t, r)
        PROVE  KeyInv'
    BY <2>2 DEF TicketCheck, User
  <2>3. ASSUME NEW q \in issues, TicketPurge(q)
        PROVE  KeyInv'
    <3>1. [q EXCEPT !.step = "purged"].token = q.token
      BY DEF TypeOK, IssueRequest
    <3> QED BY <2>3, <3>1 DEF TicketPurge
  <2>4. ASSUME NEW q \in issues, NEW k \in Ticket, TicketInsert(q, k)
        PROVE  KeyInv'
    <3> DEFINE row == [ticket |-> k, session |-> q.token, relay |-> q.relay,
                       expires |-> now + TicketTTL]
    <3>1. \A old \in tickets : old.ticket # k
      BY <2>4 DEF TicketInsert
    <3>2. row.ticket = k /\ row.session \in minted
          /\ [ticket |-> row.ticket, relay |-> row.relay] \in issued'
      BY <2>4 DEF TicketInsert
    <3>3. /\ tickets' = tickets \cup {row} /\ issued \subseteq issued'
          /\ sessions' = sessions /\ minted' = minted /\ issues' \subseteq issues
      BY <2>4 DEF TicketInsert
    <3> HIDE DEF row
    <3> QED BY <3>1, <3>2, <3>3
  <2>5. ASSUME NEW k \in Ticket, NEW r \in RelayId, Redeem(k, r)
        PROVE  KeyInv'
    BY <2>5 DEF Redeem
  <2>6. CASE AdminNext
    <3>1. /\ sessions' \subseteq sessions /\ tickets' \subseteq tickets
          /\ issues' = issues /\ minted' = minted /\ issued' = issued
      BY <2>6 DEF AdminNext, CommandNext, CreateUser, SetPassword, Disable, DeleteUser,
                  Enable, RevokeTickets, RevokeSessions, DeleteJobs, DeleteDevices,
                  DeleteAccount, AdminFails
    <3> QED BY <3>1
  <2>7. CASE DropRequest
    BY <2>7 DEF DropRequest
  <2>8. CASE Tick
    BY <2>8 DEF Tick
  <2>9. CASE UNCHANGED vars
    BY <2>9 DEF vars
  <2> QED
    BY <2>1, <2>2, <2>3, <2>4, <2>5, <2>6, <2>7, <2>8, <2>9 DEF Next, TicketNext
<1> QED BY <1>1, <1>2, TypeCorrect, PTL DEF Spec

\* Tables that only shrink, and a clock that only advances, can only lapse
\* tickets.
LEMMA ShrinkLapses ==
  ASSUME TypeOK, KeyInv, TypeOK',
         now' >= now,
         tickets' \subseteq tickets,
         \A s \in sessions' : s \in sessions \/ s.token \notin minted,
         UNCHANGED <<issued, redeemed>>
  PROVE  RT!Lapse
<1>1. LiveTickets' \subseteq LiveTickets
  <2> SUFFICES ASSUME NEW k \in tickets', k.expires > now',
                      NEW s \in sessions', s.token = k.session, s.expires > now'
               PROVE  k.ticket \in LiveTickets
    BY DEF LiveTickets
  <2>1. k \in tickets /\ s \in sessions
    BY DEF KeyInv
  <2>2. k.expires \in Nat /\ s.expires \in Nat /\ now \in Nat /\ now' \in Nat
    BY <2>1 DEF TypeOK, TicketRow, SessionRow
  <2>3. k.expires > now /\ s.expires > now
    BY <2>2
  <2> QED BY <2>1, <2>3 DEF LiveTickets
<1> QED BY <1>1 DEF RT!Lapse

\* The store implements the abstract single-use tickets: at most one stream per
\* ticket, for its relay id only, and no way back for a ticket that lapsed
\* (store.rs:206-258).
THEOREM TicketsRefine == Spec => ImplementsRelayTickets
<1>1. Init => RT!Init
  BY DEF Init, RT!Init, LiveTickets
<1>2. TypeOK /\ TypeOK' /\ KeyInv /\ [Next]_vars => [RT!Next]_(RT!tickets)
  <2> SUFFICES ASSUME TypeOK, TypeOK', KeyInv, [Next]_vars
               PROVE  RT!Next \/ UNCHANGED RT!tickets
    OBVIOUS
  <2> USE ShrinkLapses DEF RT!Next
  <2>0. now \in Nat
    BY DEF TypeOK
  <2>1. CASE LoginNext
    <3>1. ASSUME NEW q \in logins, NEW t \in Token, LoginInsert(q, t)
          PROVE  \A s \in sessions' : s \in sessions \/ s.token \notin minted
      BY <3>1 DEF LoginInsert
    <3>2. \A s \in sessions' : s \in sessions \/ s.token \notin minted
      BY <2>1, <3>1 DEF LoginNext, LoginVerify, LoginPurge, Logout
    <3>3. now' = now /\ tickets' = tickets /\ issued' = issued /\ redeemed' = redeemed
      BY <2>1 DEF LoginNext, LoginVerify, LoginPurge, LoginInsert, Logout
    <3>4. now' >= now
      BY <2>0, <3>3
    <3> QED BY <3>2, <3>3, <3>4
  <2>2. ASSUME NEW i \in Issuer, NEW t \in Token, NEW r \in RelayId, TicketCheck(i, t, r)
        PROVE  RT!Lapse
    BY <2>0, <2>2 DEF TicketCheck
  <2>3. ASSUME NEW q \in issues, TicketPurge(q)
        PROVE  RT!Lapse
    BY <2>0, <2>3 DEF TicketPurge
  <2>4. ASSUME NEW q \in issues, NEW k \in Ticket, TicketInsert(q, k)
        PROVE  RT!Issue(k, q.relay) /\ q.relay \in RelayId
    <3> DEFINE row == [ticket |-> k, session |-> q.token, relay |-> q.relay,
                       expires |-> now + TicketTTL]
    <3>1. tickets' = tickets \cup {row} /\ sessions' = sessions /\ now' = now
      BY <2>4 DEF TicketInsert
    <3>2. row.ticket = k
      OBVIOUS
    <3> HIDE DEF row
    <3>3. LiveTickets' \in {LiveTickets, LiveTickets \cup {k}}
      <4>1. CASE row.expires > now /\ \E s \in sessions : s.token = row.session /\ s.expires > now
        <5>1. LiveTickets' = LiveTickets \cup {k}
          BY <3>1, <3>2, <4>1 DEF LiveTickets
        <5> QED BY <5>1
      <4>2. CASE ~(row.expires > now /\ \E s \in sessions : s.token = row.session /\ s.expires > now)
        <5>1. LiveTickets' = LiveTickets
          BY <3>1, <3>2, <4>2 DEF LiveTickets
        <5> QED BY <5>1
      <4> QED BY <4>1, <4>2
    <3>4. q.relay \in RelayId
      BY DEF TypeOK, IssueRequest
    <3> QED BY <2>4, <3>3, <3>4 DEF TicketInsert, RT!Issue
  <2>5. ASSUME NEW k \in Ticket, NEW r \in RelayId, Redeem(k, r)
        PROVE  RT!Admit(k, r)
    <3>1. PICK row \in tickets :
            /\ row.ticket = k /\ row.relay = r /\ row.expires > now
            /\ User(row.session)
            /\ tickets' = tickets \ {row}
      BY <2>5 DEF Redeem
    <3>2. k \in LiveTickets
      BY <3>1 DEF User, LiveTickets
    <3>3. [ticket |-> k, relay |-> r] \in issued
      BY <3>1 DEF KeyInv
    <3>4. LiveTickets' = LiveTickets \ {k}
      <4>1. now' = now /\ sessions' = sessions
        BY <2>5 DEF Redeem
      <4>2. \A x \in tickets : x # row <=> x.ticket # k
        BY <3>1 DEF KeyInv
      <4> QED BY <3>1, <4>1, <4>2 DEF LiveTickets
    <3> QED BY <2>5, <3>2, <3>3, <3>4 DEF Redeem, RT!Admit
  <2>6. CASE AdminNext
    <3>1. /\ sessions' \subseteq sessions /\ tickets' \subseteq tickets
          /\ now' = now /\ issued' = issued /\ redeemed' = redeemed
      BY <2>6 DEF AdminNext, CommandNext, CreateUser, SetPassword, Disable, DeleteUser,
                  Enable, RevokeTickets, RevokeSessions, DeleteJobs, DeleteDevices,
                  DeleteAccount, AdminFails
    <3> QED BY <2>0, <3>1
  <2>7. CASE DropRequest
    BY <2>0, <2>7 DEF DropRequest
  <2>8. CASE Tick
    BY <2>0, <2>8 DEF Tick
  <2>9. CASE UNCHANGED vars
    BY <2>0, <2>9 DEF vars
  <2> QED
    BY <2>1, <2>2, <2>3, <2>4, <2>5, <2>6, <2>7, <2>8, <2>9 DEF Next, TicketNext
<1> QED BY <1>1, <1>2, TypeCorrect, KeysHold, PTL DEF Spec, ImplementsRelayTickets, RT!Spec

\* Hence a ticket of the database admits one stream at most, of its own relay id, and
\* neither a login nor a command nor a request in flight revives one that is dead.
THEOREM TicketsSingleUse == Spec => []RT!SingleUse /\ RT!NoRevival
<1>1. RT!Init => RT!SingleUse
  BY DEF RT!Init, RT!SingleUse
<1>2. RT!SingleUse /\ [RT!Next]_(RT!tickets) => RT!SingleUse'
  <2> SUFFICES ASSUME RT!SingleUse, [RT!Next]_(RT!tickets)
               PROVE  RT!SingleUse'
    OBVIOUS
  <2> USE DEF RT!SingleUse
  <2>1. ASSUME NEW k \in Ticket, NEW r \in RelayId, RT!Issue(k, r)
        PROVE  RT!SingleUse'
    <3>1. \A g \in redeemed : g.ticket # k
      BY <2>1 DEF RT!Issue
    <3> QED BY <2>1, <3>1 DEF RT!Issue
  <2>2. ASSUME NEW k \in Ticket, NEW r \in RelayId, RT!Admit(k, r)
        PROVE  RT!SingleUse'
    BY <2>2 DEF RT!Admit
  <2>3. CASE RT!Lapse
    BY <2>3 DEF RT!Lapse
  <2>4. CASE UNCHANGED RT!tickets
    BY <2>4 DEF RT!tickets
  <2> QED BY <2>1, <2>2, <2>3, <2>4 DEF RT!Next
<1>3. [RT!Next]_(RT!tickets) =>
        [\A g \in issued : g.ticket \notin LiveTickets => g.ticket \notin LiveTickets']_(RT!tickets)
  BY DEF RT!Next, RT!Issue, RT!Admit, RT!Lapse
<1>4. ImplementsRelayTickets => []RT!SingleUse /\ RT!NoRevival
  BY <1>1, <1>2, <1>3, PTL DEF ImplementsRelayTickets, RT!Spec, RT!NoRevival
<1> QED BY <1>4, TicketsRefine, PTL

-----------------------------------------------------------------------------
(* Wake on LAN *)

\* Every behaviour of the composition is one of the database alone.
LEMMA StoreRuns == WolSpec => []TypeOK
<1>1. WolInit => Init
  BY DEF WolInit
<1>2. [WolNext]_wolVars => [Next]_vars
  <2> SUFFICES ASSUME [WolNext]_wolVars
               PROVE  Next \/ UNCHANGED vars
    OBVIOUS
  <2>1. CASE StoreStep
    BY <2>1 DEF StoreStep, Next, AdminNext
  <2>2. CASE PollNext
    BY <2>2 DEF PollNext, PollAuthorize, Register, Lease, AnswerPoll
  <2>3. CASE WakeNext
    BY <2>3 DEF WakeNext, WakeAuthorize, FindTarget, FindHelper, Queue
  <2>4. CASE DropWolRequest
    BY <2>4 DEF DropWolRequest
  <2>5. CASE DeleteNext
    BY <2>5 DEF DeleteNext, DeleteJobRows, DeleteDeviceRows, Next, AdminNext
  <2>6. CASE UNCHANGED wolVars
    BY <2>6 DEF wolVars
  <2> QED BY <2>1, <2>2, <2>3, <2>4, <2>5, <2>6 DEF WolNext
<1>3. WolSpec => Spec
  BY <1>1, <1>2, PTL DEF WolSpec, Spec
<1> QED BY <1>3, TypeCorrect, PTL

LEMMA LapsedBoolean == ASSUME NEW q PROVE Lapsed(q) \in BOOLEAN
BY DEF Lapsed

\* What makes WolTypeOK inductive: a wake request queues a job only after it
\* chose a device.
ChosenIsDevice == \A q \in wakes : q.step = "chosen" => q.helper \in Device

WolTypeInv == WolTypeOK /\ ChosenIsDevice

\* Rows and requests of wol.rs have their columns (wol.rs:3-18, 37-71,
\* 115-140).
THEOREM WolTypeCorrect == WolSpec => []WolTypeOK
<1>1. WolInit => WolTypeInv
  BY DEF WolInit, WolTypeInv, WolTypeOK, ChosenIsDevice
<1>2. TypeOK /\ WolTypeInv /\ [WolNext]_wolVars => WolTypeInv'
  <2> SUFFICES ASSUME TypeOK, WolTypeInv, [WolNext]_wolVars
               PROVE  WolTypeInv'
    OBVIOUS
  <2> USE DEF WolTypeInv, WolTypeOK, ChosenIsDevice
  <2>0. now \in Nat /\ now + JobTime \in Nat
    BY WolAssumption DEF TypeOK
  <2>1. CASE StoreStep
    BY <2>1 DEF StoreStep, wol
  <2>2. ASSUME NEW r \in Request, NEW t \in Token, NEW body \in Report,
               PollAuthorize(r, t, body)
        PROVE  WolTypeInv'
    <3>1. PICK s \in sessions :
            polls' = polls \cup
              {[id |-> r, owner |-> s.name, token |-> t, report |-> body,
                era |-> era[s.name], step |-> "authorized", leased |-> {},
                late |-> FALSE]}
      BY <2>2 DEF PollAuthorize
    <3>2. s.name \in Name
      BY DEF TypeOK, SessionRow
    <3>3. [id |-> r, owner |-> s.name, token |-> t, report |-> body,
           era |-> era[s.name], step |-> "authorized", leased |-> {},
           late |-> FALSE] \in Poll
      BY <3>2 DEF Poll
    <3> QED BY <2>2, <3>1, <3>3 DEF PollAuthorize
  <2>3. ASSUME NEW q \in polls, Register(q)
        PROVE  WolTypeInv'
    <3>1. q.owner \in Name /\ q.report \in Report /\ q.token \in Token
      BY DEF Poll
    <3>2. q.report.id \in Device /\ q.report.peers \in SUBSET Device
      BY <3>1, WolAssumption
    <3>3. [owner |-> q.owner, id |-> q.report.id, seen |-> now, session |-> q.token,
           peers |-> q.report.peers, era |-> era[q.owner], raced |-> Lapsed(q)]
             \in DeviceRow
      BY <2>0, <3>1, <3>2, LapsedBoolean DEF DeviceRow
    <3>4. [q EXCEPT !.step = "registered"] \in Poll
      BY DEF Poll
    <3> QED BY <2>3, <3>3, <3>4 DEF Register
  <2>4. ASSUME NEW q \in polls, Lease(q)
        PROVE  WolTypeInv'
    <3>1. ForHelper(q) \in SUBSET JobRow
      BY DEF ForHelper
    <3>2. [q EXCEPT !.step = "leased", !.leased = ForHelper(q), !.late = Lapsed(q)] \in Poll
      BY <3>1, LapsedBoolean DEF Poll
    <3> QED BY <2>4, <3>2 DEF Lease
  <2>5. ASSUME NEW q \in polls, AnswerPoll(q)
        PROVE  WolTypeInv'
    <3>1. \A j \in q.leased :
            [serial |-> j.serial, jobEra |-> j.era, era |-> q.era,
             raced |-> j.raced \/ q.late]
              \in [serial : Nat, jobEra : Nat, era : Nat, raced : BOOLEAN]
      BY DEF Poll, JobRow
    <3>2. /\ handed' \subseteq handed \cup
               {[serial |-> j.serial, jobEra |-> j.era, era |-> q.era,
                 raced |-> j.raced \/ q.late] : j \in q.leased}
          /\ polls' \subseteq polls
          /\ UNCHANGED <<devices, jobs, wakes, era, queued>>
      BY <2>5 DEF AnswerPoll
    <3>3. handed' \subseteq [serial : Nat, jobEra : Nat, era : Nat, raced : BOOLEAN]
      BY <3>1, <3>2
    <3> QED BY <3>2, <3>3
  <2>6. ASSUME NEW r \in Request, NEW t \in Token, NEW d \in Device, WakeAuthorize(r, t, d)
        PROVE  WolTypeInv'
    <3>1. PICK s \in sessions :
            wakes' = wakes \cup
              {[id |-> r, owner |-> s.name, token |-> t, target |-> d,
                era |-> era[s.name], step |-> "authorized", helper |-> NoDevice]}
      BY <2>6 DEF WakeAuthorize
    <3>2. s.name \in Name
      BY DEF TypeOK, SessionRow
    <3>3. [id |-> r, owner |-> s.name, token |-> t, target |-> d,
           era |-> era[s.name], step |-> "authorized", helper |-> NoDevice] \in Wake
      BY <3>2 DEF Wake
    <3> QED BY <2>6, <3>1, <3>3 DEF WakeAuthorize
  <2>7. ASSUME NEW q \in wakes, FindTarget(q)
        PROVE  WolTypeInv'
    <3> DEFINE next == [q EXCEPT !.step = "offline"]
    <3>1. next \in Wake /\ next.step = "offline"
      BY DEF Wake
    <3>2. /\ wakes' = (wakes \ {q}) \cup {next}
          /\ UNCHANGED <<devices, jobs, polls, era, queued, handed>>
      BY <2>7 DEF FindTarget
    <3> HIDE DEF next
    <3> QED BY <3>1, <3>2
  <2>8. ASSUME NEW q \in wakes, FindHelper(q)
        PROVE  WolTypeInv'
    <3>1. PICK d \in Helpers(q) :
            wakes' = (wakes \ {q}) \cup {[q EXCEPT !.step = "chosen", !.helper = d.id]}
      BY <2>8 DEF FindHelper
    <3>2. d.id \in Device
      BY DEF Helpers, DeviceRow
    <3> DEFINE next == [q EXCEPT !.step = "chosen", !.helper = d.id]
    <3>3. next \in Wake /\ next.helper \in Device
      BY <3>2 DEF Wake
    <3>4. wakes' = (wakes \ {q}) \cup {next}
      BY <3>1
    <3> HIDE DEF next
    <3>5. UNCHANGED <<devices, jobs, polls, era, queued, handed>>
      BY <2>8 DEF FindHelper
    <3> QED BY <3>3, <3>4, <3>5
  <2>9. ASSUME NEW q \in wakes, Queue(q)
        PROVE  WolTypeInv'
    <3>1. q \in Wake /\ q.helper \in Device
      BY <2>9 DEF Queue
    <3>2. [owner |-> q.owner, target |-> q.target, helper |-> q.helper,
           expires |-> now + JobTime, serial |-> queued, era |-> era[q.owner],
           raced |-> Lapsed(q)] \in JobRow
      BY <2>0, <3>1, LapsedBoolean DEF JobRow, Wake
    <3>3. queued' \in Nat
      BY <2>9 DEF Queue
    <3> QED BY <2>9, <3>2, <3>3 DEF Queue
  <2>10. CASE DropWolRequest
    BY <2>10 DEF DropWolRequest
  <2>11. ASSUME NEW c \in admins, DeleteJobRows(c) \/ DeleteDeviceRows(c)
         PROVE  WolTypeInv'
    <3>1. c.name \in Name
      BY DEF TypeOK, AdminCommand
    <3>2. [era EXCEPT ![c.name] = @ + 1] \in [Name -> Nat]
      BY <3>1
    <3> QED BY <2>11, <3>2 DEF DeleteJobRows, DeleteDeviceRows
  <2>12. CASE UNCHANGED wolVars
    BY <2>12 DEF wolVars, wol
  <2> QED
    BY <2>1, <2>2, <2>3, <2>4, <2>5, <2>6, <2>7, <2>8, <2>9, <2>10, <2>11, <2>12
       DEF WolNext, PollNext, WakeNext, DeleteNext
<1>3. WolTypeInv => WolTypeOK
  BY DEF WolTypeInv
<1> QED BY <1>1, <1>2, <1>3, StoreRuns, PTL DEF WolSpec

-----------------------------------------------------------------------------
\* Serial numbers are given in order, and a queued job is the only one of its
\* number: what LeasedOnce needs to be inductive.
SerialInv ==
  /\ \A j \in jobs : j.serial < queued
  /\ \A p \in polls : \A j \in p.leased : j.serial < queued
  /\ \A h \in handed : h.serial < queued
  /\ \A j, k \in jobs : j.serial = k.serial => j = k

LeaseInv ==
  /\ SerialInv
  /\ \A p \in polls : \A j \in p.leased, k \in jobs : j.serial # k.serial
  /\ \A p \in polls : \A j \in p.leased, h \in handed : j.serial # h.serial
  /\ \A p, q \in polls : p # q =>
       \A j \in p.leased, k \in q.leased : j.serial # k.serial
  /\ \A h \in handed, k \in jobs : h.serial # k.serial

\* Jobs and requests that disappear, and requests that lease nothing, keep it.
LEMMA LeaseQuiet ==
  ASSUME LeaseInv,
         jobs' \subseteq jobs,
         \A p \in polls' : p \in polls \/ p.leased = {},
         handed' = handed, queued' = queued
  PROVE  LeaseInv'
BY DEF LeaseInv, SerialInv

\* A wake is handed to a helper at most once, whatever the order of polls and
\* wakes (wol.rs:51-65, 115-140).
THEOREM WolLeasedOnce == WolSpec => []LeasedOnce
<1>1. WolInit => LeaseInv
  BY DEF WolInit, LeaseInv, SerialInv
<1>2. WolTypeOK /\ LeaseInv /\ [WolNext]_wolVars => LeaseInv'
  <2> SUFFICES ASSUME WolTypeOK, LeaseInv, [WolNext]_wolVars
               PROVE  LeaseInv'
    OBVIOUS
  <2>1. CASE UNCHANGED <<jobs, polls, handed, queued>>
    BY <2>1, LeaseQuiet
  <2>2. ASSUME NEW r \in Request, NEW t \in Token, NEW body \in Report,
               PollAuthorize(r, t, body)
        PROVE  LeaseInv'
    BY <2>2, LeaseQuiet DEF PollAuthorize
  <2>3. ASSUME NEW q \in polls, Register(q)
        PROVE  LeaseInv'
    <3> DEFINE next == [q EXCEPT !.step = "registered"]
    <3>1. next.leased = q.leased /\ next.step = "registered"
      BY DEF WolTypeOK, Poll
    <3>2. /\ polls' = (polls \ {q}) \cup {next}
          /\ UNCHANGED <<jobs, handed, queued>>
      BY <2>3 DEF Register
    <3>3. q.step = "authorized"
      BY <2>3 DEF Register
    <3> HIDE DEF next
    <3>4. \A p \in polls' : p \in polls \/ p = next
      BY <3>2
    <3> QED BY <3>1, <3>2, <3>4 DEF LeaseInv, SerialInv
  <2>4. ASSUME NEW q \in polls, Lease(q)
        PROVE  LeaseInv'
    <3> DEFINE next == [q EXCEPT !.step = "leased", !.leased = ForHelper(q), !.late = Lapsed(q)]
    <3>1. next.leased = ForHelper(q)
      BY DEF WolTypeOK, Poll
    <3>2. /\ polls' = (polls \ {q}) \cup {next}
          /\ jobs' = jobs \ ForHelper(q)
          /\ UNCHANGED <<handed, queued>>
      BY <2>4 DEF Lease
    <3>3. ForHelper(q) \subseteq jobs
      BY DEF ForHelper
    <3> HIDE DEF next, ForHelper
    <3> QED BY <3>1, <3>2, <3>3 DEF LeaseInv, SerialInv
  <2>5. ASSUME NEW q \in polls, AnswerPoll(q)
        PROVE  LeaseInv'
    <3>1. /\ \A h \in handed' : h \in handed \/ \E j \in q.leased : h.serial = j.serial
          /\ polls' = polls \ {q}
          /\ UNCHANGED <<jobs, queued>>
      BY <2>5 DEF AnswerPoll
    <3> QED BY <3>1 DEF LeaseInv, SerialInv
  <2>6. ASSUME NEW q \in wakes, Queue(q)
        PROVE  LeaseInv'
    <3>1. PICK new : /\ new.serial = queued
                     /\ jobs' \subseteq jobs \cup {new}
      BY <2>6 DEF Queue
    <3>2. /\ queued' = queued + 1 /\ queued \in Nat
          /\ UNCHANGED <<polls, handed>>
      BY <2>6 DEF Queue, WolTypeOK
    <3>3. /\ \A j \in jobs : j.serial \in Nat
          /\ \A p \in polls : \A j \in p.leased : j.serial \in Nat
          /\ \A h \in handed : h.serial \in Nat
      BY DEF WolTypeOK, JobRow, Poll
    <3> QED BY <3>1, <3>2, <3>3 DEF LeaseInv, SerialInv
  <2>7. CASE DropWolRequest
    BY <2>7, LeaseQuiet DEF DropWolRequest
  <2>8. ASSUME NEW c \in admins, DeleteJobRows(c) \/ DeleteDeviceRows(c)
        PROVE  LeaseInv'
    BY <2>8, LeaseQuiet DEF DeleteJobRows, DeleteDeviceRows
  <2>9. CASE UNCHANGED wolVars
    BY <2>9, LeaseQuiet DEF wolVars, wol
  <2> QED
    BY <2>1, <2>2, <2>3, <2>4, <2>5, <2>6, <2>7, <2>8, <2>9
       DEF WolNext, StoreStep, wol, PollNext, WakeNext, DeleteNext, WakeAuthorize,
           FindTarget, FindHelper
<1>3. LeaseInv => LeasedOnce
  BY DEF LeaseInv, LeasedOnce, Serials
<1> QED BY <1>1, <1>2, <1>3, WolTypeCorrect, PTL DEF WolSpec

-----------------------------------------------------------------------------
\* What a delete command has deleted so far stays deleted, except for rows
\* written behind its back.
WipedInv ==
  \A c \in admins :
    /\ c.step \in {"devices", "account"} =>
         \A j \in jobs : j.owner = c.name => j.raced
    /\ c.step = "account" =>
         \A d \in devices : d.owner = c.name => d.raced

\* A chosen helper is another device, and its row stays until the rows of the
\* owner are deleted.
ChosenInv ==
  \A q \in wakes :
    /\ q.era <= era[q.owner]
    /\ q.step = "chosen" =>
         /\ q.helper # q.target
         /\ \/ q.era # era[q.owner]
            \/ \E d \in devices : d.owner = q.owner /\ d.id = q.helper

\* What a poll has leased was asked for by the account it polls for.
LeasedEra ==
  \A p \in polls : \A j \in p.leased : j.era = p.era \/ j.raced \/ p.late

RowsInv ==
  /\ RowsOutliveAccountOnlyByRace
  /\ WipedInv
  /\ ChosenInv
  /\ JobHasHelper
  /\ LeasedEra
  /\ WakesStayInAccount

HasAccount(n) == \E a \in accounts : a.name = n

LEMMA RowsQuiet ==
  ASSUME RowsInv,
         devices' = devices, jobs' \subseteq jobs, era' = era,
         wakes' \subseteq wakes, polls' \subseteq polls, handed' = handed,
         \A c \in admins' : \/ c.step \notin {"devices", "account"}
                            \/ c \in admins,
         \A n : HasAccount(n) =>
                  HasAccount(n)' \/ \E c \in admins : c.name = n /\ c.step = "account"
  PROVE  RowsInv'
<1>1. WipedInv' /\ ChosenInv' /\ JobHasHelper' /\ LeasedEra' /\ WakesStayInAccount'
  BY DEF RowsInv, WipedInv, ChosenInv, JobHasHelper, LeasedEra, WakesStayInAccount
<1>2. RowsOutliveAccountOnlyByRace'
  BY DEF RowsInv, RowsOutliveAccountOnlyByRace, WipedInv, HasAccount
<1> QED BY <1>1, <1>2 DEF RowsInv

LEMMA RowsStoreStep ==
  ASSUME TypeOK, RowsInv, StoreStep
  PROVE  RowsInv'
<1> USE RowsQuiet DEF StoreStep, wol, store, requests
<1>1. CASE LoginNext \/ TicketNext \/ DropRequest \/ Tick
  <2>1. accounts' = accounts /\ admins' = admins
    BY <1>1 DEF LoginNext, LoginVerify, LoginPurge, LoginInsert, Logout, TicketNext,
                TicketCheck, TicketPurge, TicketInsert, Redeem, DropRequest, Tick
  <2> QED BY <2>1 DEF HasAccount
<1>2. ASSUME NEW n \in Name, NEW p \in Password, CreateUser(n, p)
      PROVE  RowsInv'
  <2>1. accounts \subseteq accounts' /\ admins' = admins
    BY <1>2 DEF CreateUser
  <2> QED BY <2>1 DEF HasAccount
<1>3. ASSUME NEW a \in Admin, NEW n \in Name, NEW p \in Password, SetPassword(a, n, p)
      PROVE  RowsInv'
  <2>1. \A row \in accounts : [row EXCEPT !.password = p].name = row.name
    BY DEF TypeOK, AccountRow
  <2>2. \A m : HasAccount(m) => HasAccount(m)'
    BY <1>3, <2>1 DEF SetPassword, HasAccount
  <2>3. \A c \in admins' : c \in admins \/ c.step = "tickets"
    BY <1>3 DEF SetPassword, Command
  <2> QED BY <2>2, <2>3
<1>4. ASSUME NEW a \in Admin, NEW n \in Name, Disable(a, n)
      PROVE  RowsInv'
  <2>1. \A row \in accounts : [row EXCEPT !.enabled = FALSE].name = row.name
    BY DEF TypeOK, AccountRow
  <2>2. \A m : HasAccount(m) => HasAccount(m)'
    BY <1>4, <2>1 DEF Disable, HasAccount
  <2>3. \A c \in admins' : c \in admins \/ c.step = "tickets"
    BY <1>4 DEF Disable, Command
  <2> QED BY <2>2, <2>3
<1>5. ASSUME NEW a \in Admin, NEW n \in Name, DeleteUser(a, n)
      PROVE  RowsInv'
  <2>1. \A c \in admins' : c \in admins \/ c.step = "tickets"
    BY <1>5 DEF DeleteUser, Command
  <2> QED BY <1>5, <2>1 DEF DeleteUser, HasAccount
<1>6. ASSUME NEW n \in Name, Enable(n)
      PROVE  RowsInv'
  <2>1. \A row \in accounts : [row EXCEPT !.enabled = TRUE].name = row.name
    BY DEF TypeOK, AccountRow
  <2>2. \A m : HasAccount(m) => HasAccount(m)'
    BY <1>6, <2>1 DEF Enable, HasAccount
  <2> QED BY <1>6, <2>2 DEF Enable
<1>7. ASSUME NEW c \in admins, RevokeTickets(c) \/ RevokeSessions(c)
      PROVE  RowsInv'
  <2>1. /\ [c EXCEPT !.step = "sessions"].step = "sessions"
        /\ [c EXCEPT !.step = "jobs"].step = "jobs"
    BY DEF TypeOK, AdminCommand
  <2>2. \A d \in admins' : d \in admins \/ d.step \in {"sessions", "jobs"}
    BY <1>7, <2>1 DEF RevokeTickets, RevokeSessions
  <2> QED BY <1>7, <2>2 DEF RevokeTickets, RevokeSessions, HasAccount
<1>8. ASSUME NEW c \in admins, DeleteAccount(c)
      PROVE  RowsInv'
  <2>1. \A n : HasAccount(n) => HasAccount(n)' \/ n = c.name
    BY <1>8 DEF DeleteAccount, HasAccount
  <2>2. admins' \subseteq admins /\ c.step = "account"
    BY <1>8 DEF DeleteAccount
  <2> QED BY <2>1, <2>2
<1>9. ASSUME NEW c \in admins, AdminFails(c)
      PROVE  RowsInv'
  <2>1. admins' \subseteq admins /\ accounts' = accounts
    BY <1>9 DEF AdminFails
  <2> QED BY <2>1 DEF HasAccount
<1> QED
  BY <1>1, <1>2, <1>3, <1>4, <1>5, <1>6, <1>7, <1>8, <1>9 DEF CommandNext

\* A request that has not lapsed acts for an account that exists, none of whose
\* rows is being deleted.
LEMMA NotLapsed ==
  ASSUME NEW q, ~Lapsed(q)
  PROVE  /\ HasAccount(q.owner)
         /\ q.era = era[q.owner]
         /\ \A c \in admins : c.name = q.owner => c.step \notin {"jobs", "devices", "account"}
BY DEF Lapsed, HasAccount, Deleting

\* The invariant of poll(): a registration replaces a row by one that is either
\* marked or of the present account, and a lease takes jobs of one account only.
LEMMA RowsPoll ==
  ASSUME WolTypeOK, RowsInv, PollNext
  PROVE  RowsInv'
<1>1. ASSUME NEW r \in Request, NEW t \in Token, NEW body \in Report,
             PollAuthorize(r, t, body)
      PROVE  RowsInv'
  <2>1. \A p \in polls' : p \in polls \/ p.leased = {}
    BY <1>1 DEF PollAuthorize
  <2>2. UNCHANGED <<accounts, admins, devices, jobs, wakes, era, handed>>
    BY <1>1 DEF PollAuthorize, vars, store, requests
  <2> QED BY <2>1, <2>2 DEF RowsInv, RowsOutliveAccountOnlyByRace, WipedInv, ChosenInv,
                            JobHasHelper, LeasedEra, WakesStayInAccount
<1>2. ASSUME NEW q \in polls, Register(q)
      PROVE  RowsInv'
  <2> DEFINE new == [owner |-> q.owner, id |-> q.report.id, seen |-> now,
                     session |-> q.token, peers |-> q.report.peers,
                     era |-> era[q.owner], raced |-> Lapsed(q)]
             old == {d \in devices : d.owner = q.owner /\ d.id = q.report.id}
             next == [q EXCEPT !.step = "registered"]
  <2>1. /\ devices' = (devices \ old) \cup {new}
        /\ polls' = (polls \ {q}) \cup {next}
        /\ UNCHANGED <<accounts, admins, jobs, wakes, era, handed>>
    BY <1>2 DEF Register, vars, store, requests
  <2>2. \A d \in old : d.owner = new.owner /\ d.id = new.id
    OBVIOUS
  <2>3. next.leased = q.leased /\ next.era = q.era /\ next.late = q.late
    BY DEF WolTypeOK, Poll
  <2>4. \/ new.raced
        \/ /\ new.era = era[new.owner] /\ HasAccount(new.owner)
           /\ \A c \in admins : c.name = new.owner => c.step # "account"
    BY NotLapsed
  <2> HIDE DEF new, old, next
  <2>5. RowsOutliveAccountOnlyByRace'
    BY <2>1, <2>4 DEF RowsInv, RowsOutliveAccountOnlyByRace, HasAccount
  <2>6. WipedInv'
    BY <2>1, <2>4 DEF RowsInv, WipedInv
  <2>7. ChosenInv' /\ JobHasHelper'
    BY <2>1, <2>2 DEF RowsInv, ChosenInv, JobHasHelper
  <2>8. LeasedEra' /\ WakesStayInAccount'
    BY <2>1, <2>3 DEF RowsInv, LeasedEra, WakesStayInAccount
  <2> QED BY <2>5, <2>6, <2>7, <2>8 DEF RowsInv
<1>3. ASSUME NEW q \in polls, Lease(q)
      PROVE  RowsInv'
  <2> DEFINE next == [q EXCEPT !.step = "leased", !.leased = ForHelper(q), !.late = Lapsed(q)]
  <2>1. next.leased = ForHelper(q) /\ next.era = q.era /\ next.late = Lapsed(q)
    BY DEF WolTypeOK, Poll
  <2>2. /\ polls' = (polls \ {q}) \cup {next}
        /\ jobs' \subseteq jobs
        /\ UNCHANGED <<accounts, admins, devices, wakes, era, handed>>
    BY <1>3 DEF Lease, vars, store, requests
  <2> HIDE DEF next
  <2>3. \A j \in ForHelper(q) : j.raced \/ j.era = q.era \/ Lapsed(q)
    BY NotLapsed DEF ForHelper, RowsInv, RowsOutliveAccountOnlyByRace
  <2>4. LeasedEra'
    BY <2>1, <2>2, <2>3 DEF RowsInv, LeasedEra
  <2> QED BY <2>2, <2>4 DEF RowsInv, RowsOutliveAccountOnlyByRace, WipedInv, ChosenInv,
                            JobHasHelper, WakesStayInAccount
<1>4. ASSUME NEW q \in polls, AnswerPoll(q)
      PROVE  RowsInv'
  <2>1. /\ \A h \in handed' :
             h \in handed \/ \E j \in q.leased : /\ h.jobEra = j.era /\ h.era = q.era
                                                 /\ h.raced = (j.raced \/ q.late)
        /\ polls' \subseteq polls
        /\ UNCHANGED <<accounts, admins, devices, jobs, wakes, era>>
    BY <1>4 DEF AnswerPoll, vars, store, requests
  <2>2. WakesStayInAccount'
    BY <2>1 DEF RowsInv, LeasedEra, WakesStayInAccount
  <2> QED BY <2>1, <2>2 DEF RowsInv, RowsOutliveAccountOnlyByRace, WipedInv, ChosenInv,
                            JobHasHelper, LeasedEra
<1> QED BY <1>1, <1>2, <1>3, <1>4 DEF PollNext

\* The invariant of wake(): between the choice of the helper and the INSERT its
\* row can go only with all rows of the owner, which marks the job.
LEMMA RowsWake ==
  ASSUME TypeOK, WolTypeOK, RowsInv, WakeNext
  PROVE  RowsInv'
<1>1. ASSUME UNCHANGED <<accounts, admins, devices, jobs, polls, era, handed>>, ChosenInv'
      PROVE  RowsInv'
  BY <1>1 DEF RowsInv, RowsOutliveAccountOnlyByRace, WipedInv, JobHasHelper, LeasedEra,
              WakesStayInAccount
<1>2. ASSUME NEW r \in Request, NEW t \in Token, NEW d \in Device, WakeAuthorize(r, t, d)
      PROVE  RowsInv'
  <2>1. \A s \in sessions : era[s.name] <= era[s.name]
    BY DEF TypeOK, SessionRow, WolTypeOK
  <2>2. \A q \in wakes' : \/ q \in wakes
                          \/ q.era <= era[q.owner] /\ q.step = "authorized"
    BY <1>2, <2>1 DEF WakeAuthorize
  <2>3. UNCHANGED <<accounts, admins, devices, jobs, polls, era, handed>>
    BY <1>2 DEF WakeAuthorize, vars, store, requests
  <2> QED BY <1>1, <2>2, <2>3 DEF RowsInv, ChosenInv
<1>3. ASSUME NEW q \in wakes, FindTarget(q)
      PROVE  RowsInv'
  <2> DEFINE next == [q EXCEPT !.step = "offline"]
  <2>1. next.era = q.era /\ next.owner = q.owner /\ next.step = "offline"
    BY DEF WolTypeOK, Wake
  <2>2. /\ wakes' = (wakes \ {q}) \cup {next}
        /\ UNCHANGED <<accounts, admins, devices, jobs, polls, era, handed>>
    BY <1>3 DEF FindTarget, vars, store, requests
  <2> HIDE DEF next
  <2> QED BY <1>1, <2>1, <2>2 DEF RowsInv, ChosenInv
<1>4. ASSUME NEW q \in wakes, FindHelper(q)
      PROVE  RowsInv'
  <2>1. PICK d \in Helpers(q) :
          wakes' = (wakes \ {q}) \cup {[q EXCEPT !.step = "chosen", !.helper = d.id]}
    BY <1>4 DEF FindHelper
  <2> DEFINE next == [q EXCEPT !.step = "chosen", !.helper = d.id]
  <2>2. /\ next.era = q.era /\ next.owner = q.owner /\ next.target = q.target
        /\ next.helper = d.id
    BY DEF WolTypeOK, Wake
  <2>3. d \in devices /\ d.owner = q.owner /\ d.id # q.target
    BY DEF Helpers
  <2>4. /\ wakes' = (wakes \ {q}) \cup {next}
        /\ UNCHANGED <<accounts, admins, devices, jobs, polls, era, handed>>
    BY <1>4, <2>1 DEF FindHelper, vars, store, requests
  <2> HIDE DEF next
  <2> QED BY <1>1, <2>2, <2>3, <2>4 DEF RowsInv, ChosenInv
<1>5. ASSUME NEW q \in wakes, Queue(q)
      PROVE  RowsInv'
  <2>1. PICK new : /\ new.owner = q.owner /\ new.target = q.target /\ new.helper = q.helper
                   /\ new.era = era[q.owner] /\ new.raced = Lapsed(q)
                   /\ jobs' \subseteq jobs \cup {new}
    BY <1>5 DEF Queue
  <2>2. /\ wakes' \subseteq wakes /\ q.step = "chosen"
        /\ UNCHANGED <<accounts, admins, devices, polls, era, handed>>
    BY <1>5 DEF Queue, vars, store, requests
  <2>3. \/ new.raced
        \/ /\ HasAccount(new.owner)
           /\ \A c \in admins : c.name = new.owner => c.step \notin {"devices", "account"}
           /\ q.era = era[q.owner]
    BY <2>1, NotLapsed
  <2>4. RowsOutliveAccountOnlyByRace'
    BY <2>1, <2>2, <2>3 DEF RowsInv, RowsOutliveAccountOnlyByRace, HasAccount
  <2>5. WipedInv'
    BY <2>1, <2>2, <2>3 DEF RowsInv, WipedInv
  <2>6. JobHasHelper'
    BY <2>1, <2>2, <2>3 DEF RowsInv, JobHasHelper, ChosenInv
  <2> QED BY <2>2, <2>4, <2>5, <2>6 DEF RowsInv, ChosenInv, LeasedEra, WakesStayInAccount
<1> QED BY <1>2, <1>3, <1>4, <1>5 DEF WakeNext

\* The two DELETEs of delete_user(): jobs first, so that no job is left that
\* names a deleted helper.
LEMMA RowsDelete ==
  ASSUME TypeOK, WolTypeOK, RowsInv, DeleteNext
  PROVE  RowsInv'
<1>1. PICK c \in admins : DeleteJobRows(c) \/ DeleteDeviceRows(c)
  BY DEF DeleteNext
<1> DEFINE next == [c EXCEPT !.step = IF c.step = "jobs" THEN "devices" ELSE "account"]
<1>2. /\ next.name = c.name
      /\ next.step = IF c.step = "jobs" THEN "devices" ELSE "account"
  BY DEF TypeOK, AdminCommand
<1>3. /\ admins' = (admins \ {c}) \cup {next}
      /\ UNCHANGED <<accounts, polls, wakes, handed>>
  BY <1>1 DEF DeleteJobRows, DeleteDeviceRows, DeleteJobs, DeleteDevices, store
<1> HIDE DEF next
<1>4. CASE DeleteJobRows(c)
  <2>1. /\ jobs' = {j \in jobs : j.owner # c.name} /\ devices' = devices /\ era' = era
        /\ c.step = "jobs"
    BY <1>4 DEF DeleteJobRows, DeleteJobs
  <2>2. WipedInv'
    BY <1>2, <1>3, <2>1 DEF RowsInv, WipedInv
  <2> QED BY <1>3, <2>1, <2>2
          DEF RowsInv, RowsOutliveAccountOnlyByRace, ChosenInv, JobHasHelper, LeasedEra,
              WakesStayInAccount
<1>5. CASE DeleteDeviceRows(c)
  <2>1. /\ devices' = {d \in devices : d.owner # c.name} /\ jobs' = jobs
        /\ era' = [era EXCEPT ![c.name] = @ + 1]
        /\ c.step = "devices"
    BY <1>5 DEF DeleteDeviceRows, DeleteDevices
  <2>2. c.name \in Name /\ \A n \in Name : era[n] \in Nat
    BY DEF TypeOK, AdminCommand, WolTypeOK
  <2>3. /\ era'[c.name] = era[c.name] + 1
        /\ \A n \in Name : n # c.name => era'[n] = era[n]
    BY <2>1, <2>2 DEF WolTypeOK
  <2>4. \A j \in jobs : j.owner = c.name => j.raced
    BY <2>1 DEF RowsInv, WipedInv
  <2>5. RowsOutliveAccountOnlyByRace'
    <3>1. \A row \in devices \cup jobs : row.owner \in Name
      BY DEF WolTypeOK, DeviceRow, JobRow
    <3> QED BY <1>3, <2>1, <2>3, <2>4, <3>1 DEF RowsInv, RowsOutliveAccountOnlyByRace
  <2>6. WipedInv'
    BY <1>2, <1>3, <2>1, <2>4 DEF RowsInv, WipedInv
  <2>7. ChosenInv'
    <3>1. \A q \in wakes : q.owner \in Name /\ q.era \in Nat
      BY DEF WolTypeOK, Wake
    <3> QED BY <1>3, <2>1, <2>2, <2>3, <3>1 DEF RowsInv, ChosenInv
  <2>8. JobHasHelper'
    BY <2>1, <2>4 DEF RowsInv, JobHasHelper
  <2> QED BY <1>3, <2>1, <2>5, <2>6, <2>7, <2>8 DEF RowsInv, LeasedEra, WakesStayInAccount
<1> QED BY <1>1, <1>4, <1>5

\* Rows outlive their account, a job its helper, and a wake the account that
\* asked for it, only when a request raced the deletion (store.rs:113-132,
\* wol.rs:37-140).
THEOREM WolRowsSafe ==
  WolSpec => [](RowsOutliveAccountOnlyByRace /\ JobHasHelper /\ WakesStayInAccount)
<1>1. WolInit => RowsInv
  BY DEF WolInit, Init, RowsInv, RowsOutliveAccountOnlyByRace, WipedInv, ChosenInv,
         JobHasHelper, LeasedEra, WakesStayInAccount
<1>2. TypeOK /\ WolTypeOK /\ RowsInv /\ [WolNext]_wolVars => RowsInv'
  <2> SUFFICES ASSUME TypeOK, WolTypeOK, RowsInv, [WolNext]_wolVars
               PROVE  RowsInv'
    OBVIOUS
  <2>1. CASE DropWolRequest
    <3>1. /\ wakes' \subseteq wakes /\ polls' \subseteq polls
          /\ UNCHANGED <<accounts, admins, devices, jobs, era, handed>>
      BY <2>1 DEF DropWolRequest, vars, store, requests
    <3> QED BY <3>1, RowsQuiet DEF HasAccount
  <2>2. CASE UNCHANGED wolVars
    <3>1. UNCHANGED <<accounts, admins, devices, jobs, polls, wakes, era, handed>>
      BY <2>2 DEF wolVars, vars, store, requests, wol
    <3> QED BY <3>1, RowsQuiet DEF HasAccount
  <2> QED
    BY <2>1, <2>2, RowsStoreStep, RowsPoll, RowsWake, RowsDelete DEF WolNext
<1>3. RowsInv => RowsOutliveAccountOnlyByRace /\ JobHasHelper /\ WakesStayInAccount
  BY DEF RowsInv
<1> QED BY <1>1, <1>2, <1>3, StoreRuns, WolTypeCorrect, PTL DEF WolSpec
=============================================================================
