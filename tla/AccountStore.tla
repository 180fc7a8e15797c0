---------------------------- MODULE AccountStore ----------------------------
(***************************************************************************)
(* The account database of src/src/account/store.rs and the three kinds of *)
(* process that run on it: HTTP requests of openuu-account (login, ticket, *)
(* logout, redeem), hbbs and hbbr working on the same file, and the        *)
(* administrator's command line (account_main.rs), a process of its own.   *)
(*                                                                         *)
(* A table is a set of rows. Every SQL statement is one atomic action (one *)
(* connection per process, SQLite's file lock between processes); an       *)
(* operation made of several statements is interleaved with the others     *)
(* between them, since none opens a transaction. Tokens and tickets are    *)
(* two random uuids each: never repeated. Only their digests are stored;   *)
(* a digest is identified with what it is the digest of.                   *)
(***************************************************************************)
EXTENDS Integers

CONSTANTS Name, Password, Token, Ticket, RelayId,
          Login,      \* slots of concurrent login requests
          Issuer,     \* slots of concurrent ticket requests
          Admin,      \* slots of concurrent administrator commands
          SessionTTL, \* 86400 s in the code
          TicketTTL,  \* 60 s in the code
          MaxTime     \* bound on the clock

ASSUME TimeAssumption ==
  /\ SessionTTL \in Nat \ {0}
  /\ TicketTTL \in Nat \ {0}
  /\ MaxTime \in Nat

VARIABLES now,       \* seconds
          accounts,  \* table accounts
          sessions,  \* table account_sessions
          tickets,   \* table relay_tickets
          logins,    \* login requests between two statements
          issues,    \* ticket requests between two statements
          admins,    \* administrator commands between two statements
          minted,    \* history: session tokens ever made
          issued,    \* history: [ticket, relay] of every ticket row ever made
          redeemed,  \* history: [ticket, relay] of every successful redemption
          aborted    \* history: names whose passwd or disable failed halfway

store == <<accounts, sessions, tickets>>
requests == <<logins, issues, admins>>
history == <<minted, issued, redeemed, aborted>>
vars == <<now, store, requests, history>>

AccountRow == [name : Name, password : Password, enabled : BOOLEAN]

\* password and raced are history: the password the login presented, and
\* whether the row was inserted behind the back of an administrator command.
SessionRow == [token : Token, name : Name, expires : Nat,
               password : Password, raced : BOOLEAN]

TicketRow == [ticket : Ticket, session : Token, relay : RelayId, expires : Nat]

LoginRequest == [id : Login, name : Name, password : Password,
                 step : {"verified", "purged"}]

IssueRequest == [id : Issuer, token : Token, relay : RelayId,
                 step : {"checked", "purged"}]

\* step names the statement the command runs next.
AdminCommand == [id : Admin, name : Name, op : {"passwd", "disable", "delete"},
                 step : {"tickets", "sessions", "jobs", "devices", "account"}]

\* A delete command that is past its DELETE FROM account_sessions.
Deleting(c) == c.step \in {"jobs", "devices", "account"}

TypeOK ==
  /\ now \in Nat
  /\ accounts \subseteq AccountRow
  /\ sessions \subseteq SessionRow
  /\ tickets \subseteq TicketRow
  /\ logins \subseteq LoginRequest
  /\ issues \subseteq IssueRequest
  /\ admins \subseteq AdminCommand
  /\ minted \subseteq Token
  /\ issued \subseteq [ticket : Ticket, relay : RelayId]
  /\ redeemed \subseteq [ticket : Ticket, relay : RelayId]
  /\ aborted \subseteq Name

Init ==
  /\ now = 0
  /\ accounts = {} /\ sessions = {} /\ tickets = {}
  /\ logins = {} /\ issues = {} /\ admins = {}
  /\ minted = {} /\ issued = {} /\ redeemed = {} /\ aborted = {}

\* The JOIN of user(): the session is unexpired and its account enabled.
User(t) ==
  \E s \in sessions, a \in accounts :
    /\ s.token = t /\ s.expires > now
    /\ a.name = s.name /\ a.enabled

-----------------------------------------------------------------------------
(* login() *)

\* SELECT password_hash ... WHERE name=? AND enabled=1, and bcrypt on what it
\* read. A login that fails here leaves no trace in the database.
LoginVerify(l, n, p) ==
  /\ \A q \in logins : q.id # l
  /\ [name |-> n, password |-> p, enabled |-> TRUE] \in accounts
  /\ logins' = logins \cup {[id |-> l, name |-> n, password |-> p, step |-> "verified"]}
  /\ UNCHANGED <<now, store, issues, admins, history>>

\* DELETE FROM account_sessions WHERE expires<=?
LoginPurge(q) ==
  /\ q.step = "verified"
  /\ sessions' = {s \in sessions : s.expires > now}
  /\ logins' = (logins \ {q}) \cup {[q EXCEPT !.step = "purged"]}
  /\ UNCHANGED <<now, accounts, tickets, issues, admins, history>>

\* History only: what the login verified is no longer what the account row
\* says, or a delete command is past its DELETE FROM account_sessions.
Raced(q) ==
  \/ [name |-> q.name, password |-> q.password, enabled |-> TRUE] \notin accounts
  \/ \E c \in admins : c.name = q.name /\ Deleting(c)

\* INSERT INTO account_sessions: no condition on the account row any more.
LoginInsert(q, t) ==
  /\ q.step = "purged"
  /\ t \notin minted
  /\ sessions' = sessions \cup
       {[token |-> t, name |-> q.name, expires |-> now + SessionTTL,
         password |-> q.password, raced |-> Raced(q)]}
  /\ minted' = minted \cup {t}
  /\ logins' = logins \ {q}
  /\ UNCHANGED <<now, accounts, tickets, issues, admins, issued, redeemed, aborted>>

-----------------------------------------------------------------------------
(* ticket(): POST /api/relay-ticket, and peer_ticket() in hbbs *)

TicketCheck(i, t, r) ==
  /\ \A q \in issues : q.id # i
  /\ User(t)
  /\ issues' = issues \cup {[id |-> i, token |-> t, relay |-> r, step |-> "checked"]}
  /\ UNCHANGED <<now, store, logins, admins, history>>

\* DELETE FROM relay_tickets WHERE expires<=?
TicketPurge(q) ==
  /\ q.step = "checked"
  /\ tickets' = {k \in tickets : k.expires > now}
  /\ issues' = (issues \ {q}) \cup {[q EXCEPT !.step = "purged"]}
  /\ UNCHANGED <<now, accounts, sessions, logins, admins, history>>

TicketInsert(q, k) ==
  /\ q.step = "purged"
  /\ \A g \in issued : g.ticket # k
  /\ tickets' = tickets \cup
       {[ticket |-> k, session |-> q.token, relay |-> q.relay,
         expires |-> now + TicketTTL]}
  /\ issued' = issued \cup {[ticket |-> k, relay |-> q.relay]}
  /\ issues' = issues \ {q}
  /\ UNCHANGED <<now, accounts, sessions, logins, admins, minted, redeemed, aborted>>

\* A client hangs up or a statement fails: the handler is dropped at its await
\* point, with the statements it has already run in place.
DropRequest ==
  /\ \/ \E q \in logins : logins' = logins \ {q} /\ UNCHANGED issues
     \/ \E q \in issues : issues' = issues \ {q} /\ UNCHANGED logins
  /\ UNCHANGED <<now, store, admins, history>>

\* Mutant: a redeem() that looks the row up and leaves it to expire.
RedeemBySelect(k, r) ==
  \E row \in tickets :
    /\ row.ticket = k /\ row.relay = r /\ row.expires > now /\ User(row.session)
    /\ redeemed' = redeemed \cup {[ticket |-> k, relay |-> r]}
    /\ UNCHANGED <<now, store, requests, minted, issued, aborted>>

\* The one DELETE of redeem(): ticket, relay id, both expiries and the account
\* are tested by the statement that removes the row. The clock is read just
\* before it; here, with it.
Redeem(k, r) ==
  \E row \in tickets :
    /\ row.ticket = k /\ row.relay = r /\ row.expires > now
    /\ User(row.session)
    /\ tickets' = tickets \ {row}
    /\ redeemed' = redeemed \cup {[ticket |-> k, relay |-> r]}
    /\ UNCHANGED <<now, accounts, sessions, requests, minted, issued, aborted>>

\* revoke(): POST /api/logout. Ticket rows of the session stay.
Logout(t) ==
  /\ sessions' = {s \in sessions : s.token # t}
  /\ sessions' # sessions
  /\ UNCHANGED <<now, accounts, tickets, requests, history>>

-----------------------------------------------------------------------------
(* The administrator's command line *)

Free(a) == \A c \in admins : c.id # a

Exists(n) == \E row \in accounts : row.name = n

CreateUser(n, p) ==
  /\ ~Exists(n)
  /\ accounts' = accounts \cup {[name |-> n, password |-> p, enabled |-> TRUE]}
  /\ UNCHANGED <<now, sessions, tickets, requests, history>>

Command(a, n, op, step) == [id |-> a, name |-> n, op |-> op, step |-> step]

\* Mutant: passwd without the call of revoke_user().
SetPasswordOnly(a, n, p) ==
  /\ Free(a) /\ Exists(n)
  /\ accounts' = {IF row.name = n THEN [row EXCEPT !.password = p] ELSE row
                    : row \in accounts}
  /\ UNCHANGED <<now, sessions, tickets, requests, history>>

\* UPDATE accounts SET password_hash=? WHERE name=?; revoke_user() comes next.
SetPassword(a, n, p) ==
  /\ Free(a) /\ Exists(n)
  /\ accounts' = {IF row.name = n THEN [row EXCEPT !.password = p] ELSE row
                    : row \in accounts}
  /\ admins' = admins \cup {Command(a, n, "passwd", "tickets")}
  /\ UNCHANGED <<now, sessions, tickets, logins, issues, history>>

Disable(a, n) ==
  /\ Free(a) /\ Exists(n)
  /\ accounts' = {IF row.name = n THEN [row EXCEPT !.enabled = FALSE] ELSE row
                    : row \in accounts}
  /\ admins' = admins \cup {Command(a, n, "disable", "tickets")}
  /\ UNCHANGED <<now, sessions, tickets, logins, issues, history>>

Enable(n) ==
  /\ Exists(n)
  /\ accounts' = {IF row.name = n THEN [row EXCEPT !.enabled = TRUE] ELSE row
                    : row \in accounts}
  /\ UNCHANGED <<now, sessions, tickets, requests, history>>

\* delete_user() revokes first, whether or not the account exists.
DeleteUser(a, n) ==
  /\ Free(a)
  /\ admins' = admins \cup {Command(a, n, "delete", "tickets")}
  /\ UNCHANGED <<now, store, logins, issues, history>>

\* revoke_user(): DELETE FROM relay_tickets WHERE session_hash IN (SELECT ...)
RevokeTickets(c) ==
  /\ c.step = "tickets"
  /\ tickets' = {k \in tickets :
                   \A s \in sessions : s.name = c.name => s.token # k.session}
  /\ admins' = (admins \ {c}) \cup {[c EXCEPT !.step = "sessions"]}
  /\ UNCHANGED <<now, accounts, sessions, logins, issues, history>>

\* revoke_user(): DELETE FROM account_sessions WHERE name=?, the last
\* statement of passwd and disable.
RevokeSessions(c) ==
  /\ c.step = "sessions"
  /\ sessions' = {s \in sessions : s.name # c.name}
  /\ admins' = (admins \ {c}) \cup
       (IF c.op = "delete" THEN {[c EXCEPT !.step = "jobs"]} ELSE {})
  /\ aborted' = aborted \ {c.name}
  /\ UNCHANGED <<now, accounts, tickets, logins, issues, minted, issued, redeemed>>

\* DELETE FROM wol_jobs WHERE owner=?, then DELETE FROM wol_devices WHERE
\* owner=?: module Wol has the two tables.
DeleteJobs(c) ==
  /\ c.step = "jobs"
  /\ admins' = (admins \ {c}) \cup {[c EXCEPT !.step = "devices"]}
  /\ UNCHANGED <<now, store, logins, issues, history>>

DeleteDevices(c) ==
  /\ c.step = "devices"
  /\ admins' = (admins \ {c}) \cup {[c EXCEPT !.step = "account"]}
  /\ UNCHANGED <<now, store, logins, issues, history>>

\* DELETE FROM accounts WHERE name=?, whether or not the row exists.
DeleteAccount(c) ==
  /\ c.step = "account"
  /\ accounts' = {row \in accounts : row.name # c.name}
  /\ admins' = admins \ {c}
  /\ UNCHANGED <<now, sessions, tickets, logins, issues, history>>

\* A statement fails (database locked for 5 s) or the process is killed: the
\* rest of the command does not run.
AdminFails(c) ==
  /\ admins' = admins \ {c}
  /\ aborted' = IF c.op = "delete" THEN aborted ELSE aborted \cup {c.name}
  /\ UNCHANGED <<now, store, logins, issues, minted, issued, redeemed>>

Tick ==
  /\ now < MaxTime
  /\ now' = now + 1
  /\ UNCHANGED <<store, requests, history>>

LoginNext ==
  \/ \E l \in Login, n \in Name, p \in Password : LoginVerify(l, n, p)
  \/ \E q \in logins : LoginPurge(q)
  \/ \E q \in logins, t \in Token : LoginInsert(q, t)
  \/ \E t \in Token : Logout(t)

TicketNext ==
  \/ \E i \in Issuer, t \in Token, r \in RelayId : TicketCheck(i, t, r)
  \/ \E q \in issues : TicketPurge(q)
  \/ \E q \in issues, k \in Ticket : TicketInsert(q, k)
  \/ \E k \in Ticket, r \in RelayId : Redeem(k, r)

CommandNext ==
  \/ \E n \in Name, p \in Password : CreateUser(n, p)
  \/ \E a \in Admin, n \in Name, p \in Password : SetPassword(a, n, p)
  \/ \E a \in Admin, n \in Name : Disable(a, n) \/ DeleteUser(a, n)
  \/ \E n \in Name : Enable(n)
  \/ \E c \in admins : \/ RevokeTickets(c)
                       \/ RevokeSessions(c)
                       \/ DeleteAccount(c)
                       \/ AdminFails(c)

AdminNext ==
  \/ CommandNext
  \/ \E c \in admins : DeleteJobs(c) \/ DeleteDevices(c)

Next == LoginNext \/ TicketNext \/ AdminNext \/ DropRequest \/ Tick

Spec == Init /\ [][Next]_vars
-----------------------------------------------------------------------------
(* Properties *)

Authentic(s) ==
  [name |-> s.name, password |-> s.password, enabled |-> TRUE] \in accounts

\* A passwd or disable command on n has not reached its last statement.
Revoking(n) == \E c \in admins : c.name = n /\ c.op # "delete"

\* passwd, disable and delete take away every session that was authenticated
\* against what the account row said before: the only sessions that outlive
\* them are those of a login that was between its statements meanwhile, or of
\* a name whose command failed halfway and was not run again (store.rs:81-132,
\* 147-157, 165-205).
OnlyRacesOutliveRevocation ==
  \A s \in sessions :
    Authentic(s) \/ s.raced \/ Revoking(s.name) \/ s.name \in aborted

\* The tickets that can still be redeemed once their account is enabled.
LiveTickets ==
  {k.ticket : k \in {row \in tickets :
                       /\ row.expires > now
                       /\ \E s \in sessions : s.token = row.session /\ s.expires > now}}

RT == INSTANCE RelayTickets WITH live <- LiveTickets, admitted <- redeemed

\* Whatever the interleaving of requests, commands and the clock, the store is
\* a RelayTickets: a ticket admits at most one stream, only for the relay id
\* it was issued for, and a ticket that lapsed (expiry, logout, revocation,
\* even while it was being issued) never comes back to life (store.rs:206-258).
ImplementsRelayTickets == RT!Spec

\* operations.md:114 says of passwd that it revokes the account's sessions
\* immediately: with no command pending or failed on a name, every session of
\* that name was opened with the password the account has now.
PasswdRevokesSessions ==
  \A s \in sessions, a \in accounts :
    (a.name = s.name /\ s.name \notin aborted /\ ~\E c \in admins : c.name = s.name)
      => a.password = s.password
=============================================================================
