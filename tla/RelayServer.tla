---------------------------- MODULE RelayServer -----------------------------
(***************************************************************************)
(* hbbr: one task per connection presents the ticket of its RequestRelay   *)
(* to the account store (src/src/relay_server/ticket.rs), then looks for   *)
(* the other end in PEERS or waits there itself for 30 s, and relays       *)
(* (src/src/relay_server/connection.rs). The account store is the abstract *)
(* one of RelayTickets, composed with this component on the redemption;    *)
(* AccountStore implements it.                                             *)
(*                                                                         *)
(* The ticket travels to the store over HTTP: the request or the answer    *)
(* may be late or lost. The in-process redemption is the special case in   *)
(* which neither is. Time is abstracted: a timer may fire at any moment.   *)
(***************************************************************************)
EXTENDS Naturals, FiniteSets

CONSTANTS Ticket, RelayId,
          Conn,   \* connections accepted by the relay, over its whole life
          NoConn

ASSUME NoConnAssumption == NoConn \notin Conn

VARIABLES
  issued, live, admitted, \* the account store (RelayTickets)
  pc,       \* where the task of each connection is
  req,      \* the RequestRelay it received
  net,      \* its redemption on the wire
  asked,    \* history: how many redemption requests were sent for it
  passed,   \* history: connections whose ticket was accepted
  waiting,  \* PEERS: the end waiting for each uuid
  relays,   \* pairs of streams being relayed
  raced     \* history: uuids two ends of which found PEERS empty together

ticketVars == <<issued, live, admitted>>
redeemVars == <<net, asked, passed>>
pairVars == <<waiting, relays, raced>>
vars == <<ticketVars, pc, req, redeemVars, pairVars>>

RT == INSTANCE RelayTickets

\* Where a task is: waiting for RequestRelay, at the first or the second
\* attempt to reach the store, waiting for its answer, holding a redeemed
\* ticket, having found nobody in PEERS, asleep for 30 s, relaying, over.
Place == {"new", "attempt1", "attempt2", "asked", "granted", "park", "sleep", "relay", "over"}

\* key: the licence key matches the relay's, or the relay has none.
Request == [ticket : Ticket, uuid : RelayId, key : BOOLEAN]

NoRequest == [ticket |-> NoConn, uuid |-> NoConn, key |-> FALSE]

TypeOK ==
  /\ RT!TypeOK
  /\ pc \in [Conn -> Place]
  /\ req \in [Conn -> Request \cup {NoRequest}]
  /\ \A c \in Conn : pc[c] # "new" => req[c] \in Request
  /\ net \in [Conn -> {"none", "request", "ok", "no"}]
  /\ asked \in [Conn -> Nat]
  /\ passed \subseteq Conn
  /\ waiting \in [RelayId -> Conn \cup {NoConn}]
  /\ relays \subseteq [waiter : Conn, comer : Conn]
  /\ \A r \in relays : req[r.comer] \in Request
  /\ raced \subseteq RelayId

Init ==
  /\ RT!Init
  /\ pc = [c \in Conn |-> "new"]
  /\ req = [c \in Conn |-> NoRequest]
  /\ net = [c \in Conn |-> "none"]
  /\ asked = [c \in Conn |-> 0]
  /\ passed = {}
  /\ waiting = [u \in RelayId |-> NoConn]
  /\ relays = {} /\ raced = {}

Goto(c, place) == pc' = [pc EXCEPT ![c] = place]

\* The account store, and the clients it hands tickets to.
StoreMoves ==
  /\ \/ \E k \in Ticket, r \in RelayId : RT!Issue(k, r)
     \/ RT!Lapse
  /\ UNCHANGED <<pc, req, redeemVars, pairVars>>

-----------------------------------------------------------------------------
(* ticket.rs *)

\* A RequestRelay within 30 s of the connection (make_pair_). A connection that
\* sends anything else, or nothing, is closed: it stays "new" here.
ReceiveRequest(c, q) ==
  /\ pc[c] = "new"
  /\ req' = [req EXCEPT ![c] = q]
  /\ Goto(c, "attempt1")
  /\ UNCHANGED <<ticketVars, redeemVars, pairVars>>

\* The connection to the account service fails: one retry, then deny.
ConnectFails(c) ==
  /\ pc[c] \in {"attempt1", "attempt2"}
  /\ Goto(c, IF pc[c] = "attempt1" THEN "attempt2" ELSE "over")
  /\ UNCHANGED <<ticketVars, req, redeemVars, pairVars>>

SendRedeem(c) ==
  /\ pc[c] \in {"attempt1", "attempt2"}
  /\ net' = [net EXCEPT ![c] = "request"]
  /\ asked' = [asked EXCEPT ![c] = @ + 1]
  /\ Goto(c, "asked")
  /\ UNCHANGED <<ticketVars, req, passed, pairVars>>

\* Mutant: the service tests the ticket and leaves it usable.
StoreRedeemsTwice(c) ==
  /\ net[c] = "request"
  /\ req[c].ticket \in live /\ [ticket |-> req[c].ticket, relay |-> req[c].uuid] \in issued
  /\ admitted' = admitted \cup {[ticket |-> req[c].ticket, relay |-> req[c].uuid]}
  /\ net' = [net EXCEPT ![c] = "ok"]
  /\ UNCHANGED <<issued, live, pc, req, asked, passed, pairVars>>

\* The request reaches the store, whether or not the relay still waits.
StoreRedeems(c) ==
  /\ net[c] = "request"
  /\ RT!Admit(req[c].ticket, req[c].uuid)
  /\ net' = [net EXCEPT ![c] = "ok"]
  /\ UNCHANGED <<pc, req, asked, passed, pairVars>>

\* ok:false, 401, 5xx or a malformed body. A valid ticket is refused only by a
\* failing service.
StoreRefuses(c) ==
  /\ net[c] = "request"
  /\ net' = [net EXCEPT ![c] = "no"]
  /\ UNCHANGED <<ticketVars, pc, req, asked, passed, pairVars>>

\* Mutant: fail open.
AnswerAccepted(c) ==
  /\ pc[c] = "asked"
  /\ net[c] \in {"ok", "no"}
  /\ net' = [net EXCEPT ![c] = "none"]
  /\ passed' = passed \cup {c}
  /\ Goto(c, "granted")
  /\ UNCHANGED <<ticketVars, req, asked, pairVars>>

AnswerArrives(c) ==
  /\ pc[c] = "asked"
  /\ net[c] \in {"ok", "no"}
  /\ net' = [net EXCEPT ![c] = "none"]
  /\ passed' = IF net[c] = "ok" THEN passed \cup {c} ELSE passed
  /\ Goto(c, IF net[c] = "ok" THEN "granted" ELSE "over")
  /\ UNCHANGED <<ticketVars, req, asked, pairVars>>

\* Mutant: the timeout is retried like a refused connection.
TimesOutRetrying(c) ==
  /\ pc[c] = "asked"
  /\ Goto(c, "attempt2")
  /\ UNCHANGED <<ticketVars, req, redeemVars, pairVars>>

\* 3 s without an answer, or the connection breaks after the request was sent:
\* denied, no retry. The request may still reach the store.
TimesOut(c) ==
  /\ pc[c] = "asked"
  /\ Goto(c, "over")
  /\ UNCHANGED <<ticketVars, req, redeemVars, pairVars>>

-----------------------------------------------------------------------------
(* connection.rs: make_pair_ *)

\* The licence key is looked at after the ticket was consumed.
KeyMismatch(c) ==
  /\ pc[c] = "granted" /\ ~req[c].key
  /\ Goto(c, "over")
  /\ UNCHANGED <<ticketVars, req, redeemVars, pairVars>>

\* Mutant: the lookup uses a key no end is stored under.
LookupMisses(c) ==
  /\ pc[c] = "granted" /\ req[c].key
  /\ Goto(c, "park")
  /\ raced' = raced \cup {u \in {req[c].uuid} : \E d \in Conn : req[d].uuid = u /\ pc[d] = "park"}
  /\ UNCHANGED <<ticketVars, req, redeemVars, waiting, relays>>

\* PEERS.lock().await.remove(&rf.uuid): the lock is dropped with the statement.
Lookup(c) ==
  LET u == req[c].uuid
      w == waiting[u]
  IN
  /\ pc[c] = "granted" /\ req[c].key
  /\ \/ /\ w # NoConn
        /\ waiting' = [waiting EXCEPT ![u] = NoConn]
        /\ relays' = relays \cup {[waiter |-> w, comer |-> c]}
        /\ Goto(c, "relay")
        /\ UNCHANGED raced
     \/ /\ w = NoConn
        /\ Goto(c, "park")
        /\ raced' = IF \E d \in Conn : pc[d] = "park" /\ req[d].uuid = u
                      THEN raced \cup {u} ELSE raced
        /\ UNCHANGED <<waiting, relays>>
  /\ UNCHANGED <<ticketVars, req, redeemVars>>

\* Mutant: the task does not come back to its entry after the sleep.
ParkForever(c) ==
  /\ pc[c] = "park"
  /\ waiting' = [waiting EXCEPT ![req[c].uuid] = c]
  /\ Goto(c, "over")
  /\ UNCHANGED <<ticketVars, req, redeemVars, relays, raced>>

\* PEERS.lock().await.insert(...): an end already there is dropped.
Park(c) ==
  /\ pc[c] = "park"
  /\ waiting' = [waiting EXCEPT ![req[c].uuid] = c]
  /\ Goto(c, "sleep")
  /\ UNCHANGED <<ticketVars, req, redeemVars, relays, raced>>

\* sleep(30.) is over: whatever waits under the uuid by then is dropped.
WakeUp(c) ==
  /\ pc[c] = "sleep"
  /\ waiting' = [waiting EXCEPT ![req[c].uuid] = NoConn]
  /\ Goto(c, "over")
  /\ UNCHANGED <<ticketVars, req, redeemVars, relays, raced>>

\* relay() returns: end of stream, idle timeout, blocklist or send error.
RelayEnds(r) ==
  /\ relays' = relays \ {r}
  /\ Goto(r.comer, "over")
  /\ UNCHANGED <<ticketVars, req, redeemVars, waiting, raced>>

\* The relay process is killed and started again: its tasks and PEERS are
\* gone, redemptions on the wire and the account store are not.
Restart ==
  /\ \E c \in Conn : pc[c] \notin {"new", "over"}
  /\ pc' = [c \in Conn |-> IF pc[c] = "new" THEN "new" ELSE "over"]
  /\ waiting' = [u \in RelayId |-> NoConn]
  /\ relays' = {}
  /\ UNCHANGED <<ticketVars, req, redeemVars, raced>>

Redemption(c) ==
  \/ ConnectFails(c) \/ SendRedeem(c) \/ StoreRedeems(c) \/ StoreRefuses(c)
  \/ AnswerArrives(c) \/ TimesOut(c)

Pairing(c) == KeyMismatch(c) \/ Lookup(c) \/ Park(c) \/ WakeUp(c)

Next ==
  \/ StoreMoves
  \/ \E c \in Conn : \/ \E q \in Request : ReceiveRequest(c, q)
                     \/ Redemption(c) \/ Pairing(c)
  \/ \E r \in relays : RelayEnds(r)
  \/ Restart

\* tokio runs every task that can move; a sleep ends.
Fairness == \A c \in Conn : WF_vars(Pairing(c))

Spec == Init /\ [][Next]_vars
FairSpec == Spec /\ Fairness

-----------------------------------------------------------------------------
(* Properties *)

\* A ticket admits one stream to the relay, however redemptions are retried,
\* answered late or lost, and across restarts of the relay
\* (relay-ticket-peer.md:47-50; ticket.rs:73-101).
OneStreamPerTicket ==
  \A c, d \in passed : req[c].ticket = req[d].ticket => c = d

\* A redemption is sent to the store at most once: only a connection that was
\* never made is retried, so a valid ticket is not refused because an earlier
\* attempt of the same connection consumed it (ticket.rs:78-98).
AskedAtMostOnce == \A c \in Conn : asked[c] <= 1

Ends(r) == {r.waiter, r.comer}

\* Two streams are joined only if each passed on a ticket of its own for the
\* uuid both asked for and then named the licence key, and no stream is joined
\* to two others (connection.rs:132-161).
PairedOnBothTickets ==
  /\ \A r \in relays :
       /\ r.waiter # r.comer
       /\ Ends(r) \subseteq passed
       /\ req[r.waiter].uuid = req[r.comer].uuid
       /\ req[r.waiter].ticket # req[r.comer].ticket
       /\ \A c \in Ends(r) :
            /\ [ticket |-> req[c].ticket, relay |-> req[c].uuid] \in admitted
            /\ req[c].key
  /\ \A r1, r2 \in relays : r1 # r2 => Ends(r1) \cap Ends(r2) = {}

ThreeCame(u) ==
  \E c, d, e \in passed :
    /\ c # d /\ c # e /\ d # e
    /\ req[c].uuid = u /\ req[d].uuid = u /\ req[e].uuid = u

Lost(c, u) ==
  /\ waiting[u] = c /\ waiting'[u] # c
  /\ pc'[c] = "sleep"
  /\ \A r \in relays' : r.waiter # c

\* An end that waits keeps its place until it is paired or its own 30 s are
\* over, unless the two ends looked each other up before either had parked, or
\* the uuid was used by a third connection (connection.rs:141-164).
PlaceLostOnlyByRaceOrReuse ==
  [][\A c \in Conn, u \in RelayId : Lost(c, u) => u \in raced \/ ThreeCame(u)]_vars

\* PEERS does not leak: an entry goes when its end is paired or its task wakes
\* up, and every entry has such a task (connection.rs:161-163).
WaitingEnds ==
  \A u \in RelayId, c \in Conn : waiting[u] = c ~> waiting[u] # c
=============================================================================
