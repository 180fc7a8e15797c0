----------------------------- MODULE Rendezvous ------------------------------
(***************************************************************************)
(* hbbs: how a controller is introduced to a peer. A controller asks on a  *)
(* TCP or WebSocket connection (PunchHoleRequest, RequestRelay); hbbs      *)
(* pushes the request to the address the peer registered from; the peer    *)
(* answers on a connection of its own, naming the address of the           *)
(* controller; hbbs finds the controller's sink by that address and passes *)
(* the answer on. A peer that relays on its own (RelayResponse with a      *)
(* uuid) is given a ticket minted from the session of the controller's     *)
(* request, which hbbs remembers for a while                               *)
(* (src/src/rendezvous_server/punch.rs, tcp.rs, sessions.rs).              *)
(*                                                                         *)
(* What the sinks go through during a send is TcpPeers, what a             *)
(* registration does PeerRegistry, which relays are in the list            *)
(* RelayServers; here a send is one step, a registered peer has a time and *)
(* the list is fixed. Controllers do not register on the connection they   *)
(* ask on. Time is counted in ticks.                                       *)
(***************************************************************************)
EXTENDS Naturals, Sequences

CONSTANTS
  Conn,         \* connections of controllers
  None,         \* no connection, entry, push or answer
  Addr,         \* addresses of controllers and peers
  AddrOf,       \* the address of each connection
  IpOf,         \* the IP of each address
  TokenOf,      \* the session each connection presents
  Peer,         \* ids
  PeerAddr,     \* where each peer registers from
  Masks,        \* sets of addresses a mask may hold; {} for none
  Relay,        \* the relay list
  OnHost,       \* those of it on the host of hbbs itself
  LocalIp,      \* the address of that host inside the mask
  Default,      \* no relay named: both ends derive hbbs's own host
  Ttl,          \* 60 s (sessions.rs:12)
  MaxTime,      \* bounds of the model
  MaxAsks

VARIABLES
  lan,        \* the addresses inside the mask hbbs was started with
  ws,         \* controllers use WebSocket, so that those of an IP share ip:0
  now,
  st,         \* each connection: new, open, routing (in the handler), closed
  tcp_punch,  \* the connection whose sink waits under an address
  sessions,   \* punch_sessions: the last request of an address for an id
  asks,       \* history: every authorized request, in order
  push,       \* what became of the request pushed for each ask
  job,        \* the RelayResponse with a uuid each push was answered by
  told,       \* history: the answer written to each connection
  minted      \* history: the tickets given to peers that relay on their own

setup == <<lan, ws>>
conns == <<st, tcp_punch, told>>
asked == <<asks, sessions>>
vars == <<setup, now, conns, asked, push, job, minted>>

\* A mask is tested on the IP of an address (punch.rs:130, tcp.rs:76); the list is
\* one of names clients outside can use, so the address inside the mask is not in it.
ASSUME BoundAssumption == MaxTime \in Nat /\ MaxAsks \in Nat /\ Ttl \in Nat
ASSUME AddrAssumption == AddrOf \in [Conn -> Addr] /\ PeerAddr \in [Peer -> Addr]
ASSUME MaskAssumption ==
  \A m \in Masks : \A a, b \in Addr : IpOf[a] = IpOf[b] => (a \in m <=> b \in m)
ASSUME RelayAssumption == LocalIp \notin Relay /\ Default \notin Relay \cup {LocalIp}

Time == 0..MaxTime
Token == {TokenOf[c] : c \in Conn}
Named == Relay \cup {LocalIp, Default}

Ask == [conn : Conn, peer : Peer, kind : {"punch", "relay"}, at : Time]
Push == [relay : Named, forced : BOOLEAN]
Lost == [relay |-> None, forced |-> FALSE]

\* used: the relay the peer goes to.
Answer == [relay : Named, used : Named]
Failure == [relay |-> None, used |-> None]

\* A session found for a peer, with the moment: the time and the requests so far.
Session == [token : Token, at : Time, upto : 1..MaxAsks]
Entry == [token : Token, at : Time]

ASSUME NoneAssumption ==
  None \notin Conn \cup Named \cup Push \cup Answer \cup Session \cup Entry \cup {Lost, Failure}

TypeOK ==
  /\ lan \in Masks /\ ws \in BOOLEAN
  /\ now \in Time
  /\ st \in [Conn -> {"new", "open", "routing", "closed"}]
  /\ tcp_punch \in [Addr -> Conn \cup {None}]
  /\ sessions \in [Addr \X Peer -> Entry \cup {None}]
  /\ asks \in Seq(Ask) /\ Len(asks) <= MaxAsks
  /\ push \in [1..MaxAsks -> Push \cup {None, Lost}]
  /\ job \in [1..MaxAsks -> [step : {"none", "mint", "forward", "over"}, by : Session \cup {None}]]
  /\ told \in [Conn -> Answer \cup {None, Failure}]
  /\ minted \subseteq [ask : 1..MaxAsks, of : Session]

NoJob == [step |-> "none", by |-> None]
Step(n, step, by) == job' = [job EXCEPT ![n] = [step |-> step, by |-> by]]

Init ==
  /\ lan \in Masks /\ ws \in BOOLEAN
  /\ now = 0
  /\ st = [c \in Conn |-> "new"]
  /\ tcp_punch = [a \in Addr |-> None]
  /\ sessions = [k \in Addr \X Peer |-> None]
  /\ asks = <<>>
  /\ push = [n \in 1..MaxAsks |-> None]
  /\ job = [n \in 1..MaxAsks |-> NoJob]
  /\ told = [c \in Conn |-> None]
  /\ minted = {}

Tick ==
  /\ now < MaxTime
  /\ now' = now + 1
  /\ UNCHANGED <<setup, conns, asked, push, job, minted>>

\* An address of TCP serves one connection at a time.
Open(c) ==
  /\ st[c] = "new"
  /\ ~ws => \A d \in Conn \ {c} : AddrOf[d] = AddrOf[c] => st[d] \in {"new", "closed"}
  /\ st' = [st EXCEPT ![c] = "open"]
  /\ UNCHANGED <<setup, now, tcp_punch, told, asked, push, job, minted>>

HasAsked(c) == \E n \in DOMAIN asks : asks[n].conn = c

\* The end of the stream, 30 s of silence, or a request whose token is not
\* authorized. The entry of the address goes if the sink was handed over.
Close(c) ==
  /\ st[c] = "open"
  /\ st' = [st EXCEPT ![c] = "closed"]
  /\ tcp_punch' = IF HasAsked(c) THEN [tcp_punch EXCEPT ![AddrOf[c]] = None] ELSE tcp_punch
  /\ UNCHANGED <<setup, now, told, asked, push, job, minted>>

-----------------------------------------------------------------------------
(* Requests of controllers *)

\* An authorized request: the first one of a connection hands its sink over.
TakeIn(c, p, kind) ==
  /\ st[c] = "open"
  /\ Len(asks) < MaxAsks
  /\ asks' = Append(asks, [conn |-> c, peer |-> p, kind |-> kind, at |-> now])
  /\ tcp_punch' = IF HasAsked(c) THEN tcp_punch ELSE [tcp_punch EXCEPT ![AddrOf[c]] = c]

Fresh(e) == e # None /\ now - e.at < Ttl

\* Mutant: the time the session ends is kept for the time it began.
RememberDeadline(a, p, t) ==
  sessions' = [k \in Addr \X Peer |->
                 IF k = <<a, p>> THEN [token |-> t, at |-> now + Ttl]
                 ELSE IF Fresh(sessions[k]) THEN sessions[k] ELSE None]

\* sessions.rs remember: purge, then overwrite.
Remember(a, p, t) ==
  sessions' = [k \in Addr \X Peer |->
                 IF k = <<a, p>> THEN [token |-> t, at |-> now]
                 ELSE IF Fresh(sessions[k]) THEN sessions[k] ELSE None]

PunchHoleRequest(c, p) ==
  /\ TakeIn(c, p, "punch")
  /\ Remember(AddrOf[c], p, TokenOf[c])
  /\ st' = [st EXCEPT ![c] = "routing"]
  /\ UNCHANGED <<setup, now, told, push, job, minted>>

\* send_to_tcp(_sync): the sink that waits under the address serves one answer.
Tell(a, answer) ==
  LET c == tcp_punch[a] IN
  /\ tcp_punch' = [tcp_punch EXCEPT ![a] = None]
  /\ told' = IF c = None THEN told ELSE [told EXCEPT ![c] = answer]

LastAsk(c) == CHOOSE n \in DOMAIN asks : asks[n].conn = c /\ \A k \in n + 1 .. Len(asks) : asks[k].conn # c

\* get_relay_server: any of the list, in rotation.
Pick == IF Relay = {} THEN {Default} ELSE Relay

\* Mutant: the request is passed on as it came.
ForcedNever(a, b, always) == FALSE

\* The peer is told the controller's NAT is symmetric, so that it relays.
Forced(a, b, always) == always \/ ((a \in lan) # (b \in lan))

SameIntranet(c, p) ==
  /\ ~ws
  /\ \/ AddrOf[c] \in lan /\ PeerAddr[p] \in lan
     \/ IpOf[AddrOf[c]] = IpOf[PeerAddr[p]]

\* punch.rs:130-183: PunchHole, or FetchLocalAddr, which carries no NAT type.
\* always: the console's ALWAYS_USE_RELAY at this moment.
PushRequest(c, n, always) ==
  LET p == asks[n].peer
      b == PeerAddr[p]
      local == b \in lan /\ (always \/ AddrOf[c] \notin lan)
  IN  \E r \in Pick :
        push' = [push EXCEPT ![n] =
                   [relay |-> IF local THEN LocalIp ELSE r,
                    forced |-> Forced(AddrOf[c], b, always) /\ ~SameIntranet(c, p)]]

\* Mutant: a request that is refused is left unanswered.
RouteSilently(c) ==
  LET n == LastAsk(c) IN
  /\ st[c] = "routing"
  /\ st' = [st EXCEPT ![c] = "open"]
  /\ PushRequest(c, n, FALSE) \/ UNCHANGED push
  /\ UNCHANGED <<setup, now, tcp_punch, told, asks, sessions, job, minted>>

\* handle_punch_hole_request and what the caller does with its result: with a
\* wrong key, or a peer that is unknown or was not heard for 30 s (what the
\* registry says of it is PeerRegistry), the controller is answered at once.
Route(c) ==
  LET n == LastAsk(c)
      p == asks[n].peer
  IN
  /\ st[c] = "routing"
  /\ st' = [st EXCEPT ![c] = "open"]
  /\ \/ /\ \E always \in BOOLEAN : PushRequest(c, n, always)
        /\ UNCHANGED <<tcp_punch, told>>
     \/ /\ Tell(AddrOf[c], Failure)
        /\ UNCHANGED push
  /\ UNCHANGED <<setup, now, asks, sessions, job, minted>>

\* The controller relays from the start, with a relay of its choice and a ticket
\* of its own session for the peer. The peer is pushed the request if it is in
\* memory, silent or not; if it is not, nobody is told.
RequestRelay(c, p) ==
  /\ TakeIn(c, p, "relay")
  /\ push' \in {push, [push EXCEPT ![Len(asks) + 1] = [relay |-> Default, forced |-> FALSE]]}
  /\ UNCHANGED <<setup, now, st, told, sessions, job, minted>>

-----------------------------------------------------------------------------
(* Pushes and what the peers answer *)

Arrived(n) == push[n] \notin {None, Lost}

\* Over UDP, or to a sink another send holds.
Lose(n) ==
  /\ Arrived(n) /\ job[n] = NoJob
  /\ push' = [push EXCEPT ![n] = Lost]
  /\ UNCHANGED <<setup, now, conns, asked, job, minted>>

Ctl(n) == AddrOf[asks[n].conn]

\* PunchHoleSent, LocalAddr, or the answer to a RequestRelay, a RelayResponse
\* with neither uuid nor relay server as clients send it: passed on as it is. One
\* that names a relay server would be rewritten as in Forward. A forced peer relays.
PeerAnswers(n) ==
  /\ Arrived(n) /\ ~push[n].forced
  /\ Tell(Ctl(n), [relay |-> push[n].relay, used |-> push[n].relay])
  /\ UNCHANGED <<setup, now, st, asked, push, job, minted>>

\* Mutant: an old session is as good as a new one.
TokenForAnyAge(a, p) == sessions[<<a, p>>] # None

\* sessions.rs token_for
TokenFor(a, p) == Fresh(sessions[<<a, p>>])

\* A RelayResponse with a uuid of the peer's own, up to the lookup in
\* answer_peer_initiated_relay.
PeerRelays(n) ==
  LET a == Ctl(n)
      p == asks[n].peer
  IN
  /\ Arrived(n) /\ asks[n].kind = "punch" /\ job[n] = NoJob
  /\ IF TokenFor(a, p)
       THEN Step(n, "mint", [token |-> sessions[<<a, p>>].token, at |-> now, upto |-> Len(asks)])
       ELSE Step(n, "forward", None)
  /\ UNCHANGED <<setup, now, conns, asked, push, minted>>

\* And from there: the account store mints a ticket if the session is alive
\* (AccountStore).
MintTicket(n) ==
  /\ job[n].step = "mint"
  /\ Step(n, "forward", None)
  /\ minted' \in {minted, minted \cup {[ask |-> n, of |-> job[n].by]}}
  /\ UNCHANGED <<setup, now, conns, asked, push>>

\* Mutant: the relay is picked again for every controller.
PassedOnRepicked(a, r) == IF a \in lan THEN {LocalIp} ELSE Pick

\* tcp.rs:76-83: the relay the controller is told for the one the peer uses.
PassedOn(a, r) ==
  IF r = Default THEN {Default} \cup (IF a \in lan THEN {LocalIp} ELSE {})
  ELSE IF a \in lan THEN {LocalIp}
  ELSE IF r = LocalIp THEN Pick ELSE {r}

Forward(n) ==
  /\ job[n].step = "forward"
  /\ Step(n, "over", None)
  /\ \E r \in PassedOn(Ctl(n), push[n].relay) :
       Tell(Ctl(n), [relay |-> r, used |-> push[n].relay])
  /\ UNCHANGED <<setup, now, st, asked, push, minted>>

\* hbbs is killed and started again: its maps and tasks are gone, the rows of the
\* peers and the pushes on their way are not.
Restart ==
  /\ st' = [c \in Conn |-> IF st[c] = "new" THEN "new" ELSE "closed"]
  /\ tcp_punch' = [a \in Addr |-> None]
  /\ sessions' = [k \in Addr \X Peer |-> None]
  /\ job' = [n \in 1..MaxAsks |-> IF job[n] = NoJob THEN NoJob ELSE [step |-> "over", by |-> None]]
  /\ UNCHANGED <<setup, now, told, asks, push, minted>>

-----------------------------------------------------------------------------
PeerStep(n) == PeerAnswers(n) \/ PeerRelays(n)
JobStep(n) == MintTicket(n) \/ Forward(n)

Next ==
  \/ Tick \/ Restart
  \/ \E c \in Conn : \/ Open(c) \/ Close(c) \/ Route(c)
                     \/ \E p \in Peer : PunchHoleRequest(c, p) \/ RequestRelay(c, p)
  \/ \E n \in 1..MaxAsks : Lose(n) \/ PeerStep(n) \/ JobStep(n)

Spec == Init /\ [][Next]_vars

-----------------------------------------------------------------------------
(* Properties *)

\* A ticket for a relay the peer started is charged to the session of the
\* request the peer answers, or of a later request for the same peer from the
\* same address, made within the last 60 s: a miss rather than a session of
\* before, of another address or of another peer, whatever connections share the
\* address, close, log out or use it again (sessions.rs, tcp.rs:257-281).
TicketOfAsker ==
  \A m \in minted : \E k \in m.ask .. m.of.upto :
    /\ Ctl(k) = Ctl(m.ask) /\ asks[k].peer = asks[m.ask].peer
    /\ TokenOf[asks[k].conn] = m.of.token
    /\ m.of.at - asks[k].at < Ttl

Host(r) == IF r \in Relay \ OnHost THEN r ELSE LocalIp

\* The two ends of a relay are told names of one host, unless an end inside the
\* mask is sent to hbbs's own host while the list names another (punch.rs:130-140,
\* tcp.rs:76-83).
SameRelay ==
  \A c \in Conn : told[c] \notin {None, Failure} =>
    \/ Host(told[c].relay) = Host(told[c].used)
    \/ AddrOf[c] \in lan /\ told[c].relay = LocalIp
    \/ AddrOf[c] \notin lan /\ told[c].used = LocalIp

\* A controller outside the mask is never told the address inside it: a peer that
\* was is made to relay, and its answer rewritten (punch.rs:134-140, tcp.rs:80).
RelayReachable ==
  \A c \in Conn : told[c] # None /\ told[c].relay = LocalIp => AddrOf[c] \in lan

Shares(c) == ws /\ \E d \in Conn \ {c} : AddrOf[d] = AddrOf[c] /\ HasAsked(d)
Asking(c) == \E n \in DOMAIN asks : asks[n].conn = c /\ asks[n].kind = "punch"

\* Whoever asked for a punch hole and has no answer yet can still be answered, and
\* will be, unless the push was lost: its sink waits under its address, and hbbs,
\* the peer or the task of the peer's answer has the request - however requests,
\* refusals, duplicate answers and earlier connections of the address interleave
\* (tcp.rs:15-27, 132-142, punch.rs:224-238). WebSocket clients of one IP take
\* each other's place (io.rs:181).
AnswerIsUnderWay ==
  \A c \in Conn :
    st[c] \in {"open", "routing"} /\ Asking(c) /\ told[c] = None /\ ~Shares(c) =>
      /\ tcp_punch[AddrOf[c]] = c
      /\ \/ st[c] = "routing"
         \/ \E n \in DOMAIN asks :
              asks[n].conn = c /\ push[n] # None /\ job[n].step # "over"
=============================================================================
