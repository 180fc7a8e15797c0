------------------------------ MODULE TcpPeers -------------------------------
(***************************************************************************)
(* hbbs: who holds the writing half (Sink) of each TCP or WebSocket        *)
(* connection. A connection's task owns its sink until a request moves it  *)
(* to tcp_punch, where the other peer's answer will find it, or to         *)
(* tcp_peers, where everything hbbs pushes to a registered peer finds it   *)
(* (src/src/rendezvous_server/tcp.rs, tcp_register.rs, io.rs). Both maps   *)
(* are keyed by address; the WebSocket clients of one IP share a key,      *)
(* ip:0 (io.rs:181-185).                                                   *)
(*                                                                         *)
(* Each lock of a map is one action; everything between two locks may      *)
(* interleave with the other tasks. Messages are abstracted to the         *)
(* addresses they are sent to.                                             *)
(***************************************************************************)
EXTENDS Naturals, Sequences

CONSTANTS
  Conn,    \* connections accepted over the life of the server
  NoConn,
  Addr,
  AddrOf,  \* the key of each connection
  Loop     \* the task of io_loop, which pushes to peers

ASSUME NoConnAssumption == NoConn \notin Conn
ASSUME LoopAssumption == Loop \notin Conn
ASSUME AddrOfAssumption == AddrOf \in [Conn -> Addr]
ASSUME EntryAssumption == "absent" \notin Conn /\ "closed" \notin Conn

VARIABLES
  st,        \* where the task of each connection is
  own,       \* connections whose task still owns the sink
  tcp_punch, \* sinks waiting for one answer
  tcp_peers, \* sinks of registered peers
  todo,      \* sends each task still has to do in the message it handles
  held,      \* the sink each task took out of tcp_peers for the send at hand
  answered,  \* history: connections whose waiting sink was used up by an answer
  registered \* history: connections that moved their sink to tcp_peers

maps == <<tcp_punch, tcp_peers>>
sends == <<todo, held>>
history == <<answered, registered>>
vars == <<st, own, maps, sends, history>>

Task == Conn \cup {Loop}

\* What tcp_peers may hold besides a sink: no entry, or the placeholder of a
\* sink a send has taken out.
Absent == "absent"
Closed == "closed"

\* reading: waits for a message; handling: in a message after which it keeps
\* reading; oneshot: in one after which it asks is_tcp_peer; leaving and
\* forgetting: the two steps of the clean-up.
Place == {"new", "reading", "handling", "oneshot", "leaving", "forgetting", "closed"}

\* answer: send_to_tcp and send_to_tcp_sync; peer: send_to_tcp_peer.
Send == [op : {"answer", "peer"}, to : Addr]

TypeOK ==
  /\ st \in [Conn -> Place]
  /\ own \subseteq Conn
  /\ tcp_punch \in [Addr -> Conn \cup {NoConn}]
  /\ tcp_peers \in [Addr -> Conn \cup {Absent, Closed}]
  /\ todo \in [Task -> Seq(Send)]
  /\ held \in [Task -> Conn \cup {NoConn}]
  /\ \A t \in Task : held[t] # NoConn => todo[t] # <<>> /\ Head(todo[t]).op = "peer"
  /\ \A c \in Conn : st[c] \notin {"handling", "oneshot"} => todo[c] = <<>>
  /\ answered \subseteq Conn /\ registered \subseteq Conn

Init ==
  /\ st = [c \in Conn |-> "new"]
  /\ own = {}
  /\ tcp_punch = [a \in Addr |-> NoConn]
  /\ tcp_peers = [a \in Addr |-> Absent]
  /\ todo = [t \in Task |-> <<>>]
  /\ held = [t \in Task |-> NoConn]
  /\ answered = {} /\ registered = {}

Answer(a) == [op |-> "answer", to |-> a]
Push(a) == [op |-> "peer", to |-> a]

Goto(c, place) == st' = [st EXCEPT ![c] = place]
Do(t, steps) == todo' = [todo EXCEPT ![t] = steps]
Done(t) == Do(t, Tail(todo[t]))

-----------------------------------------------------------------------------
(* Sends: each lock of tcp_punch or tcp_peers is a step. *)

\* send_to_tcp(_sync): the sink in tcp_punch serves one message and is dropped.
FindAnswerSink(t) ==
  LET a == Head(todo[t]).to IN
  /\ todo[t] # <<>> /\ Head(todo[t]).op = "answer"
  /\ \/ /\ tcp_punch[a] # NoConn
        /\ tcp_punch' = [tcp_punch EXCEPT ![a] = NoConn]
        /\ answered' = answered \cup {tcp_punch[a]}
        /\ Done(t)
     \/ /\ tcp_punch[a] = NoConn
        /\ Do(t, <<Push(a)>> \o Tail(todo[t]))
        /\ UNCHANGED <<tcp_punch, answered>>
  /\ UNCHANGED <<st, own, tcp_peers, held, registered>>

\* Mutant: the sink is moved out of the map, no placeholder stays.
TakePeerSinkOut(t) ==
  LET a == Head(todo[t]).to IN
  /\ todo[t] # <<>> /\ Head(todo[t]).op = "peer" /\ held[t] = NoConn
  /\ IF tcp_peers[a] \in Conn
       THEN /\ tcp_peers' = [tcp_peers EXCEPT ![a] = Absent]
            /\ held' = [held EXCEPT ![t] = tcp_peers[a]]
            /\ UNCHANGED todo
       ELSE /\ Done(t)
            /\ UNCHANGED <<tcp_peers, held>>
  /\ UNCHANGED <<st, own, tcp_punch, history>>

\* send_to_tcp_peer, first lock. Without a sink the message is dropped, or goes
\* out over UDP when the entry is absent and the task is Loop (deliver).
TakePeerSink(t) ==
  LET a == Head(todo[t]).to IN
  /\ todo[t] # <<>> /\ Head(todo[t]).op = "peer" /\ held[t] = NoConn
  /\ IF tcp_peers[a] \in Conn
       THEN /\ tcp_peers' = [tcp_peers EXCEPT ![a] = Closed]
            /\ held' = [held EXCEPT ![t] = tcp_peers[a]]
            /\ UNCHANGED todo
       ELSE /\ Done(t)
            /\ UNCHANGED <<tcp_peers, held>>
  /\ UNCHANGED <<st, own, tcp_punch, history>>

\* Mutant: the sink is inserted again, whatever became of the entry.
PutBackAlways(t) ==
  LET a == Head(todo[t]).to IN
  /\ held[t] # NoConn
  /\ tcp_peers' = [tcp_peers EXCEPT ![a] = held[t]]
  /\ held' = [held EXCEPT ![t] = NoConn]
  /\ Done(t)
  /\ UNCHANGED <<st, own, tcp_punch, history>>

\* Mutant: a sink whose send is over is not put back.
PutBackNever(t) ==
  /\ held[t] # NoConn
  /\ held' = [held EXCEPT ![t] = NoConn]
  /\ Done(t)
  /\ UNCHANGED <<st, own, maps, history>>

\* send_to_tcp_peer, second lock: the send is over, well or not. The sink goes
\* back into the placeholder; without one it is dropped.
PutBack(t) ==
  LET a == Head(todo[t]).to IN
  /\ held[t] # NoConn
  /\ tcp_peers' = [tcp_peers EXCEPT ![a] = IF @ = Closed THEN held[t] ELSE @]
  /\ held' = [held EXCEPT ![t] = NoConn]
  /\ Done(t)
  /\ UNCHANGED <<st, own, tcp_punch, history>>

\* io_loop gets Data::Msg and delivers it to an address (deliver).
Deliver(a) ==
  /\ todo[Loop] = <<>>
  /\ Do(Loop, <<Push(a)>>)
  /\ UNCHANGED <<st, own, maps, held, history>>

-----------------------------------------------------------------------------
(* The task of a connection: handle_listener_inner and handle_tcp. *)

Accept(c) ==
  /\ st[c] = "new"
  /\ Goto(c, "reading")
  /\ own' = own \cup {c}
  /\ UNCHANGED <<maps, sends, history>>

\* sink.take() into tcp_punch; an entry of the same key is dropped.
KeepForAnswer(c) ==
  /\ own' = own \ {c}
  /\ tcp_punch' = IF c \in own THEN [tcp_punch EXCEPT ![AddrOf[c]] = c] ELSE tcp_punch
  /\ UNCHANGED <<tcp_peers, held, history>>

\* PunchHoleRequest: passed on to the peer through Loop, or refused on the
\* connection's own address (offline, unknown id, wrong key).
PunchHoleRequest(c) ==
  /\ st[c] = "reading"
  /\ KeepForAnswer(c)
  /\ \/ UNCHANGED <<st, todo>>
     \/ Goto(c, "handling") /\ Do(c, <<Answer(AddrOf[c])>>)

\* RequestRelay: passed on through Loop, or nothing.
RequestRelay(c) ==
  /\ st[c] = "reading"
  /\ KeepForAnswer(c)
  /\ UNCHANGED <<st, todo>>

\* Either request with a token that is not authorized, or the end of the
\* stream: EOF, error, 30 s of silence, a message that cannot be decrypted.
StopReading(c) ==
  /\ st[c] = "reading"
  /\ Goto(c, "leaving")
  /\ UNCHANGED <<own, maps, sends, history>>

\* The sends a handler makes to its own connection; those through a sink it
\* still owns touch nothing shared (reply_on_connection).
Reply(c) == IF c \in own THEN <<>> ELSE <<Push(AddrOf[c])>>

\* RelayResponse to the address a of a controller, after a peer ticket sent
\* back on this connection or not.
RelayResponse(c, a) ==
  /\ st[c] = "reading"
  /\ Goto(c, "oneshot")
  /\ \E ticket \in {<<>>, Reply(c)} : Do(c, ticket \o <<Answer(a)>>)
  /\ UNCHANGED <<own, maps, held, history>>

\* PunchHoleSent and LocalAddr.
PunchAnswer(c, a) ==
  /\ st[c] = "reading"
  /\ Goto(c, "oneshot")
  /\ Do(c, <<Answer(a)>>)
  /\ UNCHANGED <<own, maps, held, history>>

\* TestNatRequest.
TestNatRequest(c) ==
  /\ st[c] = "reading"
  /\ Goto(c, "oneshot")
  /\ Do(c, Reply(c))
  /\ UNCHANGED <<own, maps, held, history>>

\* A message hbbs does not know or cannot parse.
Unknown(c) ==
  /\ st[c] = "reading"
  /\ Goto(c, "oneshot")
  /\ UNCHANGED <<own, maps, sends, history>>

\* RegisterPeer (one or two replies) and RegisterPk (one): the first moves the
\* sink to tcp_peers; an entry of the same key is dropped.
Register(c) ==
  /\ st[c] = "reading"
  /\ Goto(c, "handling")
  /\ own' = own \ {c}
  /\ IF c \in own
       THEN /\ tcp_peers' = [tcp_peers EXCEPT ![AddrOf[c]] = c]
            /\ registered' = registered \cup {c}
       ELSE UNCHANGED <<tcp_peers, registered>>
  /\ \E replies \in {<<Push(AddrOf[c])>>, <<Push(AddrOf[c]), Push(AddrOf[c])>>} : Do(c, replies)
  /\ UNCHANGED <<tcp_punch, held, answered>>

\* Mutant: the placeholder does not count as a registration.
ReturnUnlessSink(c) ==
  /\ todo[c] = <<>>
  /\ st[c] \in {"handling", "oneshot"}
  /\ Goto(c, IF st[c] = "handling" \/ tcp_peers[AddrOf[c]] \in Conn
               THEN "reading" ELSE "leaving")
  /\ UNCHANGED <<own, maps, sends, history>>

\* The handler returns: true keeps the connection, otherwise it stays only
\* while its address is in tcp_peers (is_tcp_peer).
Return(c) ==
  /\ todo[c] = <<>>
  /\ st[c] \in {"handling", "oneshot"}
  /\ Goto(c, IF st[c] = "handling" \/ tcp_peers[AddrOf[c]] # Absent
               THEN "reading" ELSE "leaving")
  /\ UNCHANGED <<own, maps, sends, history>>

\* if sink.is_none() { tcp_punch.remove(addr) }
DropPunch(c) ==
  /\ st[c] = "leaving"
  /\ Goto(c, "forgetting")
  /\ tcp_punch' = IF c \in own THEN tcp_punch ELSE [tcp_punch EXCEPT ![AddrOf[c]] = NoConn]
  /\ UNCHANGED <<own, tcp_peers, sends, history>>

\* forget_tcp_peer, and the sink goes if the task still owned it.
Forget(c) ==
  /\ st[c] = "forgetting"
  /\ Goto(c, "closed")
  /\ tcp_peers' = [tcp_peers EXCEPT ![AddrOf[c]] = Absent]
  /\ own' = own \ {c}
  /\ UNCHANGED <<tcp_punch, sends, history>>

SendStep(t) == FindAnswerSink(t) \/ TakePeerSink(t) \/ PutBack(t)

Handle(c) ==
  \/ PunchHoleRequest(c) \/ RequestRelay(c) \/ TestNatRequest(c) \/ Unknown(c) \/ Register(c)
  \/ \E a \in Addr : RelayResponse(c, a) \/ PunchAnswer(c, a)

Next ==
  \/ \E t \in Task : SendStep(t)
  \/ \E a \in Addr : Deliver(a)
  \/ \E c \in Conn : \/ Accept(c) \/ Handle(c) \/ StopReading(c)
                     \/ Return(c) \/ DropPunch(c) \/ Forget(c)

Spec == Init /\ [][Next]_vars

-----------------------------------------------------------------------------
(* Properties *)

\* c is the only connection that ever has its key, as a TCP connection has.
Alone(c) == \A d \in Conn : AddrOf[d] = AddrOf[c] => d = c

Live(c) == st[c] \in {"reading", "handling", "oneshot", "leaving"}

\* Neither map keeps an entry of an address none of whose connections is left,
\* though a send may come back with its sink after the connection is gone
\* (io.rs:249-252, tcp_register.rs:85-92).
NothingOutlivesConnections ==
  \A a \in Addr :
    /\ tcp_peers[a] # Absent =>
         \E c \in Conn : AddrOf[c] = a /\ (Live(c) \/ st[c] = "forgetting")
    /\ tcp_punch[a] # NoConn => Live(tcp_punch[a])

\* The placeholder in tcp_peers stands for a sink that some send will bring
\* back: it never stays behind to swallow every later push to the peer
\* (tcp_register.rs:74-92).
PlaceholderHasHolder ==
  \A a \in Addr : tcp_peers[a] = Closed =>
    \E t \in Task : held[t] # NoConn /\ Head(todo[t]).to = a

HasSink(c) ==
  \/ c \in own
  \/ tcp_punch[AddrOf[c]] = c
  \/ tcp_peers[AddrOf[c]] = c
  \/ /\ tcp_peers[AddrOf[c]] = Closed
     /\ \E t \in Task : held[t] = c /\ Head(todo[t]).to = AddrOf[c]

\* While a connection that has its key to itself is open, hbbs can still write
\* to it, whichever requests it made and however sends to it overlap, unless an
\* answer used its sink up (tcp.rs:20-23, 132-142; tcp_register.rs:72-94).
SinkNotLost ==
  \A c \in Conn : Alone(c) /\ Live(c) /\ c \notin answered => HasSink(c)

\* hbbs never ends a registered connection for having served a one-shot request
\* on it, even if a send has its sink at that moment (tcp.rs:127-129).
KeepsRegistered ==
  [][\A c \in Conn : Alone(c) /\ c \in registered /\ st[c] = "oneshot" => st'[c] # "leaving"]_vars

\* A taken sink is put back "unless the connection was forgotten (or the
\* address re-registered) in the meantime" (tcp_register.rs:69-70): the map
\* holds no sink of a connection that is gone.
PutBackUnlessForgotten ==
  \A c \in Conn : st[c] = "closed" => tcp_peers[AddrOf[c]] # c
=============================================================================
