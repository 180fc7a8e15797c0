-------------------------- MODULE RendezvousProofs ---------------------------
(***************************************************************************)
(* Theorems about Rendezvous for any numbers of controllers, peers, relays *)
(* and requests, any masks and any sharing of addresses.                   *)
(***************************************************************************)
EXTENDS Rendezvous, TLAPS

USE BoundAssumption, AddrAssumption, RelayAssumption
USE DEF setup, conns, asked

\* A request once made stays where it is in the list of requests.
AsksGrow ==
  /\ asks' \in Seq(Ask)
  /\ Len(asks) <= Len(asks') /\ Len(asks') <= MaxAsks
  /\ \A k \in DOMAIN asks : k \in DOMAIN asks' /\ asks'[k] = asks[k]

\* What TakeIn adds to the list.
Added(c, p, kind) ==
  /\ Len(asks') = Len(asks) + 1 /\ Len(asks') \in 1..MaxAsks
  /\ DOMAIN asks' = 1..Len(asks) + 1
  /\ asks'[Len(asks) + 1] = [conn |-> c, peer |-> p, kind |-> kind, at |-> now]
  /\ \A k \in 1..Len(asks) : asks'[k] = asks[k]

LEMMA TakeInAdds ==
  ASSUME TypeOK, NEW c \in Conn, NEW p \in Peer, NEW kind \in {"punch", "relay"}, TakeIn(c, p, kind)
  PROVE  AsksGrow /\ Added(c, p, kind)
<1>1. [conn |-> c, peer |-> p, kind |-> kind, at |-> now] \in Ask
  BY DEF TypeOK, Ask
<1>2. asks \in Seq(Ask) /\ Len(asks) < MaxAsks
      /\ asks' = Append(asks, [conn |-> c, peer |-> p, kind |-> kind, at |-> now])
  BY DEF TypeOK, TakeIn
<1> QED BY <1>1, <1>2 DEF AsksGrow, Added

LEMMA AsksSame ==
  ASSUME TypeOK, asks' = asks
  PROVE  AsksGrow
BY DEF TypeOK, AsksGrow

\* Only a request adds to the list, and it is a connection's that is open.
LEMMA AskStep ==
  ASSUME TypeOK, [Next]_vars
  PROVE  /\ AsksGrow
         /\ \/ asks' = asks
            \/ \E c \in Conn, p \in Peer : PunchHoleRequest(c, p) \/ RequestRelay(c, p)
<1>1. asks' = asks \/ \E c \in Conn, p \in Peer : PunchHoleRequest(c, p) \/ RequestRelay(c, p)
  BY DEF Next, vars, Tick, Restart, Open, Close, Route, Lose, PeerStep, JobStep, PeerAnswers,
         PeerRelays, MintTicket, Forward
<1>2. ASSUME NEW c \in Conn, NEW p \in Peer, PunchHoleRequest(c, p) \/ RequestRelay(c, p)
      PROVE  AsksGrow
  BY <1>2, TakeInAdds DEF PunchHoleRequest, RequestRelay
<1> QED BY <1>1, <1>2, AsksSame

\* The controller of a request is a connection with an address.
LEMMA AskFacts ==
  ASSUME TypeOK
  PROVE  /\ DOMAIN asks = 1..Len(asks) /\ Len(asks) \in Nat /\ DOMAIN asks \subseteq 1..MaxAsks
         /\ \A n \in DOMAIN asks :
              /\ asks[n] \in Ask /\ asks[n].conn \in Conn /\ asks[n].peer \in Peer
              /\ asks[n].kind \in {"punch", "relay"} /\ asks[n].at \in Time
              /\ Ctl(n) = AddrOf[asks[n].conn] /\ Ctl(n) \in Addr
<1>1. asks \in Seq(Ask) /\ Len(asks) <= MaxAsks
  BY DEF TypeOK
<1>2. DOMAIN asks = 1..Len(asks) /\ Len(asks) \in Nat /\ \A n \in DOMAIN asks : asks[n] \in Ask
  BY <1>1
<1>3. DOMAIN asks \subseteq 1..MaxAsks
  BY <1>1, <1>2
<1> QED BY <1>2, <1>3 DEF Ask, Ctl

\* A request that was not made has no push, and a job is a push's that arrived.
Unused == \A n \in 1..MaxAsks : n > Len(asks) => push[n] = None /\ job[n] = NoJob

JobPushed ==
  \A n \in 1..MaxAsks : /\ job[n] # NoJob => push[n] \in Push
                        /\ job[n].step = "mint" => job[n].by \in Session

\* A connection in the handler made a request that nothing was done about yet.
RoutingAsk ==
  \A c \in Conn : st[c] = "routing" =>
    \E n \in DOMAIN asks :
      /\ asks[n].conn = c /\ asks[n].kind = "punch" /\ push[n] = None /\ job[n] = NoJob
      /\ \A k \in n + 1 .. Len(asks) : asks[k].conn # c

TypeInv == TypeOK /\ Unused /\ JobPushed /\ RoutingAsk

LEMMA LastAskFacts ==
  ASSUME TypeInv, NEW c \in Conn, st[c] = "routing"
  PROVE  /\ LastAsk(c) \in DOMAIN asks /\ asks[LastAsk(c)].conn = c
         /\ asks[LastAsk(c)].kind = "punch"
         /\ push[LastAsk(c)] = None /\ job[LastAsk(c)] = NoJob
<1>1. PICK n \in DOMAIN asks :
        /\ asks[n].conn = c /\ asks[n].kind = "punch" /\ push[n] = None /\ job[n] = NoJob
        /\ \A k \in n + 1 .. Len(asks) : asks[k].conn # c
  BY DEF TypeInv, RoutingAsk
<1>2. \A m \in DOMAIN asks :
        asks[m].conn = c /\ (\A k \in m + 1 .. Len(asks) : asks[k].conn # c) => m = n
  <2> SUFFICES ASSUME NEW m \in DOMAIN asks, asks[m].conn = c,
                      \A k \in m + 1 .. Len(asks) : asks[k].conn # c
               PROVE  m = n
    OBVIOUS
  <2>1. m \in 1..Len(asks) /\ n \in 1..Len(asks) /\ Len(asks) \in Nat
    BY AskFacts DEF TypeInv
  <2>2. ~(m > n) /\ ~(n > m)
    BY <1>1, <2>1
  <2> QED BY <2>1, <2>2
<1>3. LastAsk(c) = n
  BY <1>1, <1>2 DEF LastAsk
<1> QED BY <1>1, <1>3


-----------------------------------------------------------------------------
(* Types *)

LEMMA TellTyped ==
  ASSUME TypeOK, NEW a \in Addr, NEW answer \in Answer \cup {Failure}, Tell(a, answer)
  PROVE  /\ tcp_punch' \in [Addr -> Conn \cup {None}]
         /\ told' \in [Conn -> Answer \cup {None, Failure}]
BY DEF TypeOK, Tell

LEMMA PushTyped ==
  ASSUME TypeOK, NEW c \in Conn, NEW n \in 1..MaxAsks, NEW always \in BOOLEAN, PushRequest(c, n, always)
  PROVE  /\ push' \in [1..MaxAsks -> Push \cup {None, Lost}]
         /\ push'[n] \in Push /\ \A k \in 1..MaxAsks \ {n} : push'[k] = push[k]
<1> DEFINE b == PeerAddr[asks[n].peer]
           local == b \in lan /\ (always \/ AddrOf[c] \notin lan)
<1>1. PICK r \in Pick : push' = [push EXCEPT ![n] =
                                   [relay |-> IF local THEN LocalIp ELSE r,
                                    forced |-> Forced(AddrOf[c], b, always) /\ ~SameIntranet(c, asks[n].peer)]]
  BY DEF PushRequest
<1>2. r \in Named
  BY DEF Pick, Named
<1>3. [relay |-> IF local THEN LocalIp ELSE r,
       forced |-> Forced(AddrOf[c], b, always) /\ ~SameIntranet(c, asks[n].peer)] \in Push
  BY <1>2 DEF Push, Named
<1> HIDE DEF b, local
<1> QED BY <1>1, <1>3 DEF TypeOK

LEMMA PassedOnNamed == ASSUME NEW a, NEW r \in Named PROVE PassedOn(a, r) \subseteq Named
BY DEF PassedOn, Named, Pick

LEMMA TypeStep ==
  ASSUME TypeInv, [Next]_vars
  PROVE  TypeOK'
<1> USE DEF TypeOK
<1>t. TypeOK /\ Unused /\ JobPushed
  BY DEF TypeInv
<1>0. asks' \in Seq(Ask) /\ Len(asks') <= MaxAsks
  BY <1>t, AskStep DEF AsksGrow
<1>1. CASE Tick
  BY <1>1, <1>t DEF Tick, Time
<1>2. CASE Restart
  BY <1>2, <1>t DEF Restart, NoJob
<1>3. ASSUME NEW c \in Conn, Open(c) \/ Close(c)
      PROVE  TypeOK'
  BY <1>3, <1>t DEF Open, Close
<1>4. ASSUME NEW c \in Conn, Route(c)
      PROVE  TypeOK'
  <2>1. LastAsk(c) \in 1..MaxAsks
    BY <1>4, <1>t, LastAskFacts, AskFacts DEF Route
  <2>2. push' \in [1..MaxAsks -> Push \cup {None, Lost}]
    BY <1>4, <1>t, <2>1, PushTyped DEF Route
  <2>3. /\ tcp_punch' \in [Addr -> Conn \cup {None}]
        /\ told' \in [Conn -> Answer \cup {None, Failure}]
    BY <1>4, <1>t, TellTyped DEF Route
  <2> QED BY <1>4, <1>0, <1>t, <2>2, <2>3 DEF Route
<1>5. ASSUME NEW c \in Conn, NEW p \in Peer, PunchHoleRequest(c, p)
      PROVE  TypeOK'
  <2>1. [token |-> TokenOf[c], at |-> now] \in Entry
    BY <1>t DEF Entry, Token
  <2>2. sessions' \in [Addr \X Peer -> Entry \cup {None}]
    BY <1>5, <1>t, <2>1 DEF PunchHoleRequest, Remember
  <2>3. tcp_punch' \in [Addr -> Conn \cup {None}]
    BY <1>5, <1>t DEF PunchHoleRequest, TakeIn
  <2> QED BY <1>5, <1>0, <1>t, <2>2, <2>3 DEF PunchHoleRequest
<1>6. ASSUME NEW c \in Conn, NEW p \in Peer, RequestRelay(c, p)
      PROVE  TypeOK'
  <2>1. tcp_punch' \in [Addr -> Conn \cup {None}]
    BY <1>6, <1>t DEF RequestRelay, TakeIn
  <2>2. [relay |-> Default, forced |-> FALSE] \in Push
    BY DEF Push, Named
  <2>3. push' \in [1..MaxAsks -> Push \cup {None, Lost}]
    BY <1>6, <1>t, <2>2 DEF RequestRelay
  <2> QED BY <1>6, <1>0, <1>t, <2>1, <2>3 DEF RequestRelay
<1>7. ASSUME NEW n \in 1..MaxAsks, Arrived(n)
      PROVE  n \in DOMAIN asks /\ push[n] \in Push /\ Ctl(n) \in Addr /\ Len(asks) \in 1..MaxAsks
  BY <1>7, <1>t, AskFacts DEF Arrived, Unused
<1>8. ASSUME NEW n \in 1..MaxAsks, Lose(n)
      PROVE  TypeOK'
  BY <1>8, <1>t DEF Lose
<1>9. ASSUME NEW n \in 1..MaxAsks, PeerAnswers(n)
      PROVE  TypeOK'
  <2>1. [relay |-> push[n].relay, used |-> push[n].relay] \in Answer
    BY <1>7, <1>9 DEF PeerAnswers, Push, Answer
  <2> QED BY <1>7, <1>9, <1>t, <2>1, TellTyped DEF PeerAnswers
<1>10. ASSUME NEW n \in 1..MaxAsks, PeerRelays(n)
       PROVE  TypeOK'
  <2>1. n \in DOMAIN asks /\ Ctl(n) \in Addr /\ asks[n].peer \in Peer /\ Len(asks) \in 1..MaxAsks
    BY <1>7, <1>10, <1>t, AskFacts DEF PeerRelays
  <2>2. TokenFor(Ctl(n), asks[n].peer) =>
          [token |-> sessions[<<Ctl(n), asks[n].peer>>].token, at |-> now, upto |-> Len(asks)] \in Session
    BY <1>t, <2>1 DEF TokenFor, Fresh, Entry, Session
  <2>3. PICK step \in {"mint", "forward"}, by \in Session \cup {None} : Step(n, step, by)
    <3>1. CASE TokenFor(Ctl(n), asks[n].peer)
      BY <1>10, <2>2, <3>1 DEF PeerRelays
    <3>2. CASE ~TokenFor(Ctl(n), asks[n].peer)
      BY <1>10, <3>2 DEF PeerRelays
    <3> QED BY <3>1, <3>2
  <2>4. job' \in [1..MaxAsks -> [step : {"none", "mint", "forward", "over"}, by : Session \cup {None}]]
    BY <1>t, <2>3 DEF Step
  <2> QED BY <1>10, <1>t, <2>4 DEF PeerRelays
<1>11. ASSUME NEW n \in 1..MaxAsks, MintTicket(n)
       PROVE  TypeOK'
  <2>1. [ask |-> n, of |-> job[n].by] \in [ask : 1..MaxAsks, of : Session]
    BY <1>11, <1>t DEF MintTicket, JobPushed
  <2> QED BY <1>11, <1>t, <2>1 DEF MintTicket, Step
<1>12. ASSUME NEW n \in 1..MaxAsks, Forward(n)
       PROVE  TypeOK'
  <2>1. push[n] \in Push /\ Ctl(n) \in Addr
    <3>1. job[n] # NoJob
      BY <1>12 DEF Forward, NoJob
    <3> QED BY <1>t, <3>1, AskFacts DEF JobPushed, Unused
  <2>2. \A r \in PassedOn(Ctl(n), push[n].relay) : [relay |-> r, used |-> push[n].relay] \in Answer
    BY <2>1, PassedOnNamed DEF Push, Answer
  <2> QED BY <1>12, <1>t, <2>1, <2>2, TellTyped DEF Forward, Step
<1>13. CASE UNCHANGED vars
  BY <1>13, <1>t DEF vars
<1> QED BY <1>1, <1>2, <1>3, <1>4, <1>5, <1>6, <1>8, <1>9, <1>10, <1>11, <1>12, <1>13
        DEF Next, PeerStep, JobStep


-----------------------------------------------------------------------------
(* Which steps change what *)

LEMMA PushChanges ==
  ASSUME TypeInv, [Next]_vars, NEW n \in 1..MaxAsks, push'[n] # push[n]
  PROVE  /\ UNCHANGED job
         /\ \/ Lose(n) /\ push'[n] = Lost
            \/ /\ n \in DOMAIN asks /\ push'[n] \in Push
               /\ \E c \in Conn : /\ Route(c) /\ n = LastAsk(c)
                                  /\ \E always \in BOOLEAN : PushRequest(c, n, always)
            \/ /\ n = Len(asks) + 1 /\ n \in DOMAIN asks' /\ push'[n] = [relay |-> Default, forced |-> FALSE]
               /\ \E c \in Conn, p \in Peer : RequestRelay(c, p)
<1>t. TypeOK
  BY DEF TypeInv
<1>1. \/ \E k \in 1..MaxAsks : Lose(k)
      \/ \E c \in Conn : Route(c)
      \/ \E c \in Conn, p \in Peer : RequestRelay(c, p)
  BY DEF Next, vars, Tick, Restart, Open, Close, PeerStep, JobStep, PeerAnswers, PunchHoleRequest,
         PeerRelays, MintTicket, Forward
<1>2. ASSUME NEW k \in 1..MaxAsks, Lose(k)
      PROVE  Lose(n) /\ push'[n] = Lost /\ UNCHANGED job
  BY <1>2, <1>t DEF Lose, TypeOK
<1>3. ASSUME NEW c \in Conn, Route(c)
      PROVE  /\ UNCHANGED job /\ n \in DOMAIN asks /\ push'[n] \in Push /\ n = LastAsk(c)
             /\ \E always \in BOOLEAN : PushRequest(c, n, always)
  <2>1. PICK always \in BOOLEAN : PushRequest(c, LastAsk(c), always)
    BY <1>3 DEF Route
  <2>2. LastAsk(c) \in DOMAIN asks /\ LastAsk(c) \in 1..MaxAsks
    BY <1>3, <1>t, LastAskFacts, AskFacts DEF Route
  <2>3. n = LastAsk(c) /\ push'[n] \in Push
    BY <1>t, <2>1, <2>2, PushTyped
  <2> QED BY <1>3, <2>1, <2>2, <2>3 DEF Route
<1>4. ASSUME NEW c \in Conn, NEW p \in Peer, RequestRelay(c, p)
      PROVE  /\ UNCHANGED job /\ n = Len(asks) + 1 /\ n \in DOMAIN asks'
             /\ push'[n] = [relay |-> Default, forced |-> FALSE]
  <2>1. push' = [push EXCEPT ![Len(asks) + 1] = [relay |-> Default, forced |-> FALSE]]
    BY <1>4 DEF RequestRelay
  <2>2. n = Len(asks) + 1 /\ push'[n] = [relay |-> Default, forced |-> FALSE]
    BY <1>t, <2>1 DEF TypeOK
  <2>3. Added(c, p, "relay")
    BY <1>4, <1>t, TakeInAdds DEF RequestRelay
  <2> QED BY <1>4, <2>2, <2>3 DEF RequestRelay, Added
<1> QED BY <1>1, <1>2, <1>3, <1>4

LEMMA JobChanges ==
  ASSUME TypeOK, [Next]_vars, NEW n \in 1..MaxAsks, job'[n] # job[n]
  PROVE  \/ Restart /\ job[n] # NoJob /\ job'[n] = [step |-> "over", by |-> None]
         \/ PeerRelays(n) \/ MintTicket(n) \/ Forward(n)
<1>1. \/ Restart
      \/ \E k \in 1..MaxAsks : PeerRelays(k) \/ MintTicket(k) \/ Forward(k)
  BY DEF Next, vars, Tick, Open, Close, PeerStep, JobStep, PeerAnswers, PunchHoleRequest,
         RequestRelay, Route, Lose
<1>2. CASE Restart
  BY <1>2 DEF Restart, TypeOK, NoJob
<1>3. ASSUME NEW k \in 1..MaxAsks, PeerRelays(k) \/ MintTicket(k) \/ Forward(k)
      PROVE  k = n
  BY <1>3 DEF PeerRelays, MintTicket, Forward, Step, TypeOK
<1> QED BY <1>1, <1>2, <1>3

\* What a task about to mint was given, and that it has a push to answer.
LEMMA RelaysDoes ==
  ASSUME TypeInv, NEW n \in 1..MaxAsks, PeerRelays(n)
  PROVE  /\ n \in DOMAIN asks /\ push[n] \in Push /\ job[n] = NoJob /\ asks[n].kind = "punch"
         /\ UNCHANGED <<asks, push>>
         /\ \/ job'[n] = [step |-> "forward", by |-> None]
            \/ /\ Fresh(sessions[<<Ctl(n), asks[n].peer>>])
               /\ job'[n].step = "mint" /\ job'[n].by \in Session
               /\ job'[n].by.token = sessions[<<Ctl(n), asks[n].peer>>].token
               /\ job'[n].by.at = now /\ job'[n].by.upto = Len(asks)
<1>1. n \in DOMAIN asks /\ push[n] \in Push
  BY AskFacts DEF PeerRelays, Arrived, TypeInv, Unused, TypeOK
<1>2. Ctl(n) \in Addr /\ asks[n].peer \in Peer /\ Len(asks) \in 1..MaxAsks
  BY <1>1, AskFacts DEF TypeInv, TypeOK
<1>3. CASE TokenFor(Ctl(n), asks[n].peer)
  <2> DEFINE e == sessions[<<Ctl(n), asks[n].peer>>]
             s == [token |-> e.token, at |-> now, upto |-> Len(asks)]
  <2>1. Fresh(e) /\ s \in Session
    BY <1>2, <1>3 DEF TokenFor, Fresh, Entry, Session, TypeInv, TypeOK
  <2>2. Step(n, "mint", s)
    BY <1>3 DEF PeerRelays
  <2>3. job'[n] = [step |-> "mint", by |-> s]
    BY <2>2 DEF Step, TypeInv, TypeOK
  <2> QED BY <1>1, <2>1, <2>3 DEF PeerRelays
<1>4. CASE ~TokenFor(Ctl(n), asks[n].peer)
  <2>1. Step(n, "forward", None)
    BY <1>4 DEF PeerRelays
  <2> QED BY <1>1, <2>1 DEF PeerRelays, Step, TypeInv, TypeOK
<1> QED BY <1>3, <1>4

\* A task that mints or forwards has nothing left to mint with.
LEMMA MintForwardDo ==
  ASSUME TypeInv, NEW n \in 1..MaxAsks, MintTicket(n) \/ Forward(n)
  PROVE  /\ n \in DOMAIN asks /\ push[n] \in Push /\ job[n] # NoJob
         /\ UNCHANGED <<asks, push>>
         /\ MintTicket(n) => job[n].step = "mint" /\ job'[n] = [step |-> "forward", by |-> None]
         /\ Forward(n) => job[n].step = "forward" /\ job'[n] = [step |-> "over", by |-> None]
<1>1. job[n].step \in {"mint", "forward"}
  BY DEF MintTicket, Forward
<1>2. job[n] # NoJob
  BY <1>1 DEF NoJob
<1>3. n \in DOMAIN asks /\ push[n] \in Push
  BY <1>2, AskFacts DEF TypeInv, JobPushed, Unused
<1> QED BY <1>2, <1>3 DEF MintTicket, Forward, Step, TypeInv, TypeOK

\* A connection enters the handler with a request of its own, and leaves it in
\* one step.
LEMMA EntersHandler ==
  ASSUME TypeOK, [Next]_vars, NEW c \in Conn, st'[c] = "routing"
  PROVE  \/ st[c] = "routing" /\ ~Route(c)
         \/ \E p \in Peer : PunchHoleRequest(c, p)
<1>1. CASE st' = st
  BY <1>1 DEF Route, TypeOK
<1>2. CASE Restart
  BY <1>2 DEF Restart
<1>3. ASSUME NEW d \in Conn, Open(d) \/ Close(d) \/ Route(d)
      PROVE  d # c /\ st[c] = "routing" /\ ~Route(c)
  BY <1>3 DEF Open, Close, Route, TypeOK
<1>4. ASSUME NEW d \in Conn, NEW p \in Peer, PunchHoleRequest(d, p), d # c
      PROVE  st[c] = "routing" /\ ~Route(c)
  BY <1>4 DEF PunchHoleRequest, Route, TypeOK
<1> QED BY <1>1, <1>2, <1>3, <1>4
        DEF Next, vars, Tick, PeerStep, JobStep, PeerAnswers, PeerRelays, RequestRelay, Lose,
            MintTicket, Forward


LEMMA TypeInvHolds ==
  ASSUME TypeInv, [Next]_vars
  PROVE  TypeInv'
<1> USE NoneAssumption
<1>t. TypeOK /\ TypeOK' /\ Unused /\ JobPushed /\ RoutingAsk /\ AsksGrow
  BY TypeStep, AskStep DEF TypeInv
<1>1. Unused'
  <2> SUFFICES ASSUME NEW n \in 1..MaxAsks, n > Len(asks')
               PROVE  push'[n] = None /\ job'[n] = NoJob
    BY DEF Unused, NoJob
  <2>1. n > Len(asks) /\ n \notin DOMAIN asks /\ n \notin DOMAIN asks' /\ push[n] = None /\ job[n] = NoJob
    BY <1>t DEF Unused, AsksGrow, TypeOK
  <2>2. push'[n] = push[n]
    BY <2>1, PushChanges DEF Lose, Arrived
  <2>3. job'[n] = job[n]
    BY <1>t, <2>1, JobChanges, RelaysDoes, MintForwardDo
  <2> QED BY <2>1, <2>2, <2>3
<1>2. JobPushed'
  <2> SUFFICES ASSUME NEW n \in 1..MaxAsks
               PROVE  /\ job'[n] # NoJob => push'[n] \in Push
                      /\ job'[n].step = "mint" => job'[n].by \in Session
    BY DEF JobPushed, NoJob
  <2>1. CASE job'[n] = job[n]
    <3>1. job[n] # NoJob => push'[n] \in Push
      <4>1. CASE push'[n] = push[n]
        BY <1>t, <4>1 DEF JobPushed
      <4>2. CASE push'[n] # push[n]
        <5>1. n = Len(asks) + 1 => job[n] = NoJob
          BY <1>t DEF Unused, TypeOK
        <5> QED BY <4>2, <5>1, PushChanges DEF Lose
      <4> QED BY <4>1, <4>2
    <3> QED BY <1>t, <2>1, <3>1 DEF JobPushed
  <2>2. CASE job'[n] # job[n]
    <3>1. CASE Restart
      BY <1>t, <2>2, <3>1, JobChanges DEF Restart, JobPushed, TypeOK
    <3>2. CASE PeerRelays(n)
      <4>1. push'[n] = push[n] /\ push[n] \in Push
        BY <3>2, RelaysDoes
      <4>2. job'[n] = [step |-> "forward", by |-> None] \/ job'[n].by \in Session
        BY <3>2, RelaysDoes
      <4> QED BY <4>1, <4>2
    <3>3. CASE MintTicket(n) \/ Forward(n)
      BY <3>3, MintForwardDo
    <3> QED BY <1>t, <2>2, <3>1, <3>2, <3>3, JobChanges
  <2> QED BY <2>1, <2>2
<1>3. RoutingAsk'
  <2> SUFFICES ASSUME NEW c \in Conn, st'[c] = "routing"
               PROVE  \E n \in DOMAIN asks' :
                        /\ asks'[n].conn = c /\ asks'[n].kind = "punch" /\ push'[n] = None
                        /\ job'[n] = NoJob
                        /\ \A k \in n + 1 .. Len(asks') : asks'[k].conn # c
    BY DEF RoutingAsk, NoJob
  <2>1. CASE \E p \in Peer : PunchHoleRequest(c, p)
    <3> DEFINE n == Len(asks) + 1
    <3>1. PICK p \in Peer : PunchHoleRequest(c, p)
      BY <2>1
    <3>2. Added(c, p, "punch")
      BY <1>t, <3>1, TakeInAdds DEF PunchHoleRequest
    <3>3. n \in 1..MaxAsks /\ n > Len(asks) /\ Len(asks) \in Nat
      BY <1>t, <3>2 DEF Added, TypeOK
    <3>4. push'[n] = None /\ job'[n] = NoJob
      BY <1>t, <3>1, <3>3 DEF Unused, PunchHoleRequest
    <3>5. n \in DOMAIN asks' /\ asks'[n].conn = c /\ asks'[n].kind = "punch"
      BY <3>2, <3>3 DEF Added
    <3>6. n + 1 .. Len(asks') = {}
      BY <3>2, <3>3 DEF Added
    <3> QED BY <3>4, <3>5, <3>6
  <2>2. CASE st[c] = "routing" /\ ~Route(c)
    <3>1. PICK n \in DOMAIN asks :
            /\ asks[n].conn = c /\ asks[n].kind = "punch" /\ push[n] = None /\ job[n] = NoJob
            /\ \A k \in n + 1 .. Len(asks) : asks[k].conn # c
      BY <1>t, <2>2 DEF RoutingAsk
    <3>2. n \in 1..MaxAsks /\ n \in DOMAIN asks' /\ asks'[n] = asks[n] /\ n \in 1..Len(asks) /\ Len(asks) \in Nat
      BY <1>t, AskFacts DEF AsksGrow
    <3>3. push'[n] = None
      <4>1. \A d \in Conn : Route(d) /\ n = LastAsk(d) => d = c
        BY <3>1, LastAskFacts DEF Route
      <4> QED BY <2>2, <3>1, <3>2, <4>1, PushChanges DEF Lose, Arrived
    <3>4. job'[n] = NoJob
      <4>1. None \notin Push
        OBVIOUS
      <4> QED BY <1>t, <3>1, <3>2, <4>1, JobChanges, RelaysDoes, MintForwardDo
    <3>5. \A k \in n + 1 .. Len(asks') : asks'[k].conn # c
      <4>1. CASE asks' = asks
        BY <3>1, <4>1
      <4>2. ASSUME NEW d \in Conn, NEW p \in Peer, NEW kind \in {"punch", "relay"}, TakeIn(d, p, kind)
            PROVE  \A k \in n + 1 .. Len(asks') : asks'[k].conn # c
        <5>1. d # c
          BY <2>2, <4>2 DEF TakeIn
        <5>2. Added(d, p, kind)
          BY <1>t, <4>2, TakeInAdds
        <5> QED BY <3>1, <3>2, <5>1, <5>2 DEF Added
      <4> QED BY <1>t, <4>1, <4>2, AskStep DEF PunchHoleRequest, RequestRelay
    <3> QED BY <3>1, <3>2, <3>3, <3>4, <3>5
  <2> QED BY <1>t, <2>1, <2>2, EntersHandler
<1> QED BY <1>t, <1>1, <1>2, <1>3 DEF TypeInv

LEMMA TypeInvInit == Init => TypeInv
<1> SUFFICES ASSUME Init PROVE TypeInv
  OBVIOUS
<1>1. Len(asks) = 0 /\ asks \in Seq(Ask) /\ DOMAIN asks = {}
  BY DEF Init
<1>2. TypeOK
  BY <1>1 DEF Init, TypeOK, NoJob, Time
<1> QED BY <1>1, <1>2 DEF Init, TypeInv, Unused, JobPushed, RoutingAsk, NoJob

\* Connections, sinks, sessions, pushes and tickets are of their kinds: a job is
\* only ever that of a push that arrived, and the handler always finds the request
\* it is in (tcp.rs, punch.rs, sessions.rs).
THEOREM TypeCorrect == Spec => []TypeOK
<1>1. TypeInv => TypeOK
  BY DEF TypeInv
<1> QED BY <1>1, TypeInvInit, TypeInvHolds, PTL DEF Spec


-----------------------------------------------------------------------------
(* Tickets *)

PunchFor(k, a, p) == asks[k].kind = "punch" /\ Ctl(k) = a /\ asks[k].peer = p

\* A session that is remembered is that of the last request for a punch hole from
\* the address for the peer.
SessionsOfAsks ==
  \A a \in Addr, p \in Peer : sessions[<<a, p>>] # None =>
    \E k \in DOMAIN asks :
      /\ PunchFor(k, a, p)
      /\ sessions[<<a, p>>].token = TokenOf[asks[k].conn] /\ sessions[<<a, p>>].at = asks[k].at
      /\ \A j \in k + 1 .. Len(asks) : ~PunchFor(j, a, p)

\* What TicketOfAsker says, of a session found for the answer to request n.
OfAsker(n, s) ==
  /\ n \in DOMAIN asks /\ s.upto \in DOMAIN asks
  /\ \E k \in n .. s.upto :
       /\ Ctl(k) = Ctl(n) /\ asks[k].peer = asks[n].peer
       /\ TokenOf[asks[k].conn] = s.token
       /\ s.at - asks[k].at < Ttl

TicketInv ==
  /\ \A n \in 1..MaxAsks : job[n].step = "mint" => OfAsker(n, job[n].by)
  /\ \A m \in minted : OfAsker(m.ask, m.of)

\* What is said of requests that were made stays true as others are made.
LEMMA AsksKeep ==
  ASSUME TypeOK, AsksGrow
  PROVE  /\ \A k \in DOMAIN asks : k \in DOMAIN asks' /\ asks'[k] = asks[k] /\ Ctl(k)' = Ctl(k)
         /\ \A k \in DOMAIN asks, a \in Addr, p \in Peer : PunchFor(k, a, p)' <=> PunchFor(k, a, p)
         /\ \A n, s : OfAsker(n, s) => OfAsker(n, s)'
<1>1. \A k \in DOMAIN asks : k \in DOMAIN asks' /\ asks'[k] = asks[k] /\ Ctl(k)' = Ctl(k)
  BY DEF AsksGrow, Ctl
<1>2. ASSUME NEW n, NEW s, OfAsker(n, s)
      PROVE  OfAsker(n, s)'
  <2>1. \A k \in n .. s.upto : k \in DOMAIN asks
    <3>1. DOMAIN asks = 1..Len(asks) /\ n \in DOMAIN asks /\ s.upto \in DOMAIN asks
      BY <1>2, AskFacts DEF OfAsker
    <3> QED BY <3>1, AskFacts
  <2> QED BY <1>1, <1>2, <2>1 DEF OfAsker
<1> QED BY <1>1, <1>2 DEF PunchFor

LEMMA SessionsHold ==
  ASSUME TypeInv, SessionsOfAsks, [Next]_vars
  PROVE  SessionsOfAsks'
<1> SUFFICES ASSUME NEW a \in Addr, NEW p \in Peer, sessions'[<<a, p>>] # None
             PROVE  \E k \in DOMAIN asks' :
                      /\ PunchFor(k, a, p)'
                      /\ sessions'[<<a, p>>].token = TokenOf[asks'[k].conn]
                      /\ sessions'[<<a, p>>].at = asks'[k].at
                      /\ \A j \in k + 1 .. Len(asks') : ~PunchFor(j, a, p)'
  BY DEF SessionsOfAsks
<1>t. TypeOK /\ AsksGrow
  BY AskStep DEF TypeInv
<1>1. CASE \E c \in Conn : AddrOf[c] = a /\ PunchHoleRequest(c, p)
  <2>1. PICK c \in Conn : AddrOf[c] = a /\ PunchHoleRequest(c, p)
    BY <1>1
  <2>2. Added(c, p, "punch")
    BY <1>t, <2>1, TakeInAdds DEF PunchHoleRequest
  <2>3. sessions'[<<a, p>>] = [token |-> TokenOf[c], at |-> now]
    BY <1>t, <2>1 DEF PunchHoleRequest, Remember
  <2>4. PICK k \in Nat : k = Len(asks) + 1
    BY <1>t DEF TypeOK
  <2>5. /\ k \in DOMAIN asks' /\ Len(asks') = k
        /\ asks'[k] = [conn |-> c, peer |-> p, kind |-> "punch", at |-> now]
    BY <1>t, <2>2, <2>4 DEF Added, TypeOK
  <2>6. PunchFor(k, a, p)'
    BY <2>1, <2>5 DEF PunchFor, Ctl
  <2>7. k + 1 .. Len(asks') = {}
    BY <2>5
  <2> QED BY <2>3, <2>5, <2>6, <2>7
<1>2. CASE ~\E c \in Conn : AddrOf[c] = a /\ PunchHoleRequest(c, p)
  <2>1. sessions'[<<a, p>>] = sessions[<<a, p>>]
    <3>1. CASE sessions' = sessions
      BY <3>1
    <3>2. CASE Restart
      BY <3>2 DEF Restart
    <3>3. ASSUME NEW d \in Conn, NEW q \in Peer, PunchHoleRequest(d, q)
          PROVE  sessions'[<<a, p>>] = sessions[<<a, p>>]
      <4>1. <<a, p>> # <<AddrOf[d], q>>
        BY <1>2, <3>3
      <4> QED BY <3>3, <4>1 DEF PunchHoleRequest, Remember
    <3> QED BY <3>1, <3>2, <3>3
            DEF Next, vars, Tick, Open, Close, Route, RequestRelay, Lose, PeerStep, JobStep,
                PeerAnswers, PeerRelays, MintTicket, Forward
  <2>2. PICK k \in DOMAIN asks :
          /\ PunchFor(k, a, p)
          /\ sessions[<<a, p>>].token = TokenOf[asks[k].conn] /\ sessions[<<a, p>>].at = asks[k].at
          /\ \A j \in k + 1 .. Len(asks) : ~PunchFor(j, a, p)
    BY <2>1 DEF SessionsOfAsks
  <2>3. k \in DOMAIN asks' /\ asks'[k] = asks[k] /\ PunchFor(k, a, p)'
    BY <1>t, <2>2, AsksKeep
  <2>4. \A j \in k + 1 .. Len(asks') : ~PunchFor(j, a, p)'
    <3>1. CASE asks' = asks
      BY <2>2, <3>1 DEF PunchFor, Ctl
    <3>2. ASSUME NEW d \in Conn, NEW q \in Peer, NEW kind \in {"punch", "relay"}, TakeIn(d, q, kind),
                 kind = "relay" \/ AddrOf[d] # a \/ q # p
          PROVE  \A j \in k + 1 .. Len(asks') : ~PunchFor(j, a, p)'
      <4>1. Added(d, q, kind)
        BY <1>t, <3>2, TakeInAdds
      <4>2. PICK last \in Nat : last = Len(asks) + 1
        BY <1>t DEF TypeOK
      <4>5. ~PunchFor(last, a, p)'
        <5>1. asks'[last] = [conn |-> d, peer |-> q, kind |-> kind, at |-> now]
          BY <4>1, <4>2 DEF Added
        <5> QED BY <3>2, <5>1 DEF PunchFor, Ctl
      <4>3. k \in 1..Len(asks) /\ Len(asks) \in Nat /\ DOMAIN asks = 1..Len(asks)
        BY <1>t, <2>2, AskFacts
      <4>4. \A j \in k + 1 .. Len(asks') : (j \in DOMAIN asks /\ j \in k + 1 .. Len(asks)) \/ j = last
        BY <4>1, <4>2, <4>3 DEF Added
      <4> QED BY <1>t, <2>2, <4>4, <4>5, AsksKeep
    <3> QED BY <1>t, <1>2, <3>1, <3>2, AskStep DEF PunchHoleRequest, RequestRelay
  <2> QED BY <2>1, <2>2, <2>3, <2>4
<1> QED BY <1>1, <1>2

LEMMA TicketHolds ==
  ASSUME TypeInv, SessionsOfAsks, TicketInv, [Next]_vars
  PROVE  TicketInv'
<1>t. TypeOK /\ AsksGrow
  BY AskStep DEF TypeInv
<1>1. ASSUME NEW n \in 1..MaxAsks, job'[n].step = "mint", NEW s, s = job'[n].by
      PROVE  OfAsker(n, s)'
  <2>1. CASE job'[n] = job[n]
    BY <1>t, <1>1, <2>1, AsksKeep DEF TicketInv
  <2>2. CASE PeerRelays(n)
    <3> DEFINE a == Ctl(n)
               p == asks[n].peer
    <3>1. /\ n \in DOMAIN asks /\ asks[n].kind = "punch" /\ UNCHANGED asks
          /\ Fresh(sessions[<<a, p>>])
          /\ s.token = sessions[<<a, p>>].token
          /\ s.at = now /\ s.upto = Len(asks)
      BY <1>1, <2>2, RelaysDoes
    <3>2. a \in Addr /\ p \in Peer /\ PunchFor(n, a, p)
      BY <1>t, <3>1, AskFacts DEF PunchFor
    <3>3. PICK k \in DOMAIN asks :
            /\ PunchFor(k, a, p)
            /\ sessions[<<a, p>>].token = TokenOf[asks[k].conn] /\ sessions[<<a, p>>].at = asks[k].at
            /\ \A j \in k + 1 .. Len(asks) : ~PunchFor(j, a, p)
      BY <3>1, <3>2 DEF SessionsOfAsks, Fresh
    <3>4. DOMAIN asks = 1..Len(asks) /\ Len(asks) \in Nat
      BY <1>t, AskFacts
    <3>5. k \in n .. Len(asks) /\ Len(asks) \in DOMAIN asks
      BY <3>1, <3>2, <3>3, <3>4
    <3>6. now - asks[k].at < Ttl
      BY <3>1, <3>3 DEF Fresh
    <3>7. Ctl(k) = a /\ asks[k].peer = p
      BY <3>3 DEF PunchFor
    <3>8. OfAsker(n, s)
      BY <3>1, <3>3, <3>5, <3>6, <3>7 DEF OfAsker
    <3> QED BY <1>t, <3>8, AsksKeep
  <2>3. CASE job'[n] # job[n] /\ ~PeerRelays(n)
    BY <1>t, <1>1, <2>3, JobChanges, MintForwardDo
  <2> QED BY <2>1, <2>2, <2>3
<1>2. ASSUME NEW m \in minted'
      PROVE  OfAsker(m.ask, m.of)'
  <2>1. CASE m \in minted
    BY <1>t, <2>1, AsksKeep DEF TicketInv
  <2>2. CASE m \notin minted
    <3>1. PICK n \in 1..MaxAsks : MintTicket(n)
      BY <1>2, <2>2 DEF Next, vars, Tick, Restart, Open, Close, Route, RequestRelay, PunchHoleRequest,
                        Lose, PeerStep, JobStep, PeerAnswers, PeerRelays, Forward
    <3>2. m = [ask |-> n, of |-> job[n].by] /\ job[n].step = "mint"
      BY <1>2, <2>2, <3>1 DEF MintTicket
    <3> QED BY <1>t, <3>2, AsksKeep DEF TicketInv
  <2> QED BY <2>1, <2>2
<1>3. (\A n \in 1..MaxAsks : job[n].step = "mint" => OfAsker(n, job[n].by))'
  BY <1>1
<1> QED BY <1>2, <1>3 DEF TicketInv

\* A ticket for a relay that a peer starts is charged to the session of the request
\* the peer answers or of a later one for it from the same address, less than Ttl
\* old, however connections come and go and hbbs restarts (sessions.rs, tcp.rs:257-281).
THEOREM TicketsOfAskers == Spec => []TicketOfAsker
<1>1. Init => SessionsOfAsks /\ TicketInv
  <2> SUFFICES ASSUME Init PROVE SessionsOfAsks /\ TicketInv
    OBVIOUS
  <2>1. \A n \in 1..MaxAsks : job[n].step = "none"
    BY DEF Init, NoJob
  <2> QED BY <2>1 DEF Init, SessionsOfAsks, TicketInv
<1>2. TicketInv => TicketOfAsker
  BY DEF TicketInv, OfAsker, TicketOfAsker
<1> QED BY <1>1, <1>2, TypeInvInit, TypeInvHolds, SessionsHold, TicketHolds, PTL DEF Spec


-----------------------------------------------------------------------------
(* Relays *)

PunchHome == \A a \in Addr, c \in Conn : tcp_punch[a] = c => AddrOf[c] = a

\* A peer that was sent to the address inside the mask and is not made to relay
\* answers a controller inside the mask.
PushReach ==
  \A n \in 1..MaxAsks :
    push[n] \in Push /\ push[n].relay = LocalIp /\ ~push[n].forced => Ctl(n) \in lan

LEMMA SetupKept == ASSUME [Next]_vars PROVE lan' = lan /\ ws' = ws
BY DEF Next, vars, Tick, Restart, Open, Close, Route, RequestRelay, PunchHoleRequest, TakeIn, Lose,
       PeerStep, JobStep, PeerAnswers, PeerRelays, MintTicket, Forward

\* An answer goes to the connection whose sink waits, once.
LEMMA TellDoes ==
  ASSUME TypeOK, NEW a \in Addr, NEW answer, Tell(a, answer)
  PROVE  /\ tcp_punch'[a] = None /\ \A b \in Addr \ {a} : tcp_punch'[b] = tcp_punch[b]
         /\ \A c \in Conn : told'[c] = IF tcp_punch[a] = c THEN answer ELSE told[c]
<1> USE NoneAssumption
<1>1. tcp_punch[a] \in Conn \cup {None} /\ None \notin Conn
  BY DEF TypeOK
<1>2. CASE tcp_punch[a] = None
  BY <1>1, <1>2 DEF Tell, TypeOK
<1>3. CASE tcp_punch[a] # None
  BY <1>1, <1>3 DEF Tell, TypeOK
<1> QED BY <1>2, <1>3

LEMMA PunchHomeHolds ==
  ASSUME TypeInv, PunchHome, [Next]_vars
  PROVE  PunchHome'
<1> SUFFICES ASSUME NEW a \in Addr, NEW c \in Conn, tcp_punch'[a] = c
             PROVE  AddrOf[c] = a
  BY DEF PunchHome
<1> USE NoneAssumption
<1>t. TypeOK
  BY DEF TypeInv
<1>1. CASE tcp_punch[a] = c
  BY <1>1 DEF PunchHome
<1>2. ASSUME NEW d \in Conn, NEW p \in Peer, NEW kind, TakeIn(d, p, kind)
      PROVE  tcp_punch[a] = c \/ AddrOf[c] = a
  BY <1>t, <1>2 DEF TakeIn, TypeOK
<1>3. ASSUME NEW b \in Addr, NEW answer, Tell(b, answer)
      PROVE  tcp_punch[a] = c
  BY <1>t, <1>3, TellDoes
<1>4. ASSUME NEW d \in Conn, Close(d)
      PROVE  tcp_punch[a] = c
  BY <1>t, <1>4 DEF Close, TypeOK
<1>5. ASSUME NEW d \in Conn, Route(d)
      PROVE  tcp_punch[a] = c
  BY <1>3, <1>5 DEF Route
<1>6. ASSUME NEW n \in 1..MaxAsks, PeerAnswers(n) \/ Forward(n)
      PROVE  tcp_punch[a] = c
  <2>1. n \in DOMAIN asks
    <3>1. PeerAnswers(n) => push[n] # None
      BY DEF PeerAnswers, Arrived
    <3>2. Forward(n) => job[n] # NoJob
      BY DEF Forward, NoJob
    <3> QED BY <1>t, <1>6, <3>1, <3>2, AskFacts DEF TypeInv, Unused
  <2>2. Ctl(n) \in Addr
    BY <1>t, <2>1, AskFacts
  <2> QED BY <1>3, <1>6, <2>2 DEF PeerAnswers, Forward
<1>7. CASE Restart
  BY <1>7 DEF Restart
<1>8. CASE tcp_punch' = tcp_punch
  BY <1>1, <1>8
<1> QED BY <1>1, <1>2, <1>4, <1>5, <1>6, <1>7, <1>8
        DEF Next, vars, Tick, Open, RequestRelay, PunchHoleRequest, Lose, PeerStep, JobStep,
            PeerRelays, MintTicket

\* What a controller may be told: a failure at once, or the answer to a request
\* from its address.
LEMMA ToldChanges ==
  ASSUME TypeInv, PunchHome, [Next]_vars, NEW c \in Conn, told'[c] # told[c]
  PROVE  /\ UNCHANGED <<asks, push>> \/ told'[c] = Failure
         /\ \/ told'[c] = Failure
            \/ \E n \in 1..MaxAsks :
                 /\ n \in DOMAIN asks /\ push[n] \in Push /\ Ctl(n) = AddrOf[c]
                 /\ \/ /\ ~push[n].forced
                       /\ told'[c] = [relay |-> push[n].relay, used |-> push[n].relay]
                    \/ \E r \in PassedOn(Ctl(n), push[n].relay) :
                         told'[c] = [relay |-> r, used |-> push[n].relay]
<1>t. TypeOK
  BY DEF TypeInv
<1>1. \/ \E d \in Conn : Route(d)
      \/ \E n \in 1..MaxAsks : PeerAnswers(n) \/ Forward(n)
  BY DEF Next, vars, Tick, Restart, Open, Close, PeerStep, JobStep, PunchHoleRequest, RequestRelay,
         Lose, PeerRelays, MintTicket
<1>2. ASSUME NEW d \in Conn, Route(d)
      PROVE  told'[c] = Failure
  BY <1>t, <1>2, TellDoes DEF Route
<1>3. ASSUME NEW n \in 1..MaxAsks, PeerAnswers(n)
      PROVE  /\ n \in DOMAIN asks /\ push[n] \in Push /\ Ctl(n) = AddrOf[c] /\ ~push[n].forced
             /\ told'[c] = [relay |-> push[n].relay, used |-> push[n].relay]
             /\ UNCHANGED <<asks, push>>
  <2>1. n \in DOMAIN asks /\ push[n] \in Push
    BY <1>t, <1>3, AskFacts DEF PeerAnswers, Arrived, TypeInv, Unused, TypeOK
  <2>2. Ctl(n) \in Addr
    BY <1>t, <2>1, AskFacts
  <2>3. /\ tcp_punch[Ctl(n)] = c
        /\ told'[c] = [relay |-> push[n].relay, used |-> push[n].relay]
    BY <1>t, <1>3, <2>2, TellDoes DEF PeerAnswers
  <2> QED BY <1>3, <2>1, <2>2, <2>3 DEF PeerAnswers, PunchHome
<1>4. ASSUME NEW n \in 1..MaxAsks, Forward(n)
      PROVE  /\ n \in DOMAIN asks /\ push[n] \in Push /\ Ctl(n) = AddrOf[c]
             /\ \E r \in PassedOn(Ctl(n), push[n].relay) :
                  told'[c] = [relay |-> r, used |-> push[n].relay]
             /\ UNCHANGED <<asks, push>>
  <2>1. n \in DOMAIN asks /\ push[n] \in Push /\ UNCHANGED <<asks, push>>
    BY <1>4, MintForwardDo
  <2>2. Ctl(n) \in Addr
    BY <1>t, <2>1, AskFacts
  <2>3. PICK r \in PassedOn(Ctl(n), push[n].relay) :
          Tell(Ctl(n), [relay |-> r, used |-> push[n].relay])
    BY <1>4 DEF Forward
  <2>4. tcp_punch[Ctl(n)] = c /\ told'[c] = [relay |-> r, used |-> push[n].relay]
    BY <1>t, <2>2, <2>3, TellDoes
  <2> QED BY <2>1, <2>2, <2>3, <2>4 DEF PunchHome
<1> QED BY <1>1, <1>2, <1>3, <1>4

\* Who is sent to the address inside the mask is inside it, or made to relay, or is
\* answered by a controller that is.
LEMMA PushReaches ==
  ASSUME TypeOK, NEW c \in Conn, NEW n \in DOMAIN asks, asks[n].conn = c,
         NEW always \in BOOLEAN, PushRequest(c, n, always),
         push'[n].relay = LocalIp, ~push'[n].forced
  PROVE  Ctl(n) \in lan
<1> DEFINE b == PeerAddr[asks[n].peer]
           local == b \in lan /\ (always \/ AddrOf[c] \notin lan)
<1>1. PICK r \in Pick : push' = [push EXCEPT ![n] =
                                   [relay |-> IF local THEN LocalIp ELSE r,
                                    forced |-> Forced(AddrOf[c], b, always) /\ ~SameIntranet(c, asks[n].peer)]]
  BY DEF PushRequest
<1>2. n \in 1..MaxAsks
  BY AskFacts
<1>3. push'[n] = [relay |-> IF local THEN LocalIp ELSE r,
                  forced |-> Forced(AddrOf[c], b, always) /\ ~SameIntranet(c, asks[n].peer)]
  BY <1>1, <1>2 DEF TypeOK
<1>4. r # LocalIp
  BY DEF Pick
<1>5. local /\ ~(Forced(AddrOf[c], b, always) /\ ~SameIntranet(c, asks[n].peer))
  <2> DEFINE f == Forced(AddrOf[c], b, always) /\ ~SameIntranet(c, asks[n].peer)
  <2>1. push'[n] = [relay |-> IF local THEN LocalIp ELSE r, forced |-> f]
    BY <1>3
  <2>2. ASSUME f PROVE FALSE
    <3>1. f = TRUE
      BY <2>2
    <3> HIDE DEF f, local
    <3>2. push'[n].forced = TRUE
      BY <2>1, <3>1
    <3> QED BY <3>2
  <2>3. local
    <3> HIDE DEF f, local
    <3>1. push'[n].relay = IF local THEN LocalIp ELSE r
      BY <2>1
    <3> QED BY <1>4, <3>1
  <2> QED BY <2>2, <2>3
<1>6. AddrOf[c] \notin lan => FALSE
  <2> SUFFICES ASSUME AddrOf[c] \notin lan PROVE FALSE
    OBVIOUS
  <2>1. Forced(AddrOf[c], b, always)
    BY <1>5 DEF Forced
  <2>2. IpOf[AddrOf[c]] = IpOf[b]
    BY <1>5, <2>1 DEF SameIntranet
  <2>3. b \in Addr /\ AddrOf[c] \in Addr /\ lan \in Masks
    BY AskFacts DEF TypeOK
  <2> QED BY <1>5, <2>2, <2>3, MaskAssumption
<1> QED BY <1>6, AskFacts

LEMMA PushReachHolds ==
  ASSUME TypeInv, PushReach, [Next]_vars
  PROVE  PushReach'
<1> SUFFICES ASSUME NEW n \in 1..MaxAsks, push'[n] \in Push, push'[n].relay = LocalIp, ~push'[n].forced
             PROVE  (Ctl(n) \in lan)'
  BY DEF PushReach
<1>t. TypeOK /\ AsksGrow /\ lan' = lan
  BY AskStep, SetupKept DEF TypeInv
<1>1. n \in DOMAIN asks => Ctl(n)' = Ctl(n)
  BY <1>t, AsksKeep
<1>2. CASE push'[n] = push[n]
  <2>1. n \in DOMAIN asks
    BY <1>t, <1>2, NoneAssumption, AskFacts DEF TypeInv, Unused
  <2> QED BY <1>t, <1>1, <1>2, <2>1 DEF PushReach
<1>3. CASE push'[n] # push[n]
  <2>1. Lost \notin Push
    BY NoneAssumption DEF Lost, Push
  <2>2. PICK c \in Conn : Route(c) /\ n = LastAsk(c) /\ \E always \in BOOLEAN : PushRequest(c, n, always)
    BY <1>3, <2>1, PushChanges, RelayAssumption
  <2>3. n \in DOMAIN asks /\ asks[n].conn = c
    BY <2>2, LastAskFacts DEF Route
  <2> QED BY <1>t, <1>1, <2>2, <2>3, PushReaches
<1> QED BY <1>2, <1>3

\* No controller outside the mask is told the address inside it, whatever mask, list
\* and always-use-relay make of the requests and whoever of an address is answered.
THEOREM RelaysReachable == Spec => []RelayReachable
<1>1. Init => PunchHome /\ PushReach /\ RelayReachable
  BY NoneAssumption DEF Init, PunchHome, PushReach, RelayReachable
<1>2. ASSUME TypeInv, PunchHome, PushReach, RelayReachable, [Next]_vars
      PROVE  RelayReachable'
  <2> SUFFICES ASSUME NEW c \in Conn, told'[c] # told[c], told'[c].relay = LocalIp
               PROVE  AddrOf[c] \in lan
    BY <1>2, SetupKept DEF RelayReachable
  <2>1. told'[c] # Failure
    BY NoneAssumption DEF Failure, Named
  <2>2. PICK n \in 1..MaxAsks :
          /\ n \in DOMAIN asks /\ push[n] \in Push /\ Ctl(n) = AddrOf[c]
          /\ \/ /\ ~push[n].forced
                /\ told'[c] = [relay |-> push[n].relay, used |-> push[n].relay]
             \/ \E r \in PassedOn(Ctl(n), push[n].relay) :
                  told'[c] = [relay |-> r, used |-> push[n].relay]
    BY <1>2, <2>1, ToldChanges
  <2>3. CASE told'[c] = [relay |-> push[n].relay, used |-> push[n].relay] /\ ~push[n].forced
    BY <1>2, <2>2, <2>3 DEF PushReach
  <2>4. ASSUME NEW r \in PassedOn(Ctl(n), push[n].relay), told'[c] = [relay |-> r, used |-> push[n].relay]
        PROVE  AddrOf[c] \in lan
    BY <2>2, <2>4 DEF PassedOn, Pick
  <2> QED BY <2>2, <2>3, <2>4
<1> QED BY <1>1, <1>2, TypeInvInit, TypeInvHolds, PunchHomeHolds, PushReachHolds, PTL DEF Spec

\* The two ends are told names of one host, but for an end inside the mask that is
\* sent to hbbs's own host while the other end is sent elsewhere.
THEOREM RelaysAgree == Spec => []SameRelay
<1>1. Init => PunchHome /\ SameRelay
  BY NoneAssumption DEF Init, PunchHome, SameRelay
<1>2. ASSUME TypeInv, PunchHome, SameRelay, [Next]_vars
      PROVE  SameRelay'
  <2> SUFFICES ASSUME NEW c \in Conn, told'[c] # told[c], told'[c] \notin {None, Failure}
               PROVE  \/ Host(told'[c].relay) = Host(told'[c].used)
                      \/ AddrOf[c] \in lan /\ told'[c].relay = LocalIp
                      \/ AddrOf[c] \notin lan /\ told'[c].used = LocalIp
    BY <1>2, SetupKept DEF SameRelay
  <2>1. PICK n \in 1..MaxAsks :
          /\ n \in DOMAIN asks /\ push[n] \in Push /\ Ctl(n) = AddrOf[c]
          /\ \/ /\ ~push[n].forced
                /\ told'[c] = [relay |-> push[n].relay, used |-> push[n].relay]
             \/ \E r \in PassedOn(Ctl(n), push[n].relay) :
                  told'[c] = [relay |-> r, used |-> push[n].relay]
    BY <1>2, ToldChanges
  <2>2. ASSUME NEW r \in PassedOn(Ctl(n), push[n].relay), told'[c] = [relay |-> r, used |-> push[n].relay]
        PROVE  \/ Host(told'[c].relay) = Host(told'[c].used)
               \/ AddrOf[c] \in lan /\ told'[c].relay = LocalIp
               \/ AddrOf[c] \notin lan /\ told'[c].used = LocalIp
    BY <2>1, <2>2 DEF PassedOn, Host
  <2>3. ASSUME told'[c] = [relay |-> push[n].relay, used |-> push[n].relay]
        PROVE  Host(told'[c].relay) = Host(told'[c].used)
    <3>1. told'[c].relay = told'[c].used
      BY <2>3
    <3> QED BY <3>1
  <2> QED BY <2>1, <2>2, <2>3
<1> QED BY <1>1, <1>2, TypeInvInit, TypeInvHolds, PunchHomeHolds, PTL DEF Spec

-----------------------------------------------------------------------------
(* Answers *)

Live(c) == st[c] \in {"open", "routing"}

NewSilent == \A c \in Conn : st[c] = "new" => ~HasAsked(c)
OneOpen == ~ws => \A c, d \in Conn : AddrOf[c] = AddrOf[d] /\ Live(c) /\ Live(d) => c = d

\* The sink of a connection that asked and was not answered waits under its address.
EntryWaits ==
  \A c \in Conn :
    Live(c) /\ HasAsked(c) /\ told[c] = None /\ ~Shares(c) => tcp_punch[AddrOf[c]] = c

\* And once it is out of the handler, a request of its own is with the peer.
RequestHeld ==
  \A c \in Conn :
    st[c] = "open" /\ Asking(c) /\ told[c] = None /\ ~Shares(c) =>
      \E n \in DOMAIN asks : asks[n].conn = c /\ push[n] # None /\ job[n].step # "over"

WaitInv == PunchHome /\ NewSilent /\ OneOpen /\ EntryWaits /\ RequestHeld

\* Who has asked stays so; who has not asks with the sink handed over.
LEMMA AskedGrows ==
  ASSUME TypeOK, [Next]_vars, NEW c \in Conn
  PROVE  /\ HasAsked(c) => HasAsked(c)'
         /\ Shares(c) => Shares(c)'
         /\ HasAsked(c)' => \/ HasAsked(c)
                            \/ \E p \in Peer, kind \in {"punch", "relay"} : TakeIn(c, p, kind)
         /\ Asking(c)' => Asking(c) \/ \E p \in Peer : PunchHoleRequest(c, p)
<1>1. \A d \in Conn : HasAsked(d) => HasAsked(d)'
  BY AskStep DEF AsksGrow, HasAsked
<1>2. Shares(c) => Shares(c)'
  BY <1>1, SetupKept DEF Shares
<1>3. CASE asks' = asks
  BY <1>1, <1>2, <1>3 DEF HasAsked, Asking
<1>4. ASSUME NEW d \in Conn, NEW p \in Peer, NEW kind \in {"punch", "relay"}, TakeIn(d, p, kind)
      PROVE  /\ HasAsked(c)' => HasAsked(c) \/ c = d
             /\ Asking(c)' => Asking(c) \/ (c = d /\ kind = "punch")
  <2>1. Added(d, p, kind) /\ DOMAIN asks = 1..Len(asks) /\ Len(asks) \in Nat
    BY <1>4, TakeInAdds, AskFacts
  <2>2. PICK last \in Nat : last = Len(asks) + 1
    BY <2>1
  <2>3. /\ DOMAIN asks' = 1..last /\ \A k \in 1..last : k = last \/ (k \in DOMAIN asks /\ asks'[k] = asks[k])
        /\ asks'[last] = [conn |-> d, peer |-> p, kind |-> kind, at |-> now]
    BY <2>1, <2>2 DEF Added
  <2>4. asks'[last].conn = d /\ asks'[last].kind = kind
    BY <2>3
  <2>5. HasAsked(c)' => HasAsked(c) \/ c = d
    BY <2>3, <2>4 DEF HasAsked
  <2>6. Asking(c)' => Asking(c) \/ (c = d /\ kind = "punch")
    <3> SUFFICES ASSUME Asking(c)', ~Asking(c) PROVE c = d /\ kind = "punch"
      OBVIOUS
    <3>1. PICK k \in DOMAIN asks' : asks'[k].conn = c /\ asks'[k].kind = "punch"
      BY DEF Asking
    <3>2. k = last
      BY <2>3, <3>1 DEF Asking
    <3> QED BY <2>4, <3>1, <3>2
  <2> QED BY <2>5, <2>6
<1>5. ASSUME NEW d \in Conn, NEW p \in Peer, PunchHoleRequest(d, p)
      PROVE  /\ HasAsked(c)' => \/ HasAsked(c)
                                \/ \E q \in Peer, kind \in {"punch", "relay"} : TakeIn(c, q, kind)
             /\ Asking(c)' => Asking(c) \/ \E q \in Peer : PunchHoleRequest(c, q)
  <2>1. TakeIn(d, p, "punch")
    BY <1>5 DEF PunchHoleRequest
  <2> QED BY <1>4, <1>5, <2>1
<1>6. ASSUME NEW d \in Conn, NEW p \in Peer, RequestRelay(d, p)
      PROVE  /\ HasAsked(c)' => \/ HasAsked(c)
                                \/ \E q \in Peer, kind \in {"punch", "relay"} : TakeIn(c, q, kind)
             /\ Asking(c)' => Asking(c)
  <2>1. TakeIn(d, p, "relay")
    BY <1>6 DEF RequestRelay
  <2> QED BY <1>4, <2>1
<1> QED BY <1>1, <1>2, <1>3, <1>5, <1>6, AskStep

\* A connection opens once, and leaves new by no other way.
LEMMA StateSteps ==
  ASSUME TypeOK, [Next]_vars, NEW c \in Conn
  PROVE  /\ st'[c] = "new" => st[c] = "new"
         /\ Live(c)' => Live(c) \/ Open(c)
         /\ st'[c] = "open" => st[c] = "open" \/ Open(c) \/ Route(c)
<1>1. CASE st' = st
  BY <1>1 DEF Live
<1>2. CASE Restart
  BY <1>2 DEF Restart, Live
<1>3. ASSUME NEW d \in Conn, Open(d) \/ Close(d)
      PROVE  /\ st'[c] = "new" => st[c] = "new"
             /\ Live(c)' => Live(c) \/ Open(c)
             /\ st'[c] = "open" => st[c] = "open" \/ Open(c)
  BY <1>3 DEF Open, Close, Live, TypeOK
<1>4. ASSUME NEW d \in Conn, Route(d)
      PROVE  /\ st'[c] = "new" => st[c] = "new"
             /\ Live(c)' => Live(c)
             /\ st'[c] = "open" => st[c] = "open" \/ Route(c)
  <2>1. st[d] = "routing" /\ st' = [st EXCEPT ![d] = "open"]
    BY <1>4 DEF Route
  <2>2. CASE c = d
    BY <1>4, <2>1, <2>2 DEF Live, TypeOK
  <2>3. CASE c # d
    BY <2>1, <2>3 DEF Live, TypeOK
  <2> QED BY <2>2, <2>3
<1>5. ASSUME NEW d \in Conn, NEW p \in Peer, PunchHoleRequest(d, p)
      PROVE  /\ st'[c] = "new" => st[c] = "new"
             /\ Live(c)' => Live(c)
             /\ st'[c] = "open" => st[c] = "open"
  BY <1>5 DEF PunchHoleRequest, TakeIn, Live, TypeOK
<1> QED BY <1>1, <1>2, <1>3, <1>4, <1>5
        DEF Next, vars, Tick, PeerStep, JobStep, PeerAnswers, PeerRelays, RequestRelay, Lose,
            MintTicket, Forward

LEMMA ToldStays ==
  ASSUME TypeInv, PunchHome, [Next]_vars, NEW c \in Conn, told'[c] = None
  PROVE  told[c] = None
<1> SUFFICES ASSUME told'[c] # told[c] PROVE FALSE
  OBVIOUS
<1> USE NoneAssumption
<1>1. told'[c] # Failure
  OBVIOUS
<1>2. PICK n \in 1..MaxAsks :
        /\ push[n] \in Push
        /\ \/ told'[c] = [relay |-> push[n].relay, used |-> push[n].relay]
           \/ \E r \in PassedOn(Ctl(n), push[n].relay) :
                told'[c] = [relay |-> r, used |-> push[n].relay]
  BY <1>1, ToldChanges
<1>3. push[n].relay \in Named
  BY <1>2 DEF Push
<1>4. told'[c] \in Answer
  <2>1. PassedOn(Ctl(n), push[n].relay) \subseteq Named
    BY <1>3, PassedOnNamed
  <2> QED BY <1>2, <1>3, <2>1 DEF Answer
<1> QED BY <1>4

LEMMA NewSilentHolds ==
  ASSUME TypeOK, NewSilent, [Next]_vars
  PROVE  NewSilent'
<1> SUFFICES ASSUME NEW c \in Conn, st'[c] = "new", HasAsked(c)'
             PROVE  FALSE
  BY DEF NewSilent
<1>1. st[c] = "new" /\ ~HasAsked(c)
  BY StateSteps DEF NewSilent
<1>2. \A p \in Peer, kind \in {"punch", "relay"} : ~TakeIn(c, p, kind)
  BY <1>1 DEF TakeIn
<1> QED BY <1>1, <1>2, AskedGrows

LEMMA OneOpenHolds ==
  ASSUME TypeOK, OneOpen, [Next]_vars
  PROVE  OneOpen'
<1> SUFFICES ASSUME ~ws, NEW c \in Conn, NEW d \in Conn, AddrOf[c] = AddrOf[d],
                    Live(c)', Live(d)', c # d
             PROVE  FALSE
  BY SetupKept DEF OneOpen
<1>1. \A x, y \in {c, d} : x # y => ~Open(x)
  <2> SUFFICES ASSUME NEW x \in {c, d}, NEW y \in {c, d}, x # y, Open(x)
               PROVE  FALSE
    OBVIOUS
  <2>1. st[y] \in {"new", "closed"} /\ st'[y] = st[y]
    BY DEF Open, TypeOK
  <2> QED BY <2>1 DEF Live
<1>2. Live(c) /\ Live(d)
  BY <1>1, StateSteps
<1> QED BY <1>2 DEF OneOpen

\* The answer that is sent to an address goes to the connection that waits there.
LEMMA EntryWaitsHolds ==
  ASSUME TypeInv, PunchHome, NewSilent, OneOpen, EntryWaits, [Next]_vars
  PROVE  EntryWaits'
<1> SUFFICES ASSUME NEW c \in Conn, Live(c)', HasAsked(c)', told'[c] = None, ~Shares(c)'
             PROVE  tcp_punch'[AddrOf[c]] = c
  BY DEF EntryWaits
<1> USE NoneAssumption
<1>t. TypeOK /\ ws' = ws
  BY SetupKept DEF TypeInv
<1>1. told[c] = None /\ ~Shares(c)
  BY <1>t, ToldStays, AskedGrows
<1>2. CASE ~HasAsked(c)
  <2>1. PICK p \in Peer, kind \in {"punch", "relay"} : TakeIn(c, p, kind)
    BY <1>t, <1>2, AskedGrows
  <2> QED BY <1>t, <1>2, <2>1 DEF TakeIn, TypeOK
<1>3. CASE HasAsked(c)
  <2>1. Live(c)
    BY <1>t, <1>3, StateSteps DEF Open, NewSilent
  <2>2. tcp_punch[AddrOf[c]] = c
    BY <1>1, <1>3, <2>1 DEF EntryWaits
  <2>3. ASSUME NEW d \in Conn, st[d] = "open", AddrOf[d] = AddrOf[c], HasAsked(d)'
        PROVE  d = c
    <3>1. CASE ws
      BY <1>t, <2>3, <3>1 DEF Shares
    <3>2. CASE ~ws
      BY <2>1, <2>3, <3>2 DEF OneOpen, Live
    <3> QED BY <3>1, <3>2
  <2>4. ASSUME NEW d \in Conn, NEW p \in Peer, NEW kind \in {"punch", "relay"}, TakeIn(d, p, kind)
        PROVE  tcp_punch'[AddrOf[c]] = c
    <3>1. CASE HasAsked(d)
      BY <2>2, <2>4, <3>1 DEF TakeIn
    <3>2. CASE ~HasAsked(d)
      <4>1. HasAsked(d)' /\ st[d] = "open"
        <5>1. Added(d, p, kind) /\ Len(asks) \in Nat
          BY <1>t, <2>4, TakeInAdds DEF TypeOK
        <5>2. PICK last \in Nat : last = Len(asks) + 1
          BY <5>1
        <5>3. last \in DOMAIN asks' /\ asks'[last].conn = d
          BY <5>1, <5>2 DEF Added
        <5> QED BY <2>4, <5>3 DEF TakeIn, HasAsked
      <4>2. AddrOf[d] # AddrOf[c]
        BY <1>3, <2>3, <3>2, <4>1
      <4> QED BY <1>t, <2>2, <2>4, <3>2, <4>2 DEF TakeIn, TypeOK
    <3> QED BY <3>1, <3>2
  <2>5. ASSUME NEW d \in Conn, Close(d)
        PROVE  tcp_punch'[AddrOf[c]] = c
    <3>1. d # c /\ st[d] = "open"
      BY <1>t, <2>5 DEF Close, TypeOK, Live
    <3>2. HasAsked(d) => AddrOf[d] # AddrOf[c]
      BY <1>t, <2>3, <3>1, AskedGrows
    <3> QED BY <1>t, <2>2, <2>5, <3>2 DEF Close, TypeOK
  <2>6. ASSUME NEW a \in Addr, NEW answer, answer # None, Tell(a, answer)
        PROVE  tcp_punch'[AddrOf[c]] = c
    <3>1. a # AddrOf[c]
      BY <1>t, <2>2, <2>6, TellDoes
    <3> QED BY <1>t, <2>2, <2>6, <3>1, TellDoes
  <2>7. ASSUME NEW d \in Conn, Route(d)
        PROVE  tcp_punch'[AddrOf[c]] = c
    BY <2>2, <2>6, <2>7 DEF Route
  <2>8. ASSUME NEW n \in 1..MaxAsks, PeerAnswers(n) \/ Forward(n)
        PROVE  tcp_punch'[AddrOf[c]] = c
    <3>1. n \in DOMAIN asks /\ push[n] \in Push
      <4>1. PeerAnswers(n) => push[n] \in Push
        BY <1>t DEF PeerAnswers, Arrived, TypeOK
      <4>2. Forward(n) => push[n] \in Push
        BY MintForwardDo
      <4> QED BY <1>t, <2>8, <4>1, <4>2, AskFacts DEF TypeInv, Unused
    <3>2. Ctl(n) \in Addr /\ push[n].relay \in Named
      BY <1>t, <3>1, AskFacts DEF Push
    <3>3. \A r \in Named : [relay |-> r, used |-> push[n].relay] # None
      BY <3>2 DEF Answer
    <3>4. PassedOn(Ctl(n), push[n].relay) \subseteq Named
      BY <3>2, PassedOnNamed
    <3> QED BY <2>6, <2>8, <3>2, <3>3, <3>4 DEF PeerAnswers, Forward
  <2>9. CASE Restart
    BY <1>t, <2>9 DEF Restart, Live, TypeOK
  <2>10. CASE tcp_punch' = tcp_punch
    BY <2>2, <2>10
  <2> QED BY <2>4, <2>5, <2>7, <2>8, <2>9, <2>10
          DEF Next, vars, Tick, Open, RequestRelay, PunchHoleRequest, Lose, PeerStep, JobStep,
              PeerRelays, MintTicket
<1> QED BY <1>2, <1>3

\* Until it is answered, a request of it stays with the peer or the task of its answer.
LEMMA RequestHeldHolds ==
  ASSUME TypeInv, WaitInv, [Next]_vars
  PROVE  RequestHeld'
<1> SUFFICES ASSUME NEW c \in Conn, st'[c] = "open", Asking(c)', told'[c] = None, ~Shares(c)'
             PROVE  \E n \in DOMAIN asks' : asks'[n].conn = c /\ push'[n] # None /\ job'[n].step # "over"
  BY DEF RequestHeld
<1> USE NoneAssumption
<1>t. TypeOK /\ AsksGrow /\ PunchHome /\ NewSilent /\ OneOpen /\ EntryWaits /\ RequestHeld
  BY AskStep DEF TypeInv, WaitInv
<1>1. told[c] = None /\ ~Shares(c)
  BY <1>t, ToldStays, AskedGrows
<1>2. Asking(c)
  <2>1. ASSUME NEW p \in Peer, PunchHoleRequest(c, p)
        PROVE  FALSE
    BY <1>t, <2>1 DEF PunchHoleRequest, TypeOK
  <2> QED BY <1>t, <2>1, AskedGrows
<1>3. HasAsked(c)
  BY <1>2 DEF Asking, HasAsked
<1>4. ~Open(c)
  BY <1>t, <1>3 DEF Open, NewSilent
<1>5. CASE Route(c)
  <2> DEFINE n == LastAsk(c)
  <2>1. /\ n \in DOMAIN asks /\ n \in 1..MaxAsks /\ asks[n].conn = c /\ job[n] = NoJob
        /\ st[c] = "routing"
    BY <1>t, <1>5, LastAskFacts, AskFacts DEF Route
  <2>2. tcp_punch[AddrOf[c]] = c
    BY <1>t, <1>1, <1>3, <2>1 DEF EntryWaits, Live
  <2>3. ~Tell(AddrOf[c], Failure)
    <3>1. AddrOf[c] \in Addr /\ Failure # None
      OBVIOUS
    <3> QED BY <1>t, <2>2, <3>1, TellDoes
  <2>4. PICK always \in BOOLEAN : PushRequest(c, n, always)
    BY <1>5, <2>3 DEF Route
  <2>5. push'[n] # None
    BY <1>t, <2>1, <2>4, PushTyped
  <2>6. asks' = asks /\ job' = job
    BY <1>5 DEF Route
  <2> QED BY <2>1, <2>5, <2>6 DEF NoJob
<1>6. CASE st[c] = "open"
  <2>1. PICK n \in DOMAIN asks : asks[n].conn = c /\ push[n] # None /\ job[n].step # "over"
    BY <1>t, <1>1, <1>2, <1>6 DEF RequestHeld
  <2>2. n \in 1..MaxAsks /\ n \in DOMAIN asks' /\ asks'[n].conn = c /\ Ctl(n) = AddrOf[c]
    BY <1>t, <2>1, AskFacts DEF AsksGrow
  <2>3. push'[n] # None
    <3>1. CASE push'[n] = push[n]
      BY <2>1, <3>1
    <3>2. CASE push'[n] # push[n]
      <4>1. [relay |-> Default, forced |-> FALSE] \in Push
        BY DEF Push, Named
      <4> QED BY <2>2, <3>2, <4>1, PushChanges
    <3> QED BY <3>1, <3>2
  <2>4. job'[n].step # "over"
    <3>1. tcp_punch[AddrOf[c]] = c
      BY <1>t, <1>1, <1>3, <1>6 DEF EntryWaits, Live
    <3>2. ~Forward(n)
      <4> SUFFICES ASSUME Forward(n) PROVE FALSE
        OBVIOUS
      <4>1. push[n] \in Push
        BY <2>2, MintForwardDo
      <4>2. PICK r \in PassedOn(Ctl(n), push[n].relay) :
              Tell(Ctl(n), [relay |-> r, used |-> push[n].relay])
        BY DEF Forward
      <4>3. [relay |-> r, used |-> push[n].relay] \in Answer
        BY <4>1, PassedOnNamed DEF Push, Answer
      <4>4. told'[c] = [relay |-> r, used |-> push[n].relay]
        BY <1>t, <2>2, <3>1, <4>2, TellDoes
      <4> QED BY <4>3, <4>4
    <3>3. ~Restart
      BY DEF Restart
    <3>4. CASE job'[n] = job[n]
      BY <2>1, <3>4
    <3>5. CASE job'[n] # job[n]
      <4>1. PeerRelays(n) \/ MintTicket(n)
        BY <1>t, <2>2, <3>2, <3>3, <3>5, JobChanges
      <4>2. PeerRelays(n) => job'[n].step \in {"mint", "forward"}
        <5> SUFFICES ASSUME PeerRelays(n) PROVE job'[n].step \in {"mint", "forward"}
          OBVIOUS
        <5>1. job'[n] = [step |-> "forward", by |-> None] \/ job'[n].step = "mint"
          BY <2>2, RelaysDoes
        <5> QED BY <5>1
      <4>3. MintTicket(n) => job'[n].step = "forward"
        <5> SUFFICES ASSUME MintTicket(n) PROVE job'[n].step = "forward"
          OBVIOUS
        <5>1. job'[n] = [step |-> "forward", by |-> None]
          BY <2>2, MintForwardDo
        <5> QED BY <5>1
      <4> QED BY <4>1, <4>2, <4>3
    <3> QED BY <3>4, <3>5
  <2> QED BY <2>2, <2>3, <2>4
<1> QED BY <1>t, <1>4, <1>5, <1>6, StateSteps

\* Whoever asked for a punch hole and was not answered can be: its sink waits under
\* its address and its request is in the handler, with the peer or in the task of
\* the peer's answer, unless clients of its IP share its address (tcp.rs:15-27,
\* 132-142, punch.rs:224-238, io.rs:181).
THEOREM AnswersUnderWay == Spec => []AnswerIsUnderWay
<1>1. Init => WaitInv
  <2> SUFFICES ASSUME Init PROVE WaitInv
    OBVIOUS
  <2>1. \A c \in Conn : st[c] = "new" /\ ~HasAsked(c)
    <3>1. DOMAIN asks = {} /\ st = [c \in Conn |-> "new"]
      BY DEF Init
    <3> QED BY <3>1 DEF HasAsked
  <2>2. PunchHome
    BY NoneAssumption DEF Init, PunchHome
  <2> QED BY <2>1, <2>2 DEF WaitInv, NewSilent, OneOpen, EntryWaits, RequestHeld, Live
<1>2. TypeInv /\ WaitInv /\ [Next]_vars => WaitInv'
  <2> SUFFICES ASSUME TypeInv, WaitInv, [Next]_vars PROVE WaitInv'
    OBVIOUS
  <2>1. TypeOK /\ PunchHome /\ NewSilent /\ OneOpen /\ EntryWaits
    BY DEF TypeInv, WaitInv
  <2> QED BY <2>1, PunchHomeHolds, NewSilentHolds, OneOpenHolds, EntryWaitsHolds, RequestHeldHolds
          DEF WaitInv
<1>3. WaitInv => AnswerIsUnderWay
  <2> SUFFICES ASSUME WaitInv, NEW c \in Conn, Live(c), Asking(c), told[c] = None, ~Shares(c)
               PROVE  /\ tcp_punch[AddrOf[c]] = c
                      /\ \/ st[c] = "routing"
                         \/ \E n \in DOMAIN asks :
                              asks[n].conn = c /\ push[n] # None /\ job[n].step # "over"
    BY DEF AnswerIsUnderWay, Live
  <2>1. HasAsked(c)
    BY DEF Asking, HasAsked
  <2> QED BY <2>1 DEF WaitInv, EntryWaits, RequestHeld, Live
<1> QED BY <1>1, <1>2, <1>3, TypeInvInit, TypeInvHolds, PTL DEF Spec
=============================================================================
