--------------------------- MODULE TcpPeersProofs ----------------------------
(***************************************************************************)
(* Theorems about TcpPeers for any number of connections and any sharing   *)
(* of addresses among them.                                                *)
(***************************************************************************)
EXTENDS TcpPeers, TLAPS

USE DEF maps, sends, history, Goto, Do, Done

\* The sends a task still has to do after its first one (Done).
LEMMA RestOfProgram ==
  ASSUME NEW s \in Seq(Send), s # <<>>
  PROVE  Head(s) \in Send /\ Head(s).to \in Addr /\ Tail(s) \in Seq(Send)
<1>1. Head(s) \in Send /\ Tail(s) \in Seq(Send)
  OBVIOUS
<1> QED BY <1>1 DEF Send

\* The sends the handlers give a task, and the fallback of send_to_tcp, are
\* programs.
LEMMA Programs ==
  ASSUME NEW a \in Addr
  PROVE  /\ Answer(a) \in Send /\ Push(a) \in Send
         /\ <<>> \in Seq(Send)
         /\ <<Answer(a)>> \in Seq(Send) /\ <<Push(a)>> \in Seq(Send)
         /\ <<Push(a), Push(a)>> \in Seq(Send)
         /\ \A s \in Seq(Send) : <<Push(a)>> \o s \in Seq(Send) /\ s \o <<Answer(a)>> \in Seq(Send)
<1>1. Answer(a) \in Send /\ Push(a) \in Send
  BY DEF Answer, Push, Send
<1> QED BY <1>1

\* Both maps hold connections, a task has a list of sends to do, and only a
\* task in the middle of a push holds a sink.
THEOREM TypeCorrect == Spec => []TypeOK
<1>1. Init => TypeOK
  <2> SUFFICES ASSUME Init PROVE TypeOK
    OBVIOUS
  <2>1. todo \in [Task -> Seq(Send)] /\ held \in [Task -> Conn \cup {NoConn}]
    BY DEF Init
  <2>2. \A c \in Conn : todo[c] = <<>>
    BY DEF Init, Task
  <2> QED BY <2>1, <2>2 DEF Init, TypeOK, Place
<1>2. TypeOK /\ [Next]_vars => TypeOK'
  <2> SUFFICES ASSUME TypeOK, [Next]_vars
               PROVE  TypeOK'
    OBVIOUS
  <2> USE NoConnAssumption, LoopAssumption, AddrOfAssumption DEF TypeOK, Task
  <2>1. ASSUME NEW t \in Task, FindAnswerSink(t)
        PROVE  TypeOK'
    <3>0. todo[t] \in Seq(Send) /\ todo[t] # <<>>
      BY <2>1 DEF FindAnswerSink
    <3>1. Head(todo[t]).to \in Addr /\ Tail(todo[t]) \in Seq(Send)
          /\ <<Push(Head(todo[t]).to)>> \o Tail(todo[t]) \in Seq(Send)
      <4>1. Head(todo[t]).to \in Addr /\ Tail(todo[t]) \in Seq(Send)
        BY <3>0, RestOfProgram
      <4> QED BY <4>1, Programs
    <3>2. todo' \in [Task -> Seq(Send)] /\ \A u \in Task : u # t => todo'[u] = todo[u]
      <4>1. \E s \in Seq(Send) : todo' = [todo EXCEPT ![t] = s]
        BY <2>1, <3>1 DEF FindAnswerSink
      <4> QED BY <4>1
    <3>3. held[t] = NoConn
      BY <2>1 DEF FindAnswerSink
    <3>4. tcp_punch' \in [Addr -> Conn \cup {NoConn}] /\ answered' \subseteq Conn
      BY <2>1, <3>1 DEF FindAnswerSink
    <3>5. \A c \in Conn : st[c] \notin {"handling", "oneshot"} => c # t
      BY <2>1 DEF FindAnswerSink
    <3> QED BY <2>1, <3>2, <3>3, <3>4, <3>5 DEF FindAnswerSink
  <2>2. ASSUME NEW t \in Task, TakePeerSink(t)
        PROVE  TypeOK'
    <3>0. todo[t] \in Seq(Send) /\ todo[t] # <<>>
      BY <2>2 DEF TakePeerSink
    <3>1. Head(todo[t]).to \in Addr /\ Tail(todo[t]) \in Seq(Send)
      BY <3>0, RestOfProgram
    <3>2. todo' \in [Task -> Seq(Send)] /\ \A u \in Task : u # t => todo'[u] = todo[u]
      <4>1. todo' = todo \/ todo' = [todo EXCEPT ![t] = Tail(todo[t])]
        BY <2>2 DEF TakePeerSink
      <4>2. CASE todo' = todo
        BY <4>2
      <4>3. CASE todo' = [todo EXCEPT ![t] = Tail(todo[t])]
        <5>1. \E s \in Seq(Send) : todo' = [todo EXCEPT ![t] = s]
          BY <3>1, <4>3
        <5> QED BY <5>1
      <4> QED BY <4>1, <4>2, <4>3
    <3>3. tcp_peers' \in [Addr -> Conn \cup {Absent, Closed}]
      <4>1. tcp_peers' = tcp_peers \/ tcp_peers' = [tcp_peers EXCEPT ![Head(todo[t]).to] = Closed]
        BY <2>2 DEF TakePeerSink
      <4> QED BY <3>1, <4>1
    <3>4. held' \in [Task -> Conn \cup {NoConn}]
          /\ \A u \in Task : held'[u] # NoConn => todo'[u] # <<>> /\ Head(todo'[u]).op = "peer"
      BY <2>2, <3>1, <3>2 DEF TakePeerSink
    <3>5. \A c \in Conn : st[c] \notin {"handling", "oneshot"} => c # t
      BY <2>2 DEF TakePeerSink
    <3> QED BY <2>2, <3>2, <3>3, <3>4, <3>5 DEF TakePeerSink
  <2>3. ASSUME NEW t \in Task, PutBack(t)
        PROVE  TypeOK'
    <3>0. todo[t] \in Seq(Send) /\ todo[t] # <<>>
      BY <2>3 DEF PutBack
    <3>1. Head(todo[t]).to \in Addr /\ Tail(todo[t]) \in Seq(Send)
      BY <3>0, RestOfProgram
    <3>2. todo' \in [Task -> Seq(Send)] /\ \A u \in Task : u # t => todo'[u] = todo[u]
      BY <2>3, <3>1 DEF PutBack
    <3>3. \A c \in Conn : st[c] \notin {"handling", "oneshot"} => c # t
      BY <2>3 DEF PutBack
    <3> QED BY <2>3, <3>1, <3>2, <3>3 DEF PutBack
  <2>4. ASSUME NEW a \in Addr, Deliver(a)
        PROVE  TypeOK'
    BY <2>4, Programs DEF Deliver
  <2>5. ASSUME NEW c \in Conn, Accept(c)
        PROVE  TypeOK'
    BY <2>5 DEF Accept, Place
  <2>6. ASSUME NEW c \in Conn, PunchHoleRequest(c) \/ RequestRelay(c)
        PROVE  TypeOK'
    <3>1. tcp_punch' \in [Addr -> Conn \cup {NoConn}]
      BY <2>6 DEF PunchHoleRequest, RequestRelay, KeepForAnswer
    <3>2. <<Answer(AddrOf[c])>> \in Seq(Send) /\ held[c] = NoConn
      BY <2>6, Programs DEF PunchHoleRequest, RequestRelay
    <3>3. own' \subseteq Conn /\ UNCHANGED <<tcp_peers, held, history>>
      BY <2>6 DEF PunchHoleRequest, RequestRelay, KeepForAnswer
    <3>4. CASE UNCHANGED <<st, todo>>
      BY <3>1, <3>3, <3>4
    <3>5. CASE Goto(c, "handling") /\ Do(c, <<Answer(AddrOf[c])>>)
      BY <3>1, <3>2, <3>3, <3>5 DEF Place
    <3> QED BY <2>6, <3>4, <3>5 DEF PunchHoleRequest, RequestRelay
  <2>7. ASSUME NEW c \in Conn, StopReading(c)
        PROVE  TypeOK'
    BY <2>7 DEF StopReading, Place
  <2>8. ASSUME NEW c \in Conn, NEW steps \in Seq(Send), st[c] = "reading", Goto(c, "oneshot"),
               Do(c, steps), UNCHANGED <<own, maps, held, history>>
        PROVE  TypeOK'
    BY <2>8 DEF Place
  <2>9. ASSUME NEW c \in Conn, NEW a \in Addr, RelayResponse(c, a)
        PROVE  TypeOK'
    <3>1. \E steps \in Seq(Send) : Do(c, steps)
      <4>1. <<>> \in Seq(Send) /\ Reply(c) \in Seq(Send)
        BY Programs DEF Reply
      <4>2. \A ticket \in {<<>>, Reply(c)} : ticket \o <<Answer(a)>> \in Seq(Send)
        BY <4>1, Programs
      <4> QED BY <2>9, <4>2 DEF RelayResponse
    <3> QED BY <2>8, <2>9, <3>1 DEF RelayResponse
  <2>10. ASSUME NEW c \in Conn, NEW a \in Addr, PunchAnswer(c, a)
         PROVE  TypeOK'
    BY <2>8, <2>10, Programs DEF PunchAnswer
  <2>11. ASSUME NEW c \in Conn, TestNatRequest(c)
         PROVE  TypeOK'
    <3>1. Reply(c) \in Seq(Send)
      BY Programs DEF Reply
    <3> QED BY <2>8, <2>11, <3>1 DEF TestNatRequest
  <2>12. ASSUME NEW c \in Conn, Unknown(c)
         PROVE  TypeOK'
    BY <2>12 DEF Unknown, Place
  <2>13. ASSUME NEW c \in Conn, Register(c)
         PROVE  TypeOK'
    <3>1. \E steps \in Seq(Send) : Do(c, steps)
      BY <2>13, Programs DEF Register
    <3>2. tcp_peers' \in [Addr -> Conn \cup {Absent, Closed}] /\ registered' \subseteq Conn
      BY <2>13 DEF Register
    <3>3. held[c] = NoConn
      BY <2>13 DEF Register
    <3> QED BY <2>13, <3>1, <3>2, <3>3 DEF Register, Place
  <2>14. ASSUME NEW c \in Conn, Return(c)
         PROVE  TypeOK'
    BY <2>14 DEF Return, Place
  <2>15. ASSUME NEW c \in Conn, DropPunch(c)
         PROVE  TypeOK'
    BY <2>15 DEF DropPunch, Place
  <2>16. ASSUME NEW c \in Conn, Forget(c)
         PROVE  TypeOK'
    BY <2>16 DEF Forget, Place
  <2>17. CASE UNCHANGED vars
    BY <2>17 DEF vars
  <2> QED
    BY <2>1, <2>2, <2>3, <2>4, <2>5, <2>6, <2>7, <2>9, <2>10, <2>11, <2>12, <2>13, <2>14, <2>15,
       <2>16, <2>17 DEF Next, SendStep, Handle
<1> QED BY <1>1, <1>2, PTL DEF Spec

\* A task that holds a sink is inside one push: until it puts the sink back it
\* neither drops it nor goes on to another send.
LEMMA HolderStays ==
  ASSUME TypeOK, [Next]_vars, NEW t \in Task, held[t] # NoConn
  PROVE  PutBack(t) \/ (held'[t] = held[t] /\ todo'[t] = todo[t])
<1> USE DEF TypeOK, Task
<1>1. ASSUME NEW u \in Task, FindAnswerSink(u)
      PROVE  held'[t] = held[t] /\ todo'[t] = todo[t]
  <2>1. u # t
    BY <1>1 DEF FindAnswerSink
  <2> QED BY <1>1, <2>1 DEF FindAnswerSink
<1>2. ASSUME NEW u \in Task, TakePeerSink(u)
      PROVE  held'[t] = held[t] /\ todo'[t] = todo[t]
  <2>1. u # t
    BY <1>2 DEF TakePeerSink
  <2> QED BY <1>2, <2>1 DEF TakePeerSink
<1>3. ASSUME NEW u \in Task, PutBack(u), u # t
      PROVE  held'[t] = held[t] /\ todo'[t] = todo[t]
  BY <1>3 DEF PutBack
<1>4. ASSUME NEW a \in Addr, Deliver(a)
      PROVE  held'[t] = held[t] /\ todo'[t] = todo[t]
  BY <1>4 DEF Deliver
<1>5. ASSUME NEW c \in Conn, Accept(c) \/ StopReading(c) \/ Return(c) \/ DropPunch(c) \/ Forget(c)
      PROVE  held'[t] = held[t] /\ todo'[t] = todo[t]
  BY <1>5 DEF Accept, StopReading, Return, DropPunch, Forget
<1>6. ASSUME NEW c \in Conn, Handle(c)
      PROVE  held'[t] = held[t] /\ todo'[t] = todo[t]
  <2>1. st[c] = "reading" /\ held' = held
    BY <1>6 DEF Handle, PunchHoleRequest, RequestRelay, KeepForAnswer, TestNatRequest, Unknown,
                Register, RelayResponse, PunchAnswer
  <2>2. c # t
    BY <2>1
  <2>3. \A u \in Task : u # c => todo'[u] = todo[u]
    BY <1>6 DEF Handle, PunchHoleRequest, RequestRelay, TestNatRequest, Unknown,
                Register, RelayResponse, PunchAnswer
  <2> QED BY <2>1, <2>2, <2>3
<1>7. CASE UNCHANGED vars
  BY <1>7 DEF vars
<1> QED BY <1>1, <1>2, <1>3, <1>4, <1>5, <1>6, <1>7 DEF Next, SendStep

\* Only these steps change tcp_peers.
LEMMA PeersWriters ==
  ASSUME [Next]_vars, tcp_peers' # tcp_peers
  PROVE  \/ \E t \in Task : TakePeerSink(t) \/ PutBack(t)
         \/ \E c \in Conn : Register(c) \/ Forget(c)
BY DEF Next, vars, SendStep, Handle, FindAnswerSink, Deliver, Accept, StopReading, Return, DropPunch,
       PunchHoleRequest, RequestRelay, KeepForAnswer, TestNatRequest, Unknown, RelayResponse, PunchAnswer

\* However sends, registrations and closings of connections that share keys
\* overlap, a placeholder in tcp_peers has a send that will replace it.
THEOREM PlaceholdersHeld == Spec => []PlaceholderHasHolder
<1>1. Init => PlaceholderHasHolder
  BY DEF Init, PlaceholderHasHolder, Absent, Closed
<1>2. TypeOK /\ PlaceholderHasHolder /\ [Next]_vars => PlaceholderHasHolder'
  <2> SUFFICES ASSUME TypeOK, PlaceholderHasHolder, [Next]_vars,
                      NEW a \in Addr, tcp_peers'[a] = Closed
               PROVE  \E t \in Task : held'[t] # NoConn /\ Head(todo'[t]).to = a
    BY DEF PlaceholderHasHolder
  <2> USE EntryAssumption, NoConnAssumption DEF Absent, Closed
  <2>1. CASE tcp_peers[a] = Closed
    <3>1. PICK t \in Task : held[t] # NoConn /\ Head(todo[t]).to = a
      BY <2>1 DEF PlaceholderHasHolder
    <3>2. ~PutBack(t)
      BY <2>1, <3>1 DEF PutBack, TypeOK
    <3> QED BY <3>1, <3>2, HolderStays
  <2>2. CASE tcp_peers[a] # Closed
    <3>1. ASSUME NEW t \in Task, TakePeerSink(t)
          PROVE  held'[t] # NoConn /\ Head(todo'[t]).to = a
      BY <2>2, <3>1 DEF TakePeerSink, TypeOK
    <3>2. ASSUME NEW t \in Task, PutBack(t)
          PROVE  FALSE
      BY <2>2, <3>2 DEF PutBack, TypeOK
    <3>3. ASSUME NEW c \in Conn, Register(c)
          PROVE  FALSE
      BY <2>2, <3>3 DEF Register, TypeOK
    <3>4. ASSUME NEW c \in Conn, Forget(c)
          PROVE  FALSE
      BY <2>2, <3>4 DEF Forget, TypeOK
    <3> QED BY <2>2, <3>1, <3>2, <3>3, <3>4, PeersWriters
  <2> QED BY <2>1, <2>2
<1> QED BY <1>1, <1>2, TypeCorrect, PTL DEF Spec

-----------------------------------------------------------------------------
\* Where a sink may be: in tcp_punch under its own key while its connection is
\* open and does not own it, in tcp_peers under its own key, or with a task
\* that pushes to that key.
PunchHome == \A a \in Addr, c \in Conn : tcp_punch[a] = c => AddrOf[c] = a /\ c \notin own /\ Live(c)
PeersHome == \A a \in Addr, c \in Conn : tcp_peers[a] = c => AddrOf[c] = a
HeldHome == \A t \in Task, c \in Conn : held[t] = c => Head(todo[t]).to = AddrOf[c]

Open(c) == Live(c) \/ st[c] = "forgetting"

PeersOpen == \A a \in Addr : tcp_peers[a] # Absent => \E c \in Conn : AddrOf[c] = a /\ Open(c)

\* A connection leaves the open places by forget_tcp_peer only, and the ones
\* before the clean-up by its first step only.
LEMMA OpenUntilForget ==
  ASSUME TypeOK, [Next]_vars, NEW c \in Conn
  PROVE  /\ Open(c) => Forget(c) \/ Open(c)'
         /\ Live(c) => DropPunch(c) \/ Live(c)'
<1> USE DEF TypeOK, Open, Live
<1>1. ASSUME NEW t \in Task, SendStep(t)
      PROVE  st' = st
  BY <1>1 DEF SendStep, FindAnswerSink, TakePeerSink, PutBack
<1>2. ASSUME NEW a \in Addr, Deliver(a)
      PROVE  st' = st
  BY <1>2 DEF Deliver
<1>3. ASSUME NEW d \in Conn, Accept(d) \/ StopReading(d) \/ Return(d)
      PROVE  Live(d)' /\ \A e \in Conn : e # d => st'[e] = st[e]
  BY <1>3 DEF Accept, StopReading, Return
<1>4. ASSUME NEW d \in Conn, Handle(d)
      PROVE  Live(d)' /\ \A e \in Conn : e # d => st'[e] = st[e]
  BY <1>4 DEF Handle, PunchHoleRequest, RequestRelay, TestNatRequest, Unknown, Register,
              RelayResponse, PunchAnswer
<1>5. ASSUME NEW d \in Conn, DropPunch(d)
      PROVE  st'[d] = "forgetting" /\ \A e \in Conn : e # d => st'[e] = st[e]
  BY <1>5 DEF DropPunch
<1>6. ASSUME NEW d \in Conn, Forget(d)
      PROVE  st[d] = "forgetting" /\ \A e \in Conn : e # d => st'[e] = st[e]
  BY <1>6 DEF Forget
<1>7. CASE st' = st
  BY <1>7
<1>8. CASE \E d \in Conn : Accept(d) \/ StopReading(d) \/ Return(d) \/ Handle(d)
  BY <1>3, <1>4, <1>8
<1>9. CASE \E d \in Conn : DropPunch(d)
  BY <1>5, <1>9
<1>10. CASE \E d \in Conn : Forget(d)
  BY <1>6, <1>10
<1> QED BY <1>1, <1>2, <1>7, <1>8, <1>9, <1>10 DEF Next, vars

\* A sink in tcp_punch is that of an open connection with that key, which no
\* longer owns it.
LEMMA PunchHomeHolds ==
  ASSUME TypeOK, PunchHome, [Next]_vars
  PROVE  PunchHome'
<1> SUFFICES ASSUME NEW a \in Addr, NEW c \in Conn, tcp_punch'[a] = c
             PROVE  AddrOf[c] = a /\ c \notin own' /\ Live(c)'
  BY DEF PunchHome
<1> USE AddrOfAssumption, NoConnAssumption DEF TypeOK
<1>1. CASE tcp_punch[a] = c
  <2>1. AddrOf[c] = a /\ c \notin own /\ Live(c)
    BY <1>1 DEF PunchHome
  <2>2. ~DropPunch(c)
    BY <1>1, <2>1 DEF DropPunch
  <2>3. c \notin own'
    <3>1. CASE \E d \in Conn : Accept(d)
      BY <2>1, <3>1 DEF Accept, Live
    <3>2. CASE ~\E d \in Conn : Accept(d)
      <4>1. own' \subseteq own
        BY <3>2 DEF Next, vars, SendStep, Handle, FindAnswerSink, TakePeerSink, PutBack, Deliver,
                    StopReading, Return, DropPunch, Forget, PunchHoleRequest, RequestRelay,
                    KeepForAnswer, TestNatRequest, Unknown, Register, RelayResponse, PunchAnswer
      <4> QED BY <2>1, <4>1
    <3> QED BY <3>1, <3>2
  <2> QED BY <2>1, <2>2, <2>3, OpenUntilForget
<1>2. CASE tcp_punch[a] # c
  <2>1. ASSUME NEW t \in Task, FindAnswerSink(t)
        PROVE  FALSE
    BY <1>2, <2>1 DEF FindAnswerSink
  <2>2. ASSUME NEW d \in Conn, DropPunch(d)
        PROVE  FALSE
    BY <1>2, <2>2 DEF DropPunch
  <2>3. ASSUME NEW d \in Conn, PunchHoleRequest(d) \/ RequestRelay(d)
        PROVE  AddrOf[c] = a /\ c \notin own' /\ Live(c)'
    <3>1. d = c /\ AddrOf[d] = a /\ own' = own \ {d}
      BY <1>2, <2>3 DEF PunchHoleRequest, RequestRelay, KeepForAnswer
    <3>2. Live(d)'
      BY <2>3 DEF PunchHoleRequest, RequestRelay, Live
    <3> QED BY <3>1, <3>2
  <2>4. \/ \E t \in Task : FindAnswerSink(t)
        \/ \E d \in Conn : DropPunch(d) \/ PunchHoleRequest(d) \/ RequestRelay(d)
    BY <1>2 DEF Next, vars, SendStep, Handle, TakePeerSink, PutBack, Deliver, Accept,
                StopReading, Return, Forget, TestNatRequest, Unknown, Register, RelayResponse,
                PunchAnswer
  <2> QED BY <2>1, <2>2, <2>3, <2>4
<1> QED BY <1>1, <1>2

\* An entry of tcp_peers belongs to an address with an open connection.
LEMMA PeersOpenHolds ==
  ASSUME TypeOK, PeersOpen, [Next]_vars
  PROVE  PeersOpen'
<1> SUFFICES ASSUME NEW a \in Addr, tcp_peers'[a] # Absent
             PROVE  \E c \in Conn : AddrOf[c] = a /\ Open(c)'
  BY DEF PeersOpen
<1> USE AddrOfAssumption, EntryAssumption, NoConnAssumption DEF TypeOK, Absent, Closed
<1>1. CASE tcp_peers[a] # Absent
  <2>1. PICK c \in Conn : AddrOf[c] = a /\ Open(c)
    BY <1>1 DEF PeersOpen
  <2>2. ~Forget(c)
    BY <2>1 DEF Forget
  <2> QED BY <2>1, <2>2, OpenUntilForget
<1>2. CASE tcp_peers[a] = Absent
  <2>1. ASSUME NEW t \in Task, TakePeerSink(t) \/ PutBack(t)
        PROVE  FALSE
    BY <1>2, <2>1 DEF TakePeerSink, PutBack
  <2>2. ASSUME NEW c \in Conn, Register(c)
        PROVE  AddrOf[c] = a /\ Open(c)'
    BY <1>2, <2>2 DEF Register, Open, Live
  <2>3. ASSUME NEW c \in Conn, Forget(c)
        PROVE  FALSE
    BY <1>2, <2>3 DEF Forget
  <2> QED BY <1>2, <2>1, <2>2, <2>3, PeersWriters
<1> QED BY <1>1, <1>2

\* Neither map outlives the connections of an address, whatever sends are under
\* way when the last of them is closed.
THEOREM MapsShrink == Spec => []NothingOutlivesConnections
<1>1. Init => PunchHome /\ PeersOpen
  BY NoConnAssumption DEF Init, PunchHome, PeersOpen
<1>2. TypeOK /\ PunchHome /\ PeersOpen /\ [Next]_vars => PunchHome' /\ PeersOpen'
  BY PunchHomeHolds, PeersOpenHolds
<1>3. TypeOK /\ PunchHome /\ PeersOpen => NothingOutlivesConnections
  BY DEF TypeOK, PunchHome, PeersOpen, Open, NothingOutlivesConnections
<1> QED BY <1>1, <1>2, <1>3, TypeCorrect, PTL DEF Spec

\* A sink in tcp_peers, or taken out of it by a push, goes by its own key.
LEMMA PeersHomeHolds ==
  ASSUME TypeOK, PeersHome, HeldHome, [Next]_vars
  PROVE  PeersHome' /\ HeldHome'
<1> USE AddrOfAssumption, EntryAssumption, NoConnAssumption DEF TypeOK, Absent, Closed
<1>1. PeersHome'
  <2> SUFFICES ASSUME NEW a \in Addr, NEW c \in Conn, tcp_peers'[a] = c, tcp_peers[a] # c
               PROVE  AddrOf[c] = a
    BY DEF PeersHome
  <2>1. ASSUME NEW t \in Task, TakePeerSink(t)
        PROVE  FALSE
    BY <2>1 DEF TakePeerSink
  <2>2. ASSUME NEW t \in Task, PutBack(t)
        PROVE  AddrOf[c] = a
    BY <2>2 DEF PutBack, HeldHome
  <2>3. ASSUME NEW d \in Conn, Register(d)
        PROVE  AddrOf[c] = a
    BY <2>3 DEF Register
  <2>4. ASSUME NEW d \in Conn, Forget(d)
        PROVE  FALSE
    BY <2>4 DEF Forget
  <2> QED BY <2>1, <2>2, <2>3, <2>4, PeersWriters
<1>2. HeldHome'
  <2> SUFFICES ASSUME NEW t \in Task, NEW c \in Conn, held'[t] = c
               PROVE  Head(todo'[t]).to = AddrOf[c]
    BY DEF HeldHome
  <2>1. CASE held[t] # NoConn
    <3>1. ~PutBack(t)
      BY DEF PutBack
    <3> QED BY <2>1, <3>1, HolderStays DEF HeldHome
  <2>2. CASE held[t] = NoConn
    <3>1. TakePeerSink(t)
      BY <2>2 DEF Next, vars, SendStep, Handle, FindAnswerSink, TakePeerSink, PutBack, Deliver,
                  Accept, StopReading, Return, DropPunch, Forget, PunchHoleRequest, RequestRelay,
                  KeepForAnswer, TestNatRequest, Unknown, Register, RelayResponse, PunchAnswer
    <3>2. Head(todo[t]).to \in Addr
      <4>1. todo[t] \in Seq(Send) /\ todo[t] # <<>>
        BY <3>1 DEF TakePeerSink
      <4> QED BY <4>1, RestOfProgram
    <3>3. todo' = todo /\ held' = [held EXCEPT ![t] = tcp_peers[Head(todo[t]).to]]
      BY <2>2, <3>1 DEF TakePeerSink
    <3> QED BY <3>2, <3>3 DEF PeersHome
  <2> QED BY <2>1, <2>2
<1> QED BY <1>1, <1>2

\* A connection that has its key to itself keeps its sink, wherever requests and
\* sends move it, until it leaves or an answer uses the sink up.
LEMMA SinkStays ==
  ASSUME TypeOK, PunchHome, HeldHome, [Next]_vars,
         NEW c \in Conn, Alone(c), Live(c), Live(c)', c \notin answered', HasSink(c)
  PROVE  HasSink(c)'
<1> USE AddrOfAssumption, EntryAssumption, NoConnAssumption DEF TypeOK, Absent, Closed, Alone
<1> DEFINE a == AddrOf[c]
<1>1. ~DropPunch(c) /\ ~Forget(c)
  BY DEF DropPunch, Forget, Live
<1>2. CASE c \in own
  <2>1. CASE c \in own'
    BY <2>1 DEF HasSink
  <2>2. CASE c \notin own'
    <3>1. PunchHoleRequest(c) \/ RequestRelay(c) \/ Register(c)
      <4>1. \E d \in Conn : Accept(d) \/ PunchHoleRequest(d) \/ RequestRelay(d) \/ Register(d) \/ Forget(d)
        BY <1>2, <2>2 DEF Next, vars, SendStep, Handle, FindAnswerSink, TakePeerSink, PutBack,
             Deliver, StopReading, Return, DropPunch, TestNatRequest, Unknown, RelayResponse,
             PunchAnswer
      <4>2. ASSUME NEW d \in Conn, Accept(d)
            PROVE  FALSE
        BY <1>2, <2>2, <4>2 DEF Accept
      <4>3. ASSUME NEW d \in Conn, PunchHoleRequest(d) \/ RequestRelay(d) \/ Register(d) \/ Forget(d)
            PROVE  d = c
        BY <1>2, <2>2, <4>3 DEF PunchHoleRequest, RequestRelay, KeepForAnswer, Register, Forget
      <4> QED BY <1>1, <4>1, <4>2, <4>3
    <3>2. CASE PunchHoleRequest(c) \/ RequestRelay(c)
      <4>1. tcp_punch'[a] = c
        BY <1>2, <3>2 DEF PunchHoleRequest, RequestRelay, KeepForAnswer
      <4> QED BY <4>1 DEF HasSink
    <3>3. CASE Register(c)
      <4>1. tcp_peers'[a] = c
        BY <1>2, <3>3 DEF Register
      <4> QED BY <4>1 DEF HasSink
    <3> QED BY <3>1, <3>2, <3>3
  <2> QED BY <2>1, <2>2
<1>3. CASE tcp_punch[a] = c
  <2>1. CASE tcp_punch'[a] = c
    BY <2>1 DEF HasSink
  <2>2. CASE tcp_punch'[a] # c
    <3>1. \/ \E t \in Task : FindAnswerSink(t)
          \/ \E d \in Conn : DropPunch(d) \/ PunchHoleRequest(d) \/ RequestRelay(d)
      BY <1>3, <2>2 DEF Next, vars, SendStep, Handle, TakePeerSink, PutBack, Deliver, Accept,
           StopReading, Return, Forget, TestNatRequest, Unknown, Register, RelayResponse, PunchAnswer
    <3>2. ASSUME NEW t \in Task, FindAnswerSink(t)
          PROVE  FALSE
      BY <1>3, <2>2, <3>2 DEF FindAnswerSink
    <3>3. ASSUME NEW d \in Conn, DropPunch(d)
          PROVE  FALSE
      BY <1>1, <1>3, <2>2, <3>3 DEF DropPunch
    <3>4. ASSUME NEW d \in Conn, PunchHoleRequest(d) \/ RequestRelay(d)
          PROVE  FALSE
      BY <1>3, <2>2, <3>4 DEF PunchHoleRequest, RequestRelay, KeepForAnswer
    <3> QED BY <3>1, <3>2, <3>3, <3>4
  <2> QED BY <2>1, <2>2
<1>4. CASE tcp_peers[a] = c \/ (tcp_peers[a] = Closed /\ \E t \in Task : held[t] = c /\ Head(todo[t]).to = a)
  <2>1. ASSUME NEW t \in Task, TakePeerSink(t)
        PROVE  HasSink(c)'
    <3>1. CASE tcp_peers[a] = c /\ Head(todo[t]).to = a
      BY <2>1, <3>1 DEF TakePeerSink, HasSink
    <3>2. CASE tcp_peers[a] = c /\ Head(todo[t]).to # a
      BY <2>1, <3>2 DEF TakePeerSink, HasSink
    <3>3. ASSUME tcp_peers[a] = Closed, NEW u \in Task, held[u] = c, Head(todo[u]).to = a
          PROVE  HasSink(c)'
      <4>1. tcp_peers'[a] = Closed
        BY <2>1, <3>3 DEF TakePeerSink
      <4>2. ~PutBack(u)
        BY <2>1, <4>1, <3>3 DEF PutBack
      <4>3. held'[u] = c /\ Head(todo'[u]).to = a
        BY <3>3, <4>2, HolderStays
      <4> QED BY <4>1, <4>3 DEF HasSink
    <3> QED BY <1>4, <3>1, <3>2, <3>3
  <2>2. ASSUME NEW t \in Task, PutBack(t)
        PROVE  HasSink(c)'
    <3>1. CASE tcp_peers'[a] = c
      BY <3>1 DEF HasSink
    <3>2. CASE tcp_peers'[a] # c
      <4>1. tcp_peers[a] = Closed
        BY <1>4, <2>2, <3>2 DEF PutBack
      <4>2. Head(todo[t]).to # a
        BY <2>2, <3>2, <4>1 DEF PutBack, HeldHome
      <4>3. PICK u \in Task : held[u] = c /\ Head(todo[u]).to = a
        BY <1>4, <4>1
      <4>4. tcp_peers'[a] = Closed
        BY <2>2, <4>1, <4>2 DEF PutBack
      <4>5. ~PutBack(u)
        BY <4>3, <4>1, <4>4 DEF PutBack
      <4> QED BY <4>3, <4>4, <4>5, HolderStays DEF HasSink
    <3> QED BY <3>1, <3>2
  <2>3. ASSUME NEW d \in Conn, Register(d), tcp_peers'[a] # tcp_peers[a]
        PROVE  HasSink(c)'
    BY <2>3 DEF Register, HasSink
  <2>4. ASSUME NEW d \in Conn, Forget(d)
        PROVE  tcp_peers'[a] = tcp_peers[a]
    BY <1>1, <2>4 DEF Forget
  <2>5. CASE tcp_peers'[a] = tcp_peers[a]
    <3>1. CASE tcp_peers[a] = c
      BY <2>5, <3>1 DEF HasSink
    <3>2. ASSUME tcp_peers[a] = Closed, NEW u \in Task, held[u] = c, Head(todo[u]).to = a
          PROVE  HasSink(c)'
      <4>1. ~PutBack(u)
        BY <2>5, <3>2 DEF PutBack
      <4>2. held'[u] = c /\ Head(todo'[u]).to = a
        BY <3>2, <4>1, HolderStays
      <4> QED BY <2>5, <3>2, <4>2 DEF HasSink
    <3> QED BY <1>4, <3>1, <3>2
  <2> QED BY <2>1, <2>2, <2>3, <2>4, <2>5, PeersWriters
<1> QED BY <1>2, <1>3, <1>4 DEF HasSink

\* hbbs can write to every open connection that has its key to itself, unless
\* an answer used its sink up.
THEOREM SinkKept == Spec => []SinkNotLost
<1>1. Init => PunchHome /\ PeersHome /\ HeldHome /\ SinkNotLost
  <2> SUFFICES ASSUME Init PROVE PunchHome /\ PeersHome /\ HeldHome /\ SinkNotLost
    OBVIOUS
  <2>1. PeersHome
    BY EntryAssumption DEF Init, PeersHome, Absent
  <2>2. PunchHome /\ HeldHome
    BY NoConnAssumption DEF Init, PunchHome, HeldHome
  <2> QED BY <2>1, <2>2 DEF Init, SinkNotLost, Live
<1>2. TypeOK /\ PunchHome /\ PeersHome /\ HeldHome /\ SinkNotLost /\ [Next]_vars => SinkNotLost'
  <2> SUFFICES ASSUME TypeOK, PunchHome, PeersHome, HeldHome, SinkNotLost, [Next]_vars,
                      NEW c \in Conn, Alone(c), Live(c)', c \notin answered'
               PROVE  HasSink(c)'
    BY DEF SinkNotLost, Alone
  <2>1. CASE Live(c)
    <3>1. answered \subseteq answered'
      BY DEF Next, vars, SendStep, Handle, FindAnswerSink, TakePeerSink, PutBack, Deliver, Accept,
             StopReading, Return, DropPunch, Forget, PunchHoleRequest, RequestRelay, KeepForAnswer,
             TestNatRequest, Unknown, Register, RelayResponse, PunchAnswer
    <3> QED BY <2>1, <3>1, SinkStays DEF SinkNotLost
  <2>2. CASE ~Live(c)
    <3>1. Accept(c)
      <4>1. st[c] \in Place /\ st'[c] # st[c]
        BY <2>2 DEF TypeOK, Live
      <4>2. \A d \in Conn : st'[d] # st[d] /\ ~Accept(d) => Live(d) \/ st[d] = "forgetting"
        BY DEF Next, vars, SendStep, Handle, FindAnswerSink, TakePeerSink, PutBack, Deliver, Accept,
               StopReading, Return, DropPunch, Forget, PunchHoleRequest, RequestRelay, KeepForAnswer,
               TestNatRequest, Unknown, Register, RelayResponse, PunchAnswer, Live, TypeOK
      <4>3. Forget(c) => ~Live(c)'
        BY DEF Forget, Live, TypeOK
      <4>4. st[c] = "forgetting" /\ st'[c] # st[c] => Forget(c)
        BY DEF Next, vars, SendStep, Handle, FindAnswerSink, TakePeerSink, PutBack, Deliver, Accept,
               StopReading, Return, DropPunch, Forget, PunchHoleRequest, RequestRelay, KeepForAnswer,
               TestNatRequest, Unknown, Register, RelayResponse, PunchAnswer, TypeOK
      <4> QED BY <2>2, <4>1, <4>2, <4>3, <4>4
    <3> QED BY <3>1 DEF Accept, HasSink
  <2> QED BY <2>1, <2>2
<1> QED BY <1>1, <1>2, PunchHomeHolds, PeersHomeHolds, TypeCorrect, PTL DEF Spec

-----------------------------------------------------------------------------
\* A connection that registered and has its key to itself has an entry, its sink
\* or the placeholder of a send, until forget_tcp_peer.
EntryKept ==
  \A c \in Conn : Alone(c) /\ c \in registered /\ st[c] # "closed" => tcp_peers[AddrOf[c]] # Absent

LEMMA ClosedForGood ==
  ASSUME TypeOK, [Next]_vars, NEW c \in Conn, st[c] = "closed"
  PROVE  st'[c] = "closed"
BY DEF Next, vars, SendStep, Handle, FindAnswerSink, TakePeerSink, PutBack, Deliver, Accept,
       StopReading, Return, DropPunch, Forget, PunchHoleRequest, RequestRelay, KeepForAnswer,
       TestNatRequest, Unknown, Register, RelayResponse, PunchAnswer, TypeOK

\* An entry is taken away by forget_tcp_peer of its address alone.
LEMMA EntryStays ==
  ASSUME TypeOK, [Next]_vars, NEW a \in Addr, tcp_peers[a] # Absent,
         \A c \in Conn : Forget(c) => AddrOf[c] # a
  PROVE  tcp_peers'[a] # Absent
<1> USE AddrOfAssumption, EntryAssumption, NoConnAssumption DEF TypeOK, Absent, Closed
<1>1. ASSUME NEW t \in Task, TakePeerSink(t)
      PROVE  tcp_peers'[a] # Absent
  BY <1>1 DEF TakePeerSink
<1>2. ASSUME NEW t \in Task, PutBack(t)
      PROVE  tcp_peers'[a] # Absent
  <2>1. held[t] \in Conn
    BY <1>2 DEF PutBack
  <2> QED BY <1>2, <2>1 DEF PutBack
<1>3. ASSUME NEW c \in Conn, Register(c)
      PROVE  tcp_peers'[a] # Absent
  BY <1>3 DEF Register
<1>4. ASSUME NEW c \in Conn, Forget(c)
      PROVE  tcp_peers'[a] # Absent
  BY <1>4 DEF Forget
<1> QED BY <1>1, <1>2, <1>3, <1>4, PeersWriters

LEMMA EntryKeptHolds ==
  ASSUME TypeOK, EntryKept, [Next]_vars
  PROVE  EntryKept'
<1> SUFFICES ASSUME NEW c \in Conn, Alone(c), c \in registered', st'[c] # "closed"
             PROVE  tcp_peers'[AddrOf[c]] # Absent
  BY DEF EntryKept, Alone
<1> USE AddrOfAssumption, EntryAssumption
<1>1. CASE c \in registered
  <2>1. tcp_peers[AddrOf[c]] # Absent
    BY <1>1, ClosedForGood DEF EntryKept
  <2>2. ~Forget(c)
    BY DEF Forget, Goto, TypeOK
  <2> QED BY <2>1, <2>2, EntryStays DEF Alone
<1>2. CASE c \notin registered
  <2>1. PICK d \in Conn : Register(d) /\ registered' # registered
    BY <1>2 DEF Next, vars, SendStep, Handle, FindAnswerSink, TakePeerSink, PutBack, Deliver,
                Accept, StopReading, Return, DropPunch, Forget, PunchHoleRequest, RequestRelay,
                KeepForAnswer, TestNatRequest, Unknown, RelayResponse, PunchAnswer
  <2> QED BY <1>2, <2>1 DEF Register, TypeOK, Absent
<1> QED BY <1>1, <1>2

\* A one-shot request on a registered connection never ends it, even while a send
\* has its sink: is_tcp_peer finds the sink or its placeholder.
THEOREM RegisteredKept == Spec => KeepsRegistered
<1>1. Init => EntryKept
  BY DEF Init, EntryKept
<1>2. ASSUME TypeOK, EntryKept, [Next]_vars, NEW c \in Conn,
             Alone(c), c \in registered, st[c] = "oneshot"
      PROVE  st'[c] # "leaving"
  <2>1. tcp_peers[AddrOf[c]] # Absent
    BY <1>2 DEF EntryKept
  <2>2. Return(c) \/ st'[c] = st[c]
    BY <1>2 DEF Next, vars, SendStep, Handle, FindAnswerSink, TakePeerSink, PutBack, Deliver,
                Accept, StopReading, DropPunch, Forget, PunchHoleRequest, RequestRelay,
                KeepForAnswer, TestNatRequest, Unknown, Register, RelayResponse, PunchAnswer,
                TypeOK, Return
  <2> QED BY <1>2, <2>1, <2>2 DEF Return, TypeOK
<1>3. TypeOK /\ EntryKept /\ [Next]_vars
        => [\A c \in Conn : Alone(c) /\ c \in registered /\ st[c] = "oneshot" => st'[c] # "leaving"]_vars
  BY <1>2
<1> QED BY <1>1, <1>3, EntryKeptHolds, TypeCorrect, PTL DEF Spec, KeepsRegistered
=============================================================================
