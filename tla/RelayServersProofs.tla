-------------------------- MODULE RelayServersProofs --------------------------
(* Proofs about RelayServers, for every list, number of checks and commands. *)
EXTENDS RelayServers, TLAPS

LEMMA MessageKinds ==
  ASSUME NEW m \in Configure \cup Report
  PROVE  /\ m.list \in SUBSET Server
         /\ m.kind = "report" => m.list # {} /\ m.epoch \in Nat
BY DEF Configure, Report

LEMMA ReportMade ==
  ASSUME NEW list \in SUBSET Server, list # {}, NEW e \in Nat
  PROVE  [kind |-> "report", list |-> list, epoch |-> e] \in Configure \cup Report
<1>1. list \in (SUBSET Server) \ {{}}
  OBVIOUS
<1> QED BY <1>1 DEF Report

\* What a message becomes and where it is after Append and Tail.
LEMMA ChannelSteps ==
  ASSUME NEW S, NEW q \in Seq(S), NEW m \in S
  PROVE  /\ Append(q, m) \in Seq(S)
         /\ \A i \in 1..Len(Append(q, m)) :
              Append(q, m)[i] = m \/ (i \in 1..Len(q) /\ Append(q, m)[i] = q[i])
         /\ q # <<>> =>
              /\ Head(q) \in S /\ Head(q) = q[1] /\ 1 \in 1..Len(q)
              /\ Tail(q) \in Seq(S)
              /\ \A i \in 1..Len(Tail(q)) : i + 1 \in 1..Len(q) /\ Tail(q)[i] = q[i + 1]
<1>1. Append(q, m) \in Seq(S) /\ Len(Append(q, m)) = Len(q) + 1
  OBVIOUS
<1>2. \A i \in 1..Len(Append(q, m)) :
        Append(q, m)[i] = m \/ (i \in 1..Len(q) /\ Append(q, m)[i] = q[i])
  BY <1>1
<1>3. ASSUME q # <<>>
      PROVE  /\ Head(q) \in S /\ Head(q) = q[1] /\ 1 \in 1..Len(q)
             /\ Tail(q) \in Seq(S) /\ Len(Tail(q)) = Len(q) - 1
  BY <1>3
<1>4. ASSUME q # <<>>, NEW i \in 1..Len(Tail(q))
      PROVE  i + 1 \in 1..Len(q) /\ Tail(q)[i] = q[i + 1]
  BY <1>3, <1>4
<1> QED BY <1>1, <1>2, <1>3, <1>4

\* Every state of the relay list has its type (relay.rs, io.rs:20-37).
THEOREM TypeCorrect == Spec => []TypeOK
<1>1. Init => TypeOK
  <2> SUFFICES ASSUME Init PROVE TypeOK
    OBVIOUS
  <2>1. relay_servers0 \in SUBSET Server
    BY ConfigAssumption DEF Init, Resolved
  <2>2. probing \in [Check -> SUBSET Server] /\ since \in [Check -> Nat] /\ epoch \in Nat
        /\ commands \in Nat /\ channel \in Seq(Configure \cup Report)
    BY DEF Init, Idle
  <2>3. late \in BOOLEAN /\ always_use_relay \in BOOLEAN
    BY DEF Init
  <2> QED BY <2>1, <2>2, <2>3, Zenon DEF Init, TypeOK
<1>2. TypeOK /\ [Next]_vars => TypeOK'
  <2> SUFFICES ASSUME TypeOK, [Next]_vars PROVE TypeOK'
    OBVIOUS
  <2>1. ASSUME NEW list \in Config, SetRelayServers(list) PROVE TypeOK'
    <3>1. [kind |-> "configure", list |-> list] \in Configure \cup Report
      BY ConfigAssumption DEF Configure
    <3> QED BY <2>1, <3>1 DEF TypeOK, SetRelayServers, Command, Send, lists, history
  <2>2. ASSUME NEW on \in BOOLEAN, AlwaysUseRelay(on) PROVE TypeOK'
    <3>1. [kind |-> "configure", list |-> {}] \in Configure \cup Report
      BY DEF Configure
    <3> QED BY <2>2, <3>1 DEF TypeOK, AlwaysUseRelay, Command, Send, lists, history
  <2>3. ASSUME NEW k \in Check, Tick(k) PROVE TypeOK'
    BY <2>3 DEF TypeOK, Tick, lists, console, history
  <2>4. ASSUME NEW k \in Check, NEW reached \in SUBSET Server, CheckEnds(k, reached)
        PROVE  TypeOK'
    <3>1. reached # {} =>
            [kind |-> "report", list |-> reached, epoch |-> since[k]] \in Configure \cup Report
      BY ReportMade DEF TypeOK
    <3> DEFINE m == [kind |-> "report", list |-> reached, epoch |-> since[k]]
    <3>2. channel' \in Seq(Configure \cup Report)
      <4>1. channel' = channel \/ (reached # {} /\ channel' = Append(channel, m))
        BY <2>4 DEF CheckEnds, Send
      <4>2. reached # {} => m \in Configure \cup Report BY <3>1
      <4> HIDE DEF m
      <4> QED BY <4>1, <4>2, ChannelSteps DEF TypeOK
    <3> QED BY <2>4, <3>2 DEF TypeOK, CheckEnds, Idle, lists, console, history
  <2>5. CASE Receive
    <3> DEFINE m == Head(channel)
    <3>1. m \in Configure \cup Report /\ Tail(channel) \in Seq(Configure \cup Report)
      BY <2>5 DEF TypeOK, Receive
    <3>2. CASE m.kind = "report"
      <4>1. TakeReport(m) BY <2>5, <3>2 DEF Receive
      <4>2. m.list \in SUBSET Server BY <3>1, MessageKinds
      <4>3. late' \in BOOLEAN BY <4>1 DEF TakeReport
      <4> QED BY <2>5, <3>1, <4>1, <4>2, <4>3 DEF TypeOK, Receive, TakeReport, console
    <3>3. CASE m.kind # "report"
      <4>1. PICK list \in Resolved(m.list) : Parse(list) BY <2>5, <3>3 DEF Receive
      <4>2. list \in SUBSET Server BY <3>1, <4>1, MessageKinds DEF Resolved
      <4>3. late' \in BOOLEAN BY <4>1 DEF Parse
      <4>4. epoch' \in Nat BY <4>1 DEF TypeOK, Parse
      <4> QED BY <2>5, <3>1, <4>1, <4>2, <4>3, <4>4
              DEF TypeOK, Receive, Parse, console
    <3> QED BY <3>2, <3>3
  <2>6. CASE UNCHANGED vars
    BY <2>6 DEF TypeOK, vars, lists, console, history
  <2> QED BY <2>1, <2>2, <2>3, <2>4, <2>5, <2>6 DEF Next
<1> QED BY <1>1, <1>2, PTL DEF Spec

-----------------------------------------------------------------------------

\* A running check that began since the list was configured is of that list.
ChecksOfEpoch ==
  \A k \in Check : since[k] <= epoch /\ (since[k] = epoch => probing[k] \subseteq relay_servers0)

\* So is a report that waits.
ReportsOfEpoch ==
  \A i \in 1..Len(channel) : channel[i].kind = "report" =>
    /\ channel[i].epoch <= epoch
    /\ channel[i].epoch = epoch => channel[i].list \subseteq relay_servers0

ListInv == CheckNeverEmpties /\ StaleOnlyByLateReport /\ ChecksOfEpoch /\ ReportsOfEpoch

LEMMA ListInvInductive == TypeOK /\ ListInv /\ [Next]_vars => ListInv'
<1> SUFFICES ASSUME TypeOK, ListInv, [Next]_vars PROVE ListInv'
  OBVIOUS
<1> USE DEF ListInv
<1> DEFINE M == Configure \cup Report
<1>1. ASSUME NEW m \in M, m.kind # "report", Command, Send(m) PROVE ListInv'
  <2>1. ReportsOfEpoch'
    BY <1>1, ChannelSteps DEF TypeOK, ReportsOfEpoch, Send, Command, lists, history
  <2>2. CheckNeverEmpties' /\ StaleOnlyByLateReport' /\ ChecksOfEpoch'
    BY <1>1 DEF CheckNeverEmpties, StaleOnlyByLateReport, ChecksOfEpoch, Command, lists, history
  <2> QED BY <2>1, <2>2
<1>2. ASSUME NEW list \in Config, SetRelayServers(list) PROVE ListInv'
  <2>1. [kind |-> "configure", list |-> list] \in M
    BY ConfigAssumption DEF Configure
  <2> QED BY <1>1, <1>2, <2>1 DEF SetRelayServers
<1>3. ASSUME NEW on \in BOOLEAN, AlwaysUseRelay(on) PROVE ListInv'
  <2>1. [kind |-> "configure", list |-> {}] \in M
    BY DEF Configure
  <2> QED BY <1>1, <1>3, <2>1 DEF AlwaysUseRelay
<1>4. ASSUME NEW k \in Check, Tick(k) PROVE ListInv'
  <2>1. ChecksOfEpoch'
    BY <1>4 DEF TypeOK, ChecksOfEpoch, Tick, lists, history
  <2> QED BY <1>4, <2>1
          DEF Tick, CheckNeverEmpties, StaleOnlyByLateReport, ReportsOfEpoch, lists, history
<1>5. ASSUME NEW k \in Check, NEW reached \in SUBSET Server, CheckEnds(k, reached)
      PROVE  ListInv'
  <2> DEFINE m == [kind |-> "report", list |-> reached, epoch |-> since[k]]
  <2>1. ReportsOfEpoch'
    <3>1. CASE reached = {}
      BY <1>5, <3>1 DEF CheckEnds, ReportsOfEpoch, lists, history
    <3>2. CASE reached # {}
      <4>1. m \in M
        BY <3>2, ReportMade DEF TypeOK
      <4>2. m.epoch <= epoch /\ (m.epoch = epoch => m.list \subseteq relay_servers0)
        BY <1>5 DEF CheckEnds, ChecksOfEpoch
      <4>3. channel' = Append(channel, m) /\ UNCHANGED <<epoch, relay_servers0>>
        BY <1>5, <3>2 DEF CheckEnds, Send, lists, history
      <4> QED BY <4>1, <4>2, <4>3, ChannelSteps DEF TypeOK, ReportsOfEpoch
    <3> QED BY <3>1, <3>2
  <2>2. ChecksOfEpoch'
    BY <1>5 DEF TypeOK, ChecksOfEpoch, CheckEnds, Idle, lists, history
  <2> QED BY <1>5, <2>1, <2>2
          DEF CheckEnds, CheckNeverEmpties, StaleOnlyByLateReport, lists, history
<1>6. CASE Receive
  <2> DEFINE m == Head(channel)
  <2>1. /\ m \in M /\ m = channel[1] /\ 1 \in 1..Len(channel)
        /\ channel' = Tail(channel)
        /\ \A i \in 1..Len(channel') : i + 1 \in 1..Len(channel) /\ channel'[i] = channel[i + 1]
    BY <1>6 DEF TypeOK, Receive
  <2>2. CASE m.kind = "report"
    <3>1. TakeReport(m) BY <1>6, <2>2 DEF Receive
    <3>2. m.list # {} BY <2>1, <2>2, MessageKinds
    <3>3. CheckNeverEmpties'
      BY <3>1, <3>2 DEF CheckNeverEmpties, TakeReport
    <3>4. StaleOnlyByLateReport'
      BY <2>1, <2>2, <3>1 DEF StaleOnlyByLateReport, ReportsOfEpoch, TakeReport
    <3>5. ReportsOfEpoch' BY <2>1, <3>1 DEF ReportsOfEpoch, TakeReport
    <3>6. ChecksOfEpoch' BY <1>6, <3>1 DEF ChecksOfEpoch, Receive, TakeReport
    <3> QED BY <3>3, <3>4, <3>5, <3>6
  <2>3. CASE m.kind # "report"
    <3>1. PICK list \in Resolved(m.list) : Parse(list) BY <1>6, <2>3 DEF Receive
    <3>2. CheckNeverEmpties' /\ StaleOnlyByLateReport'
      BY <3>1 DEF CheckNeverEmpties, StaleOnlyByLateReport, Parse
    <3>3. ReportsOfEpoch'
      <4> SUFFICES ASSUME NEW i \in 1..Len(channel'), channel'[i].kind = "report"
                   PROVE  channel'[i].epoch <= epoch' /\ channel'[i].epoch # epoch'
        BY DEF ReportsOfEpoch
      <4>1. channel[i + 1].epoch \in Nat /\ channel[i + 1].epoch <= epoch
        BY <2>1, MessageKinds DEF TypeOK, ReportsOfEpoch
      <4> QED BY <2>1, <3>1, <4>1 DEF TypeOK, Parse
    <3>4. ChecksOfEpoch' BY <1>6, <3>1 DEF TypeOK, ChecksOfEpoch, Receive, Parse
    <3> QED BY <3>2, <3>3, <3>4
  <2> QED BY <2>2, <2>3
<1>7. CASE UNCHANGED vars
  BY <1>7 DEF vars, lists, console, history, CheckNeverEmpties, StaleOnlyByLateReport,
              ChecksOfEpoch, ReportsOfEpoch
<1> QED BY <1>2, <1>3, <1>4, <1>5, <1>6, <1>7 DEF Next

\* A check never leaves hbbs without a relay server, and only the report of a
\* check older than the configured list brings back a server that is not in it
\* (relay.rs:73-76, io.rs:22-36).
THEOREM ListSafe == Spec => [](CheckNeverEmpties /\ StaleOnlyByLateReport)
<1>1. Init => ListInv
  BY DEF Init, ListInv, CheckNeverEmpties, StaleOnlyByLateReport, ChecksOfEpoch,
         ReportsOfEpoch, Idle
<1> QED BY <1>1, TypeCorrect, ListInvInductive, PTL DEF Spec, ListInv
=============================================================================
