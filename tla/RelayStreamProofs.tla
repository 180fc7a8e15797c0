--------------------------- MODULE RelayStreamProofs ---------------------------
(***************************************************************************)
(* What holds of RelayStream for any number of pairs and hosts and for     *)
(* every idle time and period of the timer.                                *)
(***************************************************************************)
EXTENDS RelayStream, TLAPS

-----------------------------------------------------------------------------
(* Types. *)

\* A connection becomes a pair by its own address or by that of a proxy.
PairAsAny(s) ==
  \E address \in Address, id \in Stream \cup Address :
    id \in {s, address} /\ PairAs(s, address, id)

\* The steps of a connection, from its acceptance to the end of its pair.
Own(s) ==
  \/ Arrive(s) \/ Receive(s) \/ Forwarded(s) \/ Ends(s)
  \/ Tick(s) \/ Measure(s) \/ RemoveUsage(s)
  \/ Leave(s) \/ PairAsAny(s)
  \/ \E address \in Address : Accept(s, address)

LEMMA Steps ==
  ASSUME TypeOK, [Next]_vars
  PROVE  \/ \E s \in Stream : Own(s)
         \/ \E addresses \in SUBSET Address : List(addresses)
         \/ Second
         \/ UNCHANGED vars
<1>1. ASSUME NEW s \in Stream, Pair(s) PROVE PairAsAny(s)
  BY <1>1 DEF Pair, PairAs, PairAsAny, TypeOK
<1>2. ASSUME NEW s \in Stream, NEW address \in Address, PairProxied(s, address)
      PROVE PairAsAny(s)
  BY <1>2 DEF PairProxied, PairAsAny
<1> QED
  BY <1>1, <1>2 DEF Next, Own

\* Every state has its type; in particular a relayed pair has an address and a
\* key that is its own or that address.
THEOREM TypeCorrect == Spec => []TypeOK
<1> USE TimeAssumption
<1>1. Init => TypeOK
  BY DEF Init, TypeOK, Place
<1>2. TypeOK /\ [Next]_vars => TypeOK'
  <2> SUFFICES ASSUME TypeOK, [Next]_vars PROVE TypeOK'
    OBVIOUS
  <2> USE DEF TypeOK, Place, Paired, Key, Goto, lists, who, task, history
  <2>1. ASSUME NEW s \in Stream, Arrive(s) PROVE TypeOK'
    BY <2>1 DEF Arrive
  <2>2. ASSUME NEW addresses \in SUBSET Address, List(addresses) PROVE TypeOK'
    BY <2>2 DEF List
  <2>3. ASSUME NEW s \in Stream, NEW address \in Address, NEW id \in {s, address},
               PairAs(s, address, id)
        PROVE TypeOK'
    BY <2>3 DEF PairAs
  <2>4. ASSUME NEW s \in Stream, Receive(s) PROVE TypeOK'
    BY <2>4 DEF Receive
  <2>5. ASSUME NEW s \in Stream, Forwarded(s) \/ Ends(s) PROVE TypeOK'
    BY <2>5 DEF Forwarded, Ends
  <2>6. ASSUME NEW s \in Stream, Tick(s) PROVE TypeOK'
    BY <2>6 DEF Tick
  <2>7. ASSUME NEW s \in Stream, Measure(s) PROVE TypeOK'
    <3>1. /\ UNCHANGED <<lists, who, idle, due, pending, history>>
          /\ at[s] = "measure"
          /\ at' = [at EXCEPT ![s] = "select"] \/ at' = [at EXCEPT ![s] = "ended"]
          /\ usage' = usage \/ usage' = usage \cup {key[s]}
          /\ blacked' = blacked \/ blacked' = [blacked EXCEPT ![s] = ip[s] \in blacklist]
          /\ since' = since \/ since' = [since EXCEPT ![s] = 0]
      BY <2>7 DEF Measure
    <3>2. key[s] \in Key
      BY <3>1
    <3>3. usage' \subseteq Key /\ at' \in [Stream -> Place] /\ since' \in [Stream -> 0 .. 1]
      BY <3>1, <3>2
    <3>4. blacked' \in [Stream -> BOOLEAN]
      <4> DEFINE inList == ip[s] \in blacklist
      <4>1. inList \in BOOLEAN
        OBVIOUS
      <4>2. blacked' = blacked \/ blacked' = [blacked EXCEPT ![s] = inList]
        BY <3>1
      <4> HIDE DEF inList
      <4> QED
        BY <4>1, <4>2
    <3>5. \A t \in Stream : /\ at'[t] # "over" => ip'[t] \in Address
                            /\ Paired(t)' => key'[t] \in {t, ip'[t]}
      BY <3>1
    <3> QED
      BY <3>1, <3>3, <3>4, <3>5
  <2>8. ASSUME NEW s \in Stream, RemoveUsage(s) PROVE TypeOK'
    BY <2>8 DEF RemoveUsage, Reset
  <2>9. ASSUME Second PROVE TypeOK'
    BY <2>9 DEF Second, AtLeast, AtMost, OldAge, LongSending, LongListed
  <2>10. ASSUME UNCHANGED vars PROVE TypeOK'
    BY <2>10 DEF vars
  <2>11. ASSUME NEW s \in Stream, NEW address \in Address, Accept(s, address) PROVE TypeOK'
    BY <2>11 DEF Accept
  <2>12. ASSUME NEW s \in Stream, Leave(s) PROVE TypeOK'
    BY <2>12 DEF Leave
  <2> QED
    <3> HIDE DEF TypeOK
    <3> QED
      BY Steps, <2>1, <2>2, <2>3, <2>4, <2>5, <2>6, <2>7, <2>8, <2>9, <2>10, <2>11, <2>12
         DEF Own, PairAsAny
<1> QED
  BY <1>1, <1>2, PTL DEF Spec

-----------------------------------------------------------------------------
(* USAGE. *)

\* Every entry of USAGE has a pair that will remove it, and a pair loses its
\* entry only to another of the same proxied address.
THEOREM UsageSafe == Spec => []UsageOfStreams
<1>1. Init => UsageOfStreams
  BY DEF Init, UsageOfStreams, Paired
<1>2. TypeOK /\ UsageOfStreams /\ [Next]_vars => UsageOfStreams'
  <2> SUFFICES ASSUME TypeOK, UsageOfStreams, [Next]_vars PROVE UsageOfStreams'
    OBVIOUS
  <2> USE DEF TypeOK, Place, Paired, Key, Goto, lists, who, task, history
  <2>1. ASSUME NEW s \in Stream, NEW address \in Address, NEW id \in {s, address},
               PairAs(s, address, id)
        PROVE UsageOfStreams'
    <3>1. /\ at' = [at EXCEPT ![s] = "select"] /\ key' = [key EXCEPT ![s] = id]
          /\ usage' = usage \cup {id} /\ at[s] = "accepted"
      BY <2>1 DEF PairAs
    <3>2. ASSUME NEW k \in usage'
          PROVE \E t \in Stream : Paired(t)' /\ key'[t] = k
      <4>1. CASE k = id
        BY <4>1, <3>1
      <4>2. CASE k \in usage
        <5>1. PICK t \in Stream : Paired(t) /\ key[t] = k
          BY <4>2 DEF UsageOfStreams
        <5> QED
          BY <5>1, <3>1
      <4> QED
        BY <4>1, <4>2, <3>1
    <3>3. ASSUME NEW t \in Stream, Paired(t)', key'[t] \notin usage'
          PROVE key'[t] \in Address
      BY <3>1, <3>3 DEF UsageOfStreams
    <3> QED
      BY <3>2, <3>3 DEF UsageOfStreams
  <2>2. ASSUME NEW s \in Stream, RemoveUsage(s) PROVE UsageOfStreams'
    <3>1. /\ at' = [at EXCEPT ![s] = "over"] /\ key' = [key EXCEPT ![s] = Off]
          /\ usage' = usage \ {key[s]} /\ Paired(s)
      BY <2>2 DEF RemoveUsage, Reset
    <3>2. ASSUME NEW k \in usage'
          PROVE \E t \in Stream : Paired(t)' /\ key'[t] = k
      <4>1. PICK t \in Stream : Paired(t) /\ key[t] = k
        BY <3>1 DEF UsageOfStreams
      <4>2. t # s
        BY <4>1, <3>1
      <4> QED
        BY <4>1, <4>2, <3>1
    <3>3. ASSUME NEW t \in Stream, Paired(t)', key'[t] \notin usage'
          PROVE key'[t] \in Address
      <4>1. t # s /\ Paired(t) /\ key'[t] = key[t]
        BY <3>1, <3>3
      <4>2. CASE key[t] \notin usage
        BY <4>1, <4>2 DEF UsageOfStreams
      <4>3. CASE key[t] = key[s]
        \* Two pairs have one key: it is no pair's own.
        <5>1. key[t] \in {t, ip[t]} /\ ip[t] \in Address /\ key[s] \in {s, ip[s]} /\ ip[s] \in Address
          BY <4>1, <3>1
        <5> QED
          BY <5>1, <4>1, <4>3
      <4> QED
        BY <4>1, <4>2, <4>3, <3>1, <3>3
    <3> QED
      BY <3>2, <3>3 DEF UsageOfStreams
  <2>3. ASSUME NEW s \in Stream, Measure(s) PROVE UsageOfStreams'
    <3>1. /\ key' = key /\ Paired(s)
          /\ \A t \in Stream : Paired(t)' <=> Paired(t)
          /\ usage' = usage \/ usage' = usage \cup {key[s]}
      BY <2>3 DEF Measure
    <3> QED
      BY <3>1 DEF UsageOfStreams
  <2>4. ASSUME /\ usage' = usage /\ key' = key
               /\ \A t \in Stream : Paired(t)' <=> Paired(t)
        PROVE UsageOfStreams'
    BY <2>4 DEF UsageOfStreams
  <2>5. ASSUME NEW s \in Stream,
               Arrive(s) \/ Receive(s) \/ Forwarded(s) \/ Ends(s) \/ Tick(s)
        PROVE UsageOfStreams'
    BY <2>4, <2>5 DEF Arrive, Receive, Forwarded, Ends, Tick
  <2>6. ASSUME NEW addresses \in SUBSET Address, List(addresses) PROVE UsageOfStreams'
    BY <2>4, <2>6 DEF List
  <2>7. ASSUME Second PROVE UsageOfStreams'
    BY <2>4, <2>7 DEF Second
  <2>8. ASSUME UNCHANGED vars PROVE UsageOfStreams'
    BY <2>4, <2>8 DEF vars
  <2>9. ASSUME NEW s \in Stream, Leave(s) \/ \E address \in Address : Accept(s, address)
        PROVE UsageOfStreams'
    BY <2>4, <2>9 DEF Accept, Leave
  <2> QED
    <3> HIDE DEF TypeOK
    <3>1. ASSUME NEW s \in Stream, Own(s) PROVE UsageOfStreams'
      BY <2>1, <2>2, <2>3, <2>5, <2>9, <3>1 DEF Own, PairAsAny
    <3> QED
      BY Steps, <3>1, <2>6, <2>7, <2>8
<1> QED
  BY <1>1, <1>2, TypeCorrect, PTL DEF Spec

-----------------------------------------------------------------------------
(* Time. *)

\* A pair that does not exist has not waited for anything.
OverInv(s) ==
  ~Paired(s) => ~pending[s] /\ onBlock[s] = 0 /\ onBlack[s] = 0 /\ due[s] <= 0

\* While a send lasts, and while data waits that came during it, the time since
\* the last data is that of the send.
SendInv(s) ==
  /\ at[s] = "forward" \/ (pending[s] /\ waited[s])
       => sending[s] > IdleMax \/ idle[s] <= sending[s]
  /\ at[s] = "timeout" => idle[s] > IdleMax

\* The next tick is not later than a period after the idle time is over.
IdleInv(s) ==
  /\ due[s] <= Period
  /\ at[s] \in {"select", "forward", "measure"} => due[s] <= 0 \/ idle[s] + due[s] <= IdleMax + Period

\* The next tick is not later than a period after the address came into a list.
BlockInv(s) ==
  /\ onBlock[s] <= Period
  /\ onBlock[s] > 0 => ip[s] \in blocklist /\ since[s] = 1
  /\ at[s] \in {"select", "forward"} => due[s] <= 0 \/ onBlock[s] + due[s] <= Period

BlackInv(s) ==
  blacked[s] \/ /\ onBlack[s] <= Period
                /\ onBlack[s] > 0 => ip[s] \in blacklist /\ since[s] = 1
                /\ at[s] \in {"select", "forward"} => due[s] <= 0 \/ onBlack[s] + due[s] <= Period

TimeInv(s) ==
  /\ OverInv(s) /\ SendInv(s) /\ IdleInv(s) /\ BlockInv(s) /\ BlackInv(s)
  /\ onBlack[s] > 0 => ip[s] \in blacklist

\* What one pair does leaves the others alone.
LEMMA OthersTime ==
  ASSUME NEW t \in Stream, TimeInv(t), UNCHANGED lists,
         at'[t] = at[t], ip'[t] = ip[t], blacked'[t] = blacked[t], idle'[t] = idle[t],
         since'[t] = since[t], due'[t] = due[t], pending'[t] = pending[t],
         waited'[t] = waited[t], sending'[t] = sending[t], onBlock'[t] = onBlock[t],
         onBlack'[t] = onBlack[t]
  PROVE  TimeInv(t)'
BY DEF Paired, TimeInv, OverInv, SendInv, IdleInv, BlockInv, BlackInv, lists

\* No step of a pair breaks its own invariant.
LEMMA OwnTime ==
  ASSUME TypeOK, NEW s \in Stream, TimeInv(s), Own(s)
  PROVE  TimeInv(s)'
<1> USE TimeAssumption, OffAssumption
<1> USE DEF TypeOK, Place, Paired, Goto, lists, who, task, history,
            TimeInv, OverInv, SendInv, IdleInv, BlockInv, BlackInv
<1>1. CASE Arrive(s)
  BY <1>1 DEF Arrive
<1>2. CASE Receive(s)
  BY <1>2 DEF Receive
<1>3. CASE Forwarded(s) \/ Ends(s)
  BY <1>3 DEF Forwarded, Ends
<1>4. CASE Tick(s)
  <2>1. /\ due' = [due EXCEPT ![s] = due[s] + Period] /\ due[s] <= 0 /\ at[s] = "select"
        /\ UNCHANGED <<lists, who, blacked, idle, since, pending, history>>
        /\ at'[s] = IF idle[s] > IdleMax THEN "timeout" ELSE "measure"
    BY <1>4 DEF Tick
  <2> QED
    BY <2>1
<1>5. CASE Measure(s)
  <2>1. /\ at[s] = "measure" /\ at'[s] \in {"select", "ended"}
        /\ UNCHANGED <<lists, who, idle, due, pending, history>>
    BY <1>5 DEF Measure
  <2>2. \/ since' = since /\ blacked' = blacked /\ (since[s] = 0 \/ at'[s] = "ended")
        \/ /\ ip[s] \notin blocklist /\ since'[s] = 0
           /\ blacked'[s] <=> ip[s] \in blacklist
    BY <1>5 DEF Measure
  <2> QED
    BY <2>1, <2>2
<1>6. CASE RemoveUsage(s)
  BY <1>6 DEF RemoveUsage, Reset
<1>7. CASE PairAsAny(s)
  BY <1>7 DEF PairAsAny, PairAs
<1>8. CASE Leave(s) \/ \E address \in Address : Accept(s, address)
  BY <1>8 DEF Leave, Accept
<1> QED
  BY <1>1, <1>2, <1>3, <1>4, <1>5, <1>6, <1>7, <1>8 DEF Own

LEMMA ListTime ==
  ASSUME TypeOK, NEW t \in Stream, TimeInv(t), NEW addresses \in SUBSET Address, List(addresses)
  PROVE  TimeInv(t)'
<1> USE TimeAssumption
<1>1. /\ UNCHANGED <<usage, at, who, task, pending, waited, sending>>
      /\ onBlock'[t] = IF ip[t] \in blocklist' THEN onBlock[t] ELSE 0
      /\ onBlack'[t] = IF ip[t] \in blacklist' THEN onBlack[t] ELSE 0
  BY DEF List
<1> QED
  BY <1>1 DEF TypeOK, Paired, who, task, TimeInv, OverInv, SendInv, IdleInv, BlockInv, BlackInv

\* A second passes only for pairs that wait or send.
LEMMA SecondTime ==
  ASSUME TypeOK, NEW t \in Stream, TimeInv(t), Second
  PROVE  TimeInv(t)'
<1> USE TimeAssumption DEF TypeOK, Place, Paired, lists, who
<1>1. /\ UNCHANGED <<lists, usage, at, who, blacked, pending>>
      /\ at[t] \in {"over", "accepted", "select", "forward"}
      /\ at[t] = "select" => ~pending[t] /\ due[t] > 0
  BY DEF Second, Ready
<1>2. /\ idle'[t] = IF Paired(t) THEN AtMost(idle[t] + 1, OldAge) ELSE idle[t]
      /\ since'[t] = IF Paired(t) THEN 1 ELSE since[t]
      /\ due'[t] = IF Paired(t) THEN AtLeast(due[t] - 1, -MaxLate) ELSE due[t]
      /\ waited'[t] = pending[t]
      /\ sending'[t] = IF at[t] = "forward" THEN AtMost(sending[t] + 1, LongSending)
                       ELSE sending[t]
      /\ onBlock'[t] = IF Selecting(t) /\ ip[t] \in blocklist
                       THEN AtMost(onBlock[t] + 1, LongListed) ELSE onBlock[t]
      /\ onBlack'[t] = IF Selecting(t) /\ ip[t] \in blacklist
                       THEN AtMost(onBlack[t] + 1, LongListed) ELSE onBlack[t]
  BY DEF Second
<1> USE DEF AtMost, AtLeast, Selecting, TimeInv
<1>3. OverInv(t)'
  BY <1>1, <1>2 DEF OverInv
<1>4. SendInv(t)'
  BY <1>1, <1>2 DEF OverInv, SendInv, OldAge, LongSending
<1>5. IdleInv(t)'
  BY <1>1, <1>2 DEF OverInv, IdleInv, OldAge
<1>6. BlockInv(t)'
  BY <1>1, <1>2 DEF OverInv, BlockInv, LongListed
<1>7. BlackInv(t)' /\ (onBlack[t] > 0 => ip[t] \in blacklist)'
  BY <1>1, <1>2 DEF OverInv, BlackInv, LongListed
<1> QED
  BY <1>3, <1>4, <1>5, <1>6, <1>7

AllTime == \A s \in Stream : TimeInv(s)

LEMMA TimeStep == TypeOK /\ AllTime /\ [Next]_vars => AllTime'
<1> SUFFICES ASSUME TypeOK, AllTime, [Next]_vars, NEW t \in Stream PROVE TimeInv(t)'
  BY DEF AllTime
<1>0. TimeInv(t)
  BY DEF AllTime
<1>1. ASSUME NEW s \in Stream, Own(s) PROVE TimeInv(t)'
  <2>1. CASE t = s
    BY <1>0, <1>1, <2>1, OwnTime
  <2>2. CASE t # s
    <3>1. /\ UNCHANGED lists /\ at'[t] = at[t] /\ ip'[t] = ip[t] /\ blacked'[t] = blacked[t]
          /\ idle'[t] = idle[t] /\ since'[t] = since[t] /\ due'[t] = due[t]
          /\ pending'[t] = pending[t] /\ waited'[t] = waited[t] /\ sending'[t] = sending[t]
          /\ onBlock'[t] = onBlock[t] /\ onBlack'[t] = onBlack[t]
      <4> USE <2>2 DEF TypeOK, Goto, lists, who, task, history
      <4>1. CASE Arrive(s) \/ Receive(s) \/ Forwarded(s) \/ Ends(s)
        BY <4>1 DEF Arrive, Receive, Forwarded, Ends
      <4>2. CASE Tick(s) \/ Measure(s)
        BY <4>2 DEF Tick, Measure
      <4>3. CASE RemoveUsage(s)
        BY <4>3 DEF RemoveUsage, Reset
      <4>4. CASE PairAsAny(s)
        BY <4>4 DEF PairAsAny, PairAs
      <4>5. CASE Leave(s) \/ \E address \in Address : Accept(s, address)
        BY <4>5 DEF Leave, Accept
      <4> QED
        BY <1>1, <4>1, <4>2, <4>3, <4>4, <4>5 DEF Own
    <3> QED
      BY <1>0, <3>1, OthersTime
  <2> QED
    BY <2>1, <2>2
<1>2. ASSUME NEW addresses \in SUBSET Address, List(addresses) PROVE TimeInv(t)'
  BY <1>0, <1>2, ListTime
<1>3. CASE Second
  BY <1>0, <1>3, SecondTime
<1>4. CASE UNCHANGED vars
  <2>1. /\ UNCHANGED lists /\ UNCHANGED <<at, who, task, pending, history>>
    BY <1>4 DEF vars
  <2> QED
    BY <1>0, <2>1, OthersTime DEF who, task, history
<1> QED
  BY Steps, <1>1, <1>2, <1>3, <1>4

LEMMA TimeInit == Init => AllTime
BY TimeAssumption, OffAssumption
   DEF Init, Paired, AllTime, TimeInv, OverInv, SendInv, IdleInv, BlockInv, BlackInv

\* A pair is ended as idle only when it is, or after a send that took as long;
\* and an address that is listed as the listener reports it is cut off or
\* limited within a period of the timer.
THEOREM TimeSafe == Spec => [](TimeoutOnlyIfQuiet /\ ListsTakeEffect)
<1>1. TypeOK /\ AllTime => TimeoutOnlyIfQuiet /\ ListsTakeEffect
  BY TimeAssumption DEF AllTime, TimeInv, SendInv, BlockInv, BlackInv, TypeOK, Selecting,
                        TimeoutOnlyIfQuiet, ListsTakeEffect
<1> QED
  BY <1>1, TimeInit, TimeStep, TypeCorrect, PTL DEF Spec

\* A pair that waits for events is ended one period after the idle time.
THEOREM IdleSafe == Spec => IdleEnds
<1>1. TypeOK /\ AllTime /\ [Next]_vars
        => [\A s \in Stream : Selecting(s) /\ Selecting(s)' /\ idle'[s] > idle[s]
                                 => idle'[s] <= IdleMax + Period]_vars
  <2> SUFFICES ASSUME TypeOK, AllTime, [Next]_vars, NEW s \in Stream, Selecting(s),
                      idle'[s] > idle[s]
               PROVE idle'[s] <= IdleMax + Period
    OBVIOUS
  <2> USE TimeAssumption DEF TypeOK
  <2>1. CASE Second
    <3>1. /\ due[s] > 0 /\ at[s] = "select"
          /\ idle'[s] = AtMost(idle[s] + 1, OldAge)
      BY <2>1 DEF Second, Ready, Selecting
    <3>2. idle[s] + due[s] <= IdleMax + Period
      BY <3>1 DEF AllTime, TimeInv, IdleInv
    <3> QED
      BY <3>1, <3>2 DEF AtMost, OldAge
  <2>2. CASE UNCHANGED vars
    BY <2>2 DEF vars, task
  <2>3. ASSUME NEW t \in Stream, idle' = idle \/ idle' = [idle EXCEPT ![t] = 0] PROVE FALSE
    BY <2>3
  <2>4. ASSUME NEW t \in Stream, Own(t) PROVE FALSE
    BY <2>3, <2>4 DEF Own, Arrive, Receive, Forwarded, Ends, Tick, Measure, RemoveUsage, Reset,
                      Leave, PairAsAny, PairAs, Accept, task
  <2>5. ASSUME NEW addresses \in SUBSET Address, List(addresses) PROVE FALSE
    BY <2>3, <2>5 DEF List, task
  <2> QED
    BY Steps, <2>1, <2>2, <2>4, <2>5
<1> QED
  BY <1>1, TimeInit, TimeStep, TypeCorrect, PTL DEF Spec, IdleEnds
=============================================================================
