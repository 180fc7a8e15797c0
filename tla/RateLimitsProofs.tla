--------------------------- MODULE RateLimitsProofs ---------------------------
(***************************************************************************)
(* Theorems of RateLimits for every number of addresses, ids and tasks and *)
(* every limit and duration: the types, what the limits let through at     *)
(* most, and what the log of punch hole requests leaves out.               *)
(***************************************************************************)
EXTENDS RateLimits, FiniteSetTheorems, TLAPS

-----------------------------------------------------------------------------
(* Types *)

\* What check_ip_blocker makes of an entry is an entry.
LEMMA CountedEntry ==
  ASSUME now \in Nat, NEW e \in Entry
  PROVE  /\ Counted(e) \in Entry /\ CountSoFar(e) \in Nat
         /\ Counted(e).count = CountSoFar(e) + 1 /\ Counted(e).countTime = now
         /\ Counted(e).ids = e.ids /\ Counted(e).idsTime = e.idsTime
  <1>1. CountSoFar(e) \in Nat
    BY DEF CountSoFar, Entry
  <1>2. CountSoFar(e) + 1 \in Nat
    BY <1>1
  <1>3. ASSUME NEW c \in Nat
        PROVE  LET f == [e EXCEPT !.count = c, !.countTime = now]
               IN /\ f \in Entry /\ f.count = c /\ f.countTime = now
                  /\ f.ids = e.ids /\ f.idsTime = e.idsTime
    BY DEF Entry
  <1> HIDE DEF CountSoFar
  <1> QED BY <1>1, <1>2, <1>3 DEF Counted

LEMMA NotedEntry ==
  ASSUME now \in Nat, NEW e \in Entry, NEW id \in Id
  PROVE  /\ Noted(e, id) \in Entry
         /\ Noted(e, id).count = e.count /\ Noted(e, id).countTime = e.countTime
         /\ Noted(e, id).ids = IdsWith(e, id) /\ Noted(e, id).idsTime = now
  <1>1. IdsWith(e, id) \in SUBSET Id
    BY DEF IdsWith, Entry
  <1>2. ASSUME NEW ids \in SUBSET Id
        PROVE  LET f == [e EXCEPT !.ids = ids, !.idsTime = now]
               IN /\ f \in Entry /\ f.ids = ids /\ f.idsTime = now
                  /\ f.count = e.count /\ f.countTime = e.countTime
    BY DEF Entry
  <1> HIDE DEF IdsWith
  <1> QED BY <1>1, <1>2 DEF Noted

\* A registration that has read reg_pk.
LEMMA CountedType ==
  ASSUME NEW r \in Registration, NEW seen \in RegPk
  PROVE  LET f == [r EXCEPT !.at = "counted", !.seen = seen]
         IN /\ f \in Registration /\ f.at = "counted" /\ f.id = r.id /\ f.record = r.record
            /\ f.seen = seen
  BY DEF Registration

\* A task that is not idle has an id, and one past the lookup a record of it.
Named ==
  \A t \in Task : /\ tasks[t].at # "idle" => tasks[t].id \in Id
                  /\ tasks[t].at \in {"given", "counted"} => tasks[t].record \in Task

\* A task that has been given a record.
LEMMA GivenType ==
  ASSUME TypeOK, NEW t \in Task, NEW r \in Task, tasks[t].at # "idle", Given(t, r)
  PROVE  tasks' \in [Task -> Registration] /\ Named'
  <1> DEFINE f == [tasks[t] EXCEPT !.at = "given", !.record = r]
  <1>1. tasks[t] \in Registration /\ tasks[t].id \in Id
    BY DEF TypeOK
  <1>2. f \in Registration /\ f.at = "given" /\ f.id = tasks[t].id /\ f.record = r
    BY <1>1 DEF Registration, Record
  <1>3. tasks' = [tasks EXCEPT ![t] = f]
    BY DEF Given, TypeOK
  <1> HIDE DEF f
  <1> QED BY <1>1, <1>2, <1>3 DEF TypeOK, Named

\* A task that is idle again.
LEMMA IdleType ==
  ASSUME TypeOK, NEW t \in Task, tasks' = [tasks EXCEPT ![t] = Idle]
  PROVE  tasks' \in [Task -> Registration] /\ Named'
  <1>1. Idle \in Registration /\ Idle.at = "idle"
    BY DEF Idle, Registration, Record, RegPk
  <1> QED BY <1>1 DEF TypeOK, Named

\* A record put into the map.
LEMMA PutType ==
  ASSUME TypeOK, NEW t \in Task, NEW id \in Id, Put(t, id)
  PROVE  /\ peer' \in [Id -> Record]
         /\ counted' \in [Id -> [number : Nat, last : Nat, raced : BOOLEAN]]
  <1> DEFINE raced1 == counted[id].raced \/ peer[id] # NoRecord
             f == [counted[id] EXCEPT !.raced = raced1]
  <1>1. peer' \in [Id -> Record]
    BY DEF Put, TypeOK, Record
  <1>2. counted' = [counted EXCEPT ![id] = f]
    BY DEF Put, TypeOK
  <1>3. raced1 \in BOOLEAN
    BY Zenon DEF TypeOK
  <1> HIDE DEF raced1
  <1>4. f \in [number : Nat, last : Nat, raced : BOOLEAN]
    <2>1. counted[id] \in [number : Nat, last : Nat, raced : BOOLEAN]
      BY DEF TypeOK
    <2>2. CASE raced1 = TRUE
      BY <2>1, <2>2
    <2>3. CASE raced1 = FALSE
      BY <2>1, <2>3
    <2>4. raced1 = TRUE \/ raced1 = FALSE
      BY <1>3, Zenon
    <2> QED BY <2>2, <2>3, <2>4
  <1> HIDE DEF f
  <1> QED BY <1>1, <1>2, <1>4 DEF TypeOK

\* The lookup of a record, named once.
LEMMA LookupType ==
  ASSUME TypeOK, NEW t \in Task, Find(t) \/ Adopt(t) \/ Default(t) \/ \E id \in Id : Seek(t, id)
  PROVE  TypeOK'
  <1> USE MarkAssumption
  <1>1. /\ now' = now /\ blocker' = blocker /\ reg_pk' = reg_pk
        /\ admitted' = admitted /\ burst' = burst
        /\ attempts' = attempts /\ passed' = passed /\ tried' = tried /\ answer' = answer
        /\ reqs' = reqs
    BY DEF Find, Adopt, Default, Seek, logins
  <1>2. tasks[t].at # "idle" => tasks[t].id \in Id /\ peer[tasks[t].id] \in Record
    BY DEF TypeOK
  <1>3. CASE Find(t)
    <2>1. peer' = peer /\ counted' = counted /\ tasks[t].at = "checked"
      BY <1>3 DEF Find
    <2>2. tasks' \in [Task -> Registration] /\ Named'
      <3>1. CASE peer[tasks[t].id] # NoRecord /\ Given(t, peer[tasks[t].id])
        <4>1. peer[tasks[t].id] \in Task
          BY <1>2, <2>1, <3>1 DEF Record
        <4> QED BY <2>1, <3>1, <4>1, GivenType
      <3>2. CASE tasks' = [tasks EXCEPT ![t].at = "looking"]
        <4> DEFINE f == [tasks[t] EXCEPT !.at = "looking"]
        <4>1. tasks[t] \in Registration
          BY DEF TypeOK
        <4>2. f \in Registration /\ f.at = "looking" /\ f.id = tasks[t].id
          BY <4>1 DEF Registration
        <4>3. tasks' = [tasks EXCEPT ![t] = f]
          BY <3>2 DEF TypeOK
        <4> HIDE DEF f
        <4> QED BY <1>2, <2>1, <4>2, <4>3 DEF TypeOK, Named
      <3> QED BY <1>3, <3>1, <3>2 DEF Find
    <2> QED BY <1>1, <2>1, <2>2 DEF TypeOK, Named
  <1>4. CASE Adopt(t)
    <2>1. tasks[t].at # "idle" /\ Put(t, tasks[t].id)
      BY <1>4 DEF Adopt
    <2>2. tasks' \in [Task -> Registration] /\ Named'
      BY <1>4, <2>1, GivenType, IdleType DEF Adopt
    <2>3. /\ peer' \in [Id -> Record]
          /\ counted' \in [Id -> [number : Nat, last : Nat, raced : BOOLEAN]]
      BY <1>2, <2>1, PutType
    <2> QED BY <1>1, <2>2, <2>3 DEF TypeOK, Named
  <1>5. CASE Default(t)
    <2>1. tasks[t].at # "idle"
      BY <1>5 DEF Default
    <2>2. tasks' \in [Task -> Registration] /\ Named'
      <3>1. CASE peer[tasks[t].id] # NoRecord /\ Given(t, peer[tasks[t].id])
        <4>1. peer[tasks[t].id] \in Task
          BY <1>2, <2>1, <3>1 DEF Record
        <4> QED BY <2>1, <3>1, <4>1, GivenType
      <3>2. CASE Given(t, t)
        BY <2>1, <3>2, GivenType
      <3>3. CASE tasks' = [tasks EXCEPT ![t] = Idle]
        BY <3>3, IdleType
      <3> QED BY <1>5, <3>1, <3>2, <3>3 DEF Default
    <2>3. /\ peer' \in [Id -> Record]
          /\ counted' \in [Id -> [number : Nat, last : Nat, raced : BOOLEAN]]
      <3>1. CASE UNCHANGED <<peer, counted>>
        BY <3>1 DEF TypeOK
      <3>2. CASE Put(t, tasks[t].id)
        BY <1>2, <2>1, <3>2, PutType
      <3> QED BY <1>5, <3>1, <3>2 DEF Default
    <2> QED BY <1>1, <2>2, <2>3 DEF TypeOK, Named
  <1>6. ASSUME NEW id \in Id, Seek(t, id) PROVE TypeOK'
    <2>1. [Idle EXCEPT !.at = "seeking", !.id = id] \in Registration
      BY DEF Idle, Registration, Record, RegPk
    <2>2. tasks' \in [Task -> Registration] /\ Named'
      BY <1>6, <2>1 DEF TypeOK, Seek, Idle, Named
    <2>3. peer' = peer /\ counted' = counted
      BY <1>6 DEF Seek
    <2> QED BY <1>1, <2>2, <2>3 DEF TypeOK, Named
  <1> QED BY <1>3, <1>4, <1>5, <1>6

\* The steps of a registration that is let through, named once.
LEMMA LetThroughType ==
  ASSUME TypeOK, NEW t \in Task, NEW ip \in Ip, NEW id \in Id, NEW e \in Entry,
         LetThrough(t, ip, id, e)
  PROVE  TypeOK'
  <1>1. /\ now' = now /\ peer' = peer /\ reg_pk' = reg_pk /\ counted' = counted
        /\ attempts' = attempts /\ passed' = passed /\ tried' = tried /\ answer' = answer
        /\ reqs' = reqs
    BY DEF LetThrough, logins
  <1>2. blocker' \in [Ip -> Entry \cup {NoEntry}]
    BY DEF TypeOK, LetThrough
  <1>3. [Idle EXCEPT !.at = "checked", !.id = id] \in Registration
    BY DEF Idle, Registration, Record, RegPk
  <1>4. tasks' \in [Task -> Registration] /\ Named'
    BY <1>3 DEF TypeOK, LetThrough, Idle, Named
  <1>5. admitted' \in [Ip -> [Id -> Nat]] /\ burst' \in [Ip -> Nat]
    BY DEF TypeOK, LetThrough, LastAdmitted
  <1> QED BY <1>1, <1>2, <1>4, <1>5 DEF TypeOK, Named

\* An attempt keeps the types, and the table within its cap (api.rs:14-24).
LEMMA AttemptType ==
  ASSUME TypeOK, NEW ip \in Ip, Attempt(ip) \/ RefuseByCap(ip)
  PROVE  TypeOK'
  <1> USE LimitAssumption
  <1>1. /\ now' = now /\ blocker' = blocker /\ peer' = peer /\ reg_pk' = reg_pk
        /\ tasks' = tasks /\ admitted' = admitted /\ burst' = burst /\ counted' = counted
        /\ reqs' = reqs
    BY DEF Attempt, RefuseByCap, registrations
  <1>2. Recent \subseteq DOMAIN attempts
    BY DEF Recent
  <1>3. IsFiniteSet(Recent) /\ Cardinality(Recent) \in Nat
        /\ Cardinality(Recent) <= Cardinality(DOMAIN attempts)
    BY <1>2, FS_Subset, FS_CardinalityType DEF TypeOK
  <1>4. Cardinality(DOMAIN attempts) \in Nat
    BY FS_CardinalityType DEF TypeOK
  <1>5. CASE RefuseByCap(ip)
    <2>1. attempts' = [other \in Recent |-> attempts[other]]
      BY <1>5 DEF RefuseByCap, Restrict
    <2>2. DOMAIN attempts' = Recent /\ \A other \in Recent : attempts'[other] = attempts[other]
      BY <2>1
    <2>3. answer' \in SUBSET Answer /\ passed' = passed /\ tried' = tried
      BY <1>5 DEF RefuseByCap, Answer
    <2> QED BY <1>1, <1>2, <1>3, <1>4, <2>2, <2>3 DEF TypeOK
  <1>6. CASE Attempt(ip)
    <2> DEFINE entry == [since |-> Counter(ip).since, count |-> Counter(ip).count + 1]
    <2>1. entry \in [since : Nat, count : Nat]
      BY <1>2 DEF Counter, TypeOK
    <2>2. attempts' = [other \in Recent \cup {ip} |-> IF other = ip THEN entry ELSE attempts[other]]
      BY <1>6 DEF Attempt
    <2>3. DOMAIN attempts' = Recent \cup {ip}
          /\ \A other \in Recent \cup {ip} : attempts'[other] \in [since : Nat, count : Nat]
      BY <2>1, <2>2, <1>2 DEF TypeOK
    <2>4. IsFiniteSet(Recent \cup {ip})
          /\ Cardinality(Recent \cup {ip}) = IF ip \in Recent THEN Cardinality(Recent)
                                             ELSE Cardinality(Recent) + 1
      BY <1>3, FS_AddElement
    <2>5. ip \in Recent \/ Cardinality(Recent) < Cap
      BY <1>6 DEF Attempt, HasRoom
    <2>6. Cardinality(Recent \cup {ip}) <= Cap
      BY <1>3, <1>4, <2>4, <2>5 DEF TypeOK
    <2>7. answer' \in SUBSET Answer
      BY <1>6 DEF Attempt, Answer
    <2>8. tried' \in [Ip -> Nat]
      BY <1>6 DEF Attempt, TypeOK
    <2>9. passed' \in [Ip -> SUBSET Pass]
      <3>1. [time |-> now, nth |-> entry.count] \in Pass
        BY <2>1 DEF TypeOK, Pass
      <3>2. passed' = passed
            \/ passed' = [passed EXCEPT ![ip] = @ \cup {[time |-> now, nth |-> entry.count]}]
        BY <1>6 DEF Attempt
      <3>3. passed \in [Ip -> SUBSET Pass]
        BY DEF TypeOK
      <3> HIDE DEF entry
      <3> QED BY <3>1, <3>2, <3>3
    <2>10. DOMAIN attempts' \subseteq Ip
      BY <1>2, <2>3 DEF TypeOK
    <2> HIDE DEF entry
    <2> QED BY <1>1, <2>3, <2>4, <2>6, <2>7, <2>8, <2>9, <2>10 DEF TypeOK
  <1> QED BY <1>5, <1>6

\* A clock tick keeps the types.
LEMMA TickType ==
  ASSUME TypeOK, Tick
  PROVE  TypeOK'
  <1>1. /\ now' = now + 1 /\ blocker' = blocker /\ peer' = peer /\ reg_pk' = reg_pk
        /\ tasks' = tasks /\ admitted' = admitted /\ burst' = burst /\ counted' = counted
        /\ attempts' = attempts /\ tried' = tried /\ answer' = {}
        /\ reqs' = reqs
    BY DEF Tick, registrations, None
  <1>2. passed' \in [Ip -> SUBSET Pass]
    BY DEF Tick, TypeOK, Passed
  <1> QED BY <1>1, <1>2 DEF TypeOK

\* An entry of the log, or its end, keeps the types.
LEMMA PunchType ==
  ASSUME TypeOK, PunchNext
  PROVE  TypeOK'
  <1>1. /\ now' = now /\ blocker' = blocker /\ peer' = peer /\ reg_pk' = reg_pk
        /\ tasks' = tasks /\ admitted' = admitted /\ burst' = burst /\ counted' = counted
        /\ attempts' = attempts /\ passed' = passed /\ tried' = tried /\ answer' = answer
    BY DEF PunchNext, ClearPunches, LogPunch, registrations, logins
  <1>2. reqs' \in Seq(PunchReq)
    <2>1. ASSUME NEW ip \in Ip, NEW id \in Id, LogPunch(ip, id) PROVE reqs' \in Seq(PunchReq)
      <3>1. [ip |-> ip, id |-> id, tm |-> now] \in PunchReq
        BY DEF PunchReq, TypeOK
      <3> QED BY <2>1, <3>1 DEF LogPunch, TypeOK
    <2>2. CASE ClearPunches
      BY <2>2 DEF ClearPunches
    <2> QED BY <2>1, <2>2 DEF PunchNext
  <1> QED BY <1>1, <1>2 DEF TypeOK

\* Every state has its type.
THEOREM TypeCorrect == Spec => []TypeOK
  <1> USE LimitAssumption, StartAssumption
  <1>1. Init => TypeOK
    <2> SUFFICES ASSUME Init PROVE TypeOK
      OBVIOUS
    <2>1. DOMAIN attempts = {}
      BY DEF Init
    <2>2. IsFiniteSet(DOMAIN attempts) /\ Cardinality(DOMAIN attempts) = 0
      BY <2>1, FS_EmptySet
    <2>3. tasks \in [Task -> Registration] /\ \A t \in Task : tasks[t].at = "idle"
      BY DEF Init, Idle, Registration, Record, RegPk
    <2>4. [count |-> 0, time |-> 0] \in RegPk
      BY DEF RegPk
    <2>5. peer \in [Id -> Record] /\ reg_pk \in [Id -> [Task -> RegPk]]
      BY <2>4 DEF Init, Record
    <2> QED BY <2>1, <2>2, <2>3, <2>5 DEF Init, TypeOK, None
  <1>2. TypeOK /\ [Next]_vars => TypeOK'
    <2> SUFFICES ASSUME TypeOK, [Next]_vars PROVE TypeOK'
      OBVIOUS
    <2>1. CASE RegisterNext
      <3>1. ASSUME NEW t \in Task, NEW ip \in Ip, NEW id \in Id,
                   FirstOfAddress(t, ip, id) \/ NextOfAddress(t, ip, id) \/ KnownId(t, ip, id)
            PROVE  TypeOK'
        <4>1. CASE FirstOfAddress(t, ip, id)
          <5>1. [count |-> 0, countTime |-> now, ids |-> {}, idsTime |-> now] \in Entry
            BY DEF Entry, TypeOK
          <5> QED BY <4>1, <5>1, LetThroughType DEF FirstOfAddress
        <4>2. CASE NextOfAddress(t, ip, id)
          <5>1. blocker[ip] \in Entry
            BY <4>2 DEF NextOfAddress, TypeOK
          <5>2. Counted(blocker[ip]) \in Entry
            BY <5>1, CountedEntry DEF TypeOK
          <5>3. Noted(Counted(blocker[ip]), id) \in Entry
            BY <5>2, NotedEntry DEF TypeOK
          <5> QED BY <4>2, <5>3, LetThroughType DEF NextOfAddress
        <4>3. CASE KnownId(t, ip, id)
          <5>1. Counted(blocker[ip]) \in Entry
            BY <4>3, CountedEntry DEF KnownId, TypeOK
          <5> QED BY <4>3, <5>1, LetThroughType DEF KnownId
        <4> QED BY <3>1, <4>1, <4>2, <4>3
      <3>2. ASSUME NEW ip \in Ip, NEW id \in Id, RefuseNewId(ip, id) PROVE TypeOK'
        <4>1. Counted(blocker[ip]) \in Entry
          BY <3>2, CountedEntry DEF RefuseNewId, TypeOK
        <4>2. blocker' \in [Ip -> Entry \cup {NoEntry}]
          BY <3>2, <4>1 DEF RefuseNewId, TypeOK
        <4> QED BY <3>2, <4>2 DEF RefuseNewId, TypeOK, logins
      <3>3. ASSUME NEW t \in Task, Refuse(t) PROVE TypeOK'
        <4>1. tasks' \in [Task -> Registration] /\ Named'
          BY <3>3, IdleType DEF Refuse
        <4> QED BY <3>3, <4>1 DEF Refuse, TypeOK, logins, Named
      <3>4. ASSUME NEW t \in Task, ReadCount(t) PROVE TypeOK'
        <4> DEFINE id == tasks[t].id
                   seen1 == [count |-> CountOf(t) + 1, time |-> now]
                   next == [tasks[t] EXCEPT !.at = "counted", !.seen = seen1]
                   pause == Elapsed(counted[id].last, IdDur)
                   now1 == [number |-> IF pause THEN 1 ELSE counted[id].number + 1,
                            last |-> now,
                            raced |-> Raced(t) \/ (counted[id].raced /\ ~pause)]
        <4>1. id \in Id /\ tasks[t].record \in Task /\ tasks[t] \in Registration
          BY <3>4 DEF ReadCount, TypeOK
        <4>2. CountOf(t) \in Nat
          BY <4>1 DEF CountOf, RegPkOf, TypeOK, RegPk
        <4>3. seen1 \in RegPk
          BY <4>2 DEF RegPk, TypeOK
        <4>4. tasks' = [tasks EXCEPT ![t] = next]
          BY <3>4 DEF ReadCount, TypeOK
        <4>5. tasks' \in [Task -> Registration] /\ Named'
          <5> HIDE DEF seen1
          <5>1. next \in Registration /\ next.id = id /\ next.record = tasks[t].record
            BY <4>1, <4>3, CountedType
          <5> HIDE DEF next, id
          <5> QED BY <4>1, <4>4, <5>1 DEF TypeOK, Named
        <4>6. now1.number \in Nat /\ now1.last \in Nat
          BY <4>1 DEF TypeOK
        <4>7. now1.raced \in BOOLEAN
          BY <4>1, Zenon DEF TypeOK
        <4>8. counted' = [counted EXCEPT ![id] = now1]
          BY <3>4 DEF ReadCount
        <4>9. now1 \in [number : Nat, last : Nat, raced : BOOLEAN]
          BY <4>6, <4>7
        <4> HIDE DEF now1, id, next
        <4>10. counted' \in [Id -> [number : Nat, last : Nat, raced : BOOLEAN]]
          BY <4>8, <4>9 DEF TypeOK
        <4>11. /\ now' = now /\ blocker' = blocker /\ peer' = peer /\ reg_pk' = reg_pk
               /\ admitted' = admitted /\ burst' = burst /\ UNCHANGED logins /\ reqs' = reqs
          BY <3>4 DEF ReadCount
        <4> QED BY <4>5, <4>10, <4>11 DEF TypeOK, logins, Named
      <3>5. ASSUME NEW t \in Task, WriteCount(t) PROVE TypeOK'
        <4>1. tasks[t].id \in Id /\ tasks[t].record \in Task /\ tasks[t].seen \in RegPk
          BY <3>5 DEF WriteCount, TypeOK, Registration
        <4>2. reg_pk' \in [Id -> [Task -> RegPk]]
          BY <3>5, <4>1 DEF WriteCount, TypeOK
        <4>3. tasks' \in [Task -> Registration] /\ Named'
          BY <3>5, IdleType DEF WriteCount
        <4> QED BY <3>5, <4>2, <4>3 DEF WriteCount, TypeOK, logins, Named
      <3>6. CASE Sweep
        BY <3>6 DEF Sweep, TypeOK, logins
      <3>7. ASSUME NEW ip \in Ip, Remove(ip) PROVE TypeOK'
        BY <3>7 DEF Remove, TypeOK, logins
      <3> QED BY <2>1, <3>1, <3>2, <3>3, <3>4, <3>5, <3>6, <3>7, LookupType DEF RegisterNext
    <2>2. CASE AttemptNext
      BY <2>2, AttemptType DEF AttemptNext
    <2>3. CASE Tick
      BY <2>3, TickType
    <2>4. CASE PunchNext
      BY <2>4, PunchType
    <2>5. CASE UNCHANGED vars
      BY <2>5 DEF vars, registrations, logins, TypeOK
    <2> QED BY <2>1, <2>2, <2>3, <2>4, <2>5 DEF Next
  <1> QED BY <1>1, <1>2, PTL DEF Spec

-----------------------------------------------------------------------------
(* The steps of IP_BLOCKER, and sets of at most n elements. *)

Few(S, n) == IsFiniteSet(S) /\ Cardinality(S) <= n

LEMMA FewSubset ==
  ASSUME NEW n \in Nat, NEW T, Few(T, n), NEW S \in SUBSET T
  PROVE  Few(S, n)
  BY FS_Subset, FS_CardinalityType DEF Few

LEMMA FewMore ==
  ASSUME NEW n \in Nat, NEW S, Few(S, n), NEW m \in Nat, n <= m
  PROVE  Few(S, m)
  BY FS_CardinalityType DEF Few

LEMMA FewAdd ==
  ASSUME NEW n \in Nat, NEW S, Few(S, n), NEW x
  PROVE  Few(S \cup {x}, n + 1)
  <1>1. IsFiniteSet(S) /\ Cardinality(S) \in Nat /\ Cardinality(S) <= n
    BY FS_CardinalityType DEF Few
  <1>2. IsFiniteSet(S \cup {x})
        /\ Cardinality(S \cup {x}) = IF x \in S THEN Cardinality(S) ELSE Cardinality(S) + 1
    BY <1>1, FS_AddElement
  <1>3. Cardinality(S \cup {x}) <= n + 1
    BY <1>1, <1>2
  <1> QED BY <1>2, <1>3 DEF Few

LEMMA FewUnion ==
  ASSUME NEW m \in Nat, NEW n \in Nat, NEW S, NEW T, Few(S, m), Few(T, n)
  PROVE  Few(S \cup T, m + n)
  <1>1. /\ IsFiniteSet(S) /\ Cardinality(S) \in Nat /\ Cardinality(S) <= m
        /\ IsFiniteSet(T) /\ Cardinality(T) \in Nat /\ Cardinality(T) <= n
    BY FS_CardinalityType DEF Few
  <1>2. IsFiniteSet(S \cap T) /\ Cardinality(S \cap T) \in Nat
    <2>1. S \cap T \in SUBSET S
      OBVIOUS
    <2> QED BY <1>1, <2>1, FS_Subset, FS_CardinalityType
  <1>3. IsFiniteSet(S \cup T)
        /\ Cardinality(S \cup T) = Cardinality(S) + Cardinality(T) - Cardinality(S \cap T)
    BY <1>1, FS_Union
  <1>4. Cardinality(S \cup T) <= m + n
    BY <1>1, <1>2, <1>3
  <1> QED BY <1>3, <1>4 DEF Few

LEMMA FewNone == \A n \in Nat : Few({}, n)
  BY FS_EmptySet DEF Few

\* The count of address ip is as it was.
Same(ip) == blocker'[ip] = blocker[ip] /\ admitted'[ip] = admitted[ip] /\ burst'[ip] = burst[ip]

\* A pause of more than IP_BLOCK_DUR has passed.
Paused(ip) == \A id \in Id : Elapsed(admitted[ip][id], BlockDur)

\* Address ip is let through with id, which leaves e of its entry.
Through(ip, id, e) ==
  /\ now' = now /\ blocker'[ip] = e
  /\ \A other \in Id : admitted'[ip][other] = IF other = id THEN now ELSE admitted[ip][other]
  /\ burst'[ip] = IF Paused(ip) THEN 1 ELSE burst[ip] + 1

First == [count |-> 0, countTime |-> now, ids |-> {}, idsTime |-> now]

\* What a step may do to the count of address ip.
BlockerStep(ip) ==
  \/ now' = now /\ Same(ip)
  \/ now' = now + 1 /\ Same(ip)
  \/ \E id \in Id :
       \/ blocker[ip] = NoEntry /\ Through(ip, id, First)
       \/ /\ blocker[ip] # NoEntry /\ ~TooMany(blocker[ip]) /\ ~IdsFull(blocker[ip])
          /\ Through(ip, id, Noted(Counted(blocker[ip]), id))
       \/ /\ blocker[ip] # NoEntry /\ ~TooMany(blocker[ip]) /\ IdsFull(blocker[ip])
          /\ id \in blocker[ip].ids
          /\ Through(ip, id, Counted(blocker[ip]))
  \/ /\ blocker[ip] # NoEntry /\ ~TooMany(blocker[ip]) /\ now' = now
     /\ blocker'[ip] = Counted(blocker[ip])
     /\ admitted'[ip] = admitted[ip] /\ burst'[ip] = burst[ip]
  \/ /\ blocker[ip] # NoEntry /\ Expired(blocker[ip]) /\ now' = now
     /\ blocker'[ip] = NoEntry /\ admitted'[ip] = admitted[ip] /\ burst'[ip] = burst[ip]
  \/ /\ blocker'[ip] = NoEntry /\ now' = now
     /\ (\A id \in Id : admitted'[ip][id] = 0) /\ burst'[ip] = 0

LEMMA ThroughStep ==
  ASSUME TypeOK, NEW ip \in Ip, NEW other \in Ip, NEW t \in Task, NEW id \in Id, NEW e,
         LetThrough(t, other, id, e)
  PROVE  now' = now /\ IF other = ip THEN Through(ip, id, e) ELSE Same(ip)
  <1>1. CASE other = ip
    <2>1. admitted' = [admitted EXCEPT ![ip][id] = now]
      BY <1>1 DEF LetThrough, LastAdmitted
    <2>2. \A i \in Id : admitted'[ip][i] = IF i = id THEN now ELSE admitted[ip][i]
      BY <2>1 DEF TypeOK
    <2>3. burst'[ip] = IF Paused(ip) THEN 1 ELSE burst[ip] + 1
      BY <1>1 DEF LetThrough, LastAdmitted, TypeOK, Paused
    <2> QED BY <1>1, <2>2, <2>3 DEF LetThrough, Through, TypeOK
  <1>2. CASE other # ip
    BY <1>2 DEF LetThrough, LastAdmitted, TypeOK, Same
  <1> QED BY <1>1, <1>2

LEMMA EveryStep ==
  ASSUME TypeOK, [Next]_vars, NEW ip \in Ip
  PROVE  BlockerStep(ip)
  <1>1. ASSUME NEW t \in Task, NEW other \in Ip, NEW id \in Id,
               FirstOfAddress(t, other, id) \/ NextOfAddress(t, other, id) \/ KnownId(t, other, id)
        PROVE  BlockerStep(ip)
    <2>1. CASE FirstOfAddress(t, other, id)
      BY <2>1, ThroughStep DEF FirstOfAddress, BlockerStep, First
    <2>2. CASE NextOfAddress(t, other, id)
      BY <2>2, ThroughStep DEF NextOfAddress, BlockerStep
    <2>3. CASE KnownId(t, other, id)
      BY <2>3, ThroughStep DEF KnownId, BlockerStep
    <2> QED BY <1>1, <2>1, <2>2, <2>3
  <1>2. ASSUME NEW other \in Ip, NEW id \in Id, RefuseNewId(other, id) PROVE BlockerStep(ip)
    BY <1>2 DEF RefuseNewId, TypeOK, BlockerStep, Same
  <1>3. ASSUME NEW t \in Task,
               \/ Refuse(t) \/ ReadCount(t) \/ WriteCount(t) \/ Find(t) \/ Adopt(t) \/ Default(t)
               \/ \E id \in Id : Seek(t, id)
        PROVE  BlockerStep(ip)
    BY <1>3 DEF Refuse, ReadCount, WriteCount, Find, Adopt, Default, Seek, BlockerStep, Same
  <1>4. CASE Sweep
    BY <1>4 DEF Sweep, TypeOK, BlockerStep, Same
  <1>5. ASSUME NEW other \in Ip, Remove(other) PROVE BlockerStep(ip)
    BY <1>5 DEF Remove, TypeOK, BlockerStep, Same
  <1>6. CASE AttemptNext
    BY <1>6 DEF AttemptNext, Attempt, RefuseByCap, registrations, BlockerStep, Same
  <1>7. CASE Tick
    BY <1>7 DEF Tick, registrations, BlockerStep, Same
  <1>8. CASE PunchNext \/ UNCHANGED vars
    BY <1>8 DEF PunchNext, ClearPunches, LogPunch, vars, registrations, BlockerStep, Same
  <1> QED BY <1>1, <1>2, <1>3, <1>4, <1>5, <1>6, <1>7, <1>8 DEF Next, RegisterNext

-----------------------------------------------------------------------------
(* What an address is let through with. *)

\* The times of address ip, none of them in the future.
ClockInv(ip) ==
  /\ now \in Nat /\ now >= Start
  /\ \A id \in Id : admitted[ip][id] <= now
  /\ blocker[ip] # NoEntry => blocker[ip].countTime <= now /\ blocker[ip].idsTime <= now

LEMMA ClockStep ==
  ASSUME TypeOK, NEW ip \in Ip, ClockInv(ip), BlockerStep(ip)
  PROVE  ClockInv(ip)'
  <1> USE StartAssumption, MarkAssumption
  <1>1. /\ now \in Nat /\ blocker[ip] \in Entry \cup {NoEntry}
        /\ \A id \in Id : admitted[ip][id] \in Nat
    BY DEF TypeOK
  <1>2. blocker[ip] # NoEntry =>
          /\ blocker[ip] \in Entry
          /\ Counted(blocker[ip]) \in Entry
          /\ Counted(blocker[ip]).countTime = now
          /\ Counted(blocker[ip]).idsTime = blocker[ip].idsTime
          /\ \A id \in Id : /\ Noted(Counted(blocker[ip]), id).countTime = now
                            /\ Noted(Counted(blocker[ip]), id).idsTime = now
    BY <1>1, CountedEntry, NotedEntry
  <1>3. CASE now' \in {now, now + 1} /\ Same(ip)
    BY <1>1, <1>2, <1>3 DEF ClockInv, Same, Entry
  <1>4. ASSUME NEW id \in Id, NEW e, Through(ip, id, e), e.countTime <= now, e.idsTime <= now
        PROVE  ClockInv(ip)'
    BY <1>1, <1>4 DEF ClockInv, Through
  <1> QED BY <1>1, <1>2, <1>3, <1>4 DEF BlockerStep, ClockInv, First, Through, Entry

\* The count of the entry, which may be more, is that of the burst but for the
\* first registration; it begins anew only after a pause.
BurstInv(ip) ==
  /\ burst[ip] <= MaxPerBurst + 2
  /\ blocker[ip] = NoEntry => Paused(ip)
  /\ blocker[ip] # NoEntry =>
       /\ blocker[ip].count <= MaxPerBurst + 1
       /\ \A id \in Id : admitted[ip][id] <= blocker[ip].countTime
       /\ burst[ip] <= blocker[ip].count + 1 \/ Paused(ip)

LEMMA BurstStep ==
  ASSUME TypeOK, NEW ip \in Ip, ClockInv(ip), BurstInv(ip), BlockerStep(ip)
  PROVE  BurstInv(ip)'
  <1> USE LimitAssumption, StartAssumption, MarkAssumption
  <1> DEFINE e == blocker[ip]
  <1>1. /\ now \in Nat /\ e \in Entry \cup {NoEntry} /\ burst[ip] \in Nat
        /\ \A id \in Id : admitted[ip][id] \in Nat
    BY DEF TypeOK
  <1>2. e # NoEntry =>
          /\ e \in Entry /\ e.count \in Nat /\ e.countTime \in Nat
          /\ Counted(e) \in Entry /\ Counted(e).count = CountSoFar(e) + 1
          /\ Counted(e).countTime = now
          /\ \A id \in Id : /\ Noted(Counted(e), id) \in Entry
                            /\ Noted(Counted(e), id).count = CountSoFar(e) + 1
                            /\ Noted(Counted(e), id).countTime = now
    BY <1>1, CountedEntry, NotedEntry DEF Entry
  <1>3. e # NoEntry => CountSoFar(e) \in Nat /\ (~TooMany(e) => CountSoFar(e) <= MaxPerBurst)
    BY <1>2 DEF CountSoFar, TooMany
  <1>4. e # NoEntry /\ Elapsed(e.countTime, BlockDur) => Paused(ip)
    BY <1>1, <1>2 DEF BurstInv, Paused, Elapsed
  <1>5. e # NoEntry => burst[ip] <= CountSoFar(e) + 1 \/ Paused(ip)
    BY <1>4 DEF BurstInv, CountSoFar
  <1>6. (now' = now \/ now' = now + 1) /\ admitted'[ip] = admitted[ip] /\ Paused(ip) => Paused(ip)'
    BY <1>1 DEF Paused, Elapsed
  <1>7. CASE now' = now /\ Same(ip)
    BY <1>6, <1>7 DEF BurstInv, Same
  <1>8. CASE now' = now + 1 /\ Same(ip)
    BY <1>6, <1>8 DEF BurstInv, Same
  <1>9. ASSUME NEW id \in Id, e = NoEntry, Through(ip, id, First) PROVE BurstInv(ip)'
    <2>1. blocker'[ip] = First /\ burst'[ip] = 1
      BY <1>9 DEF Through, BurstInv
    <2>2. First # NoEntry /\ First.count = 0 /\ First.countTime = now
      BY <1>1 DEF First, Entry
    <2>3. \A i \in Id : admitted'[ip][i] <= now
      BY <1>1, <1>9 DEF Through, ClockInv
    <2> QED BY <2>1, <2>2, <2>3 DEF BurstInv
  <1>10. ASSUME NEW id \in Id, NEW f \in Entry, e # NoEntry, ~TooMany(e), Through(ip, id, f),
                f.count = CountSoFar(e) + 1, f.countTime = now
         PROVE  BurstInv(ip)'
    <2>1. blocker'[ip] = f /\ f # NoEntry
      BY <1>10 DEF Through, Entry
    <2>2. \A i \in Id : admitted'[ip][i] <= now
      BY <1>1, <1>10 DEF Through, ClockInv
    <2>3. burst'[ip] = IF Paused(ip) THEN 1 ELSE burst[ip] + 1
      BY <1>10 DEF Through
    <2>4. burst'[ip] <= f.count + 1 /\ f.count <= MaxPerBurst + 1
      BY <1>1, <1>3, <1>5, <1>10, <2>3
    <2>5. burst'[ip] <= MaxPerBurst + 2
      BY <1>1, <1>3, <1>10, <2>3, <2>4
    <2> QED BY <1>10, <2>1, <2>2, <2>4, <2>5 DEF BurstInv
  <1>11. CASE /\ e # NoEntry /\ ~TooMany(e) /\ now' = now
              /\ blocker'[ip] = Counted(e)
              /\ admitted'[ip] = admitted[ip] /\ burst'[ip] = burst[ip]
    <2>1. \A i \in Id : admitted'[ip][i] <= now
      BY <1>1, <1>11 DEF ClockInv
    <2>2. Counted(e).count <= MaxPerBurst + 1
      BY <1>2, <1>3, <1>11
    <2>3. burst'[ip] <= Counted(e).count + 1 \/ Paused(ip)'
      BY <1>1, <1>2, <1>3, <1>5, <1>6, <1>11
    <2> QED BY <1>2, <1>11, <2>1, <2>2, <2>3 DEF BurstInv, Entry
  <1>12. CASE /\ e # NoEntry /\ Expired(e) /\ now' = now
              /\ blocker'[ip] = NoEntry /\ admitted'[ip] = admitted[ip] /\ burst'[ip] = burst[ip]
    BY <1>4, <1>6, <1>12 DEF BurstInv, Expired
  <1>13. CASE /\ blocker'[ip] = NoEntry /\ now' = now
              /\ (\A id \in Id : admitted'[ip][id] = 0) /\ burst'[ip] = 0
    BY <1>1, <1>13 DEF BurstInv, Paused, Elapsed, ClockInv
  <1> HIDE DEF e
  <1>14. ASSUME NEW id \in Id, e # NoEntry, ~TooMany(e), Through(ip, id, Noted(Counted(e), id))
         PROVE  BurstInv(ip)'
    BY <1>2, <1>10, <1>14
  <1>15. ASSUME NEW id \in Id, e # NoEntry, ~TooMany(e), Through(ip, id, Counted(e))
         PROVE  BurstInv(ip)'
    BY <1>2, <1>10, <1>15
  <1> QED BY <1>7, <1>8, <1>9, <1>11, <1>12, <1>13, <1>14, <1>15 DEF BlockerStep, e

\* Ids let through since the last one was noted are noted. Of the others of the
\* day there are as many as were noted the day before, and the first of an
\* entry made after that.
IdsInv(ip) ==
  /\ blocker[ip] = NoEntry => Few(IdsOfDay(ip), MaxIds + 1)
  /\ blocker[ip] # NoEntry =>
       /\ Few(blocker[ip].ids, MaxIds + 1)
       /\ \A id \in Id : admitted[ip][id] > blocker[ip].idsTime => id \in blocker[ip].ids
       /\ Few(IdsOfDay(ip) \ blocker[ip].ids, MaxIds + 2)

LEMMA IdsStep ==
  ASSUME TypeOK, NEW ip \in Ip, ClockInv(ip), IdsInv(ip), BlockerStep(ip)
  PROVE  IdsInv(ip)'
  <1> USE LimitAssumption, StartAssumption, MarkAssumption
  <1> DEFINE e == blocker[ip]
  <1>1. /\ now \in Nat /\ e \in Entry \cup {NoEntry}
        /\ \A id \in Id : admitted[ip][id] \in Nat
    BY DEF TypeOK
  <1>2. e # NoEntry =>
          /\ e \in Entry /\ e.idsTime \in Nat
          /\ Counted(e) \in Entry /\ Counted(e).ids = e.ids /\ Counted(e).idsTime = e.idsTime
          /\ \A id \in Id : /\ Noted(Counted(e), id) \in Entry
                            /\ Noted(Counted(e), id).ids = IdsWith(e, id)
                            /\ Noted(Counted(e), id).idsTime = now
    BY <1>1, CountedEntry, NotedEntry DEF Entry, IdsWith, DayOver
  <1>3. e # NoEntry /\ DayOver(e) => IdsOfDay(ip) \subseteq e.ids
    BY <1>1, <1>2 DEF IdsInv, IdsOfDay, DayOver, Elapsed
  <1>4. (now' = now \/ now' = now + 1) /\ admitted'[ip] = admitted[ip]
          => IdsOfDay(ip)' \subseteq IdsOfDay(ip)
    BY <1>1 DEF IdsOfDay
  <1>5. ASSUME NEW id \in Id, NEW f, Through(ip, id, f)
        PROVE  IdsOfDay(ip)' = IdsOfDay(ip) \cup {id} /\ \A i \in Id : admitted'[ip][i] <= now
    BY <1>1, <1>5 DEF IdsOfDay, Through, ClockInv
  <1>6. CASE (now' = now \/ now' = now + 1) /\ Same(ip)
    <2>1. IdsOfDay(ip)' \subseteq IdsOfDay(ip)
      BY <1>4, <1>6 DEF Same
    <2>2. CASE e = NoEntry
      BY <1>6, <2>1, <2>2, FewSubset DEF IdsInv, Same
    <2>3. CASE e # NoEntry
      <3>1. IdsOfDay(ip)' \ e.ids \in SUBSET (IdsOfDay(ip) \ e.ids)
        BY <2>1
      <3>2. Few(IdsOfDay(ip)' \ e.ids, MaxIds + 2)
        BY <2>3, <3>1, FewSubset DEF IdsInv
      <3> QED BY <1>6, <2>3, <3>2 DEF IdsInv, Same
    <2> QED BY <2>2, <2>3
  <1>7. ASSUME NEW id \in Id, e = NoEntry, Through(ip, id, First) PROVE IdsInv(ip)'
    <2>1. blocker'[ip] = First /\ First # NoEntry /\ First.ids = {} /\ First.idsTime = now
      BY <1>1, <1>7 DEF Through, First, Entry
    <2>2. Few(IdsOfDay(ip) \cup {id}, MaxIds + 2)
      <3>1. MaxIds + 1 \in Nat /\ Few(IdsOfDay(ip), MaxIds + 1)
        BY <1>7 DEF IdsInv
      <3>2. Few(IdsOfDay(ip) \cup {id}, (MaxIds + 1) + 1)
        BY ONLY <3>1, FewAdd
      <3> QED BY <3>2
    <2>3. Few({}, MaxIds + 1)
      BY FewNone
    <2>4. Few(IdsOfDay(ip)' \ {}, MaxIds + 2)
      <3>1. IdsOfDay(ip)' \ {} = IdsOfDay(ip) \cup {id}
        BY <1>5, <1>7
      <3> QED BY <2>2, <3>1
    <2>5. \A i \in Id : ~(admitted'[ip][i] > now)
      <3>1. \A i \in Id : admitted'[ip][i] \in Nat
        BY <1>1, <1>7 DEF Through
      <3> QED BY <1>1, <1>5, <1>7, <3>1
    <2> QED BY <2>1, <2>3, <2>4, <2>5 DEF IdsInv
  <1>8. ASSUME NEW id \in Id, e # NoEntry, ~IdsFull(e), Through(ip, id, Noted(Counted(e), id))
        PROVE  IdsInv(ip)'
    <2> DEFINE ids == IdsWith(e, id)
    <2>1. /\ blocker'[ip] = Noted(Counted(e), id) /\ blocker'[ip] # NoEntry
          /\ blocker'[ip].ids = ids /\ blocker'[ip].idsTime = now
      BY <1>2, <1>8 DEF Through, Entry
    <2>2. \A i \in Id : ~(admitted'[ip][i] > now)
      <3>1. \A i \in Id : admitted'[ip][i] \in Nat
        BY <1>1, <1>8 DEF Through
      <3> QED BY <1>1, <1>5, <1>8, <3>1
    <2>3. CASE DayOver(e)
      <3>1. ids = {id} \ e.ids
        BY <2>3 DEF IdsWith
      <3>2. Few(ids, MaxIds + 1)
        <4>1. Few({} \cup {id}, 0 + 1)
          BY FewNone, FewAdd
        <4>2. Few(ids, 1)
          BY <3>1, <4>1, FewSubset
        <4> QED BY <4>2, FewMore
      <3>3. IdsOfDay(ip)' \ ids \in SUBSET e.ids
        BY <1>3, <1>5, <1>8, <2>3, <3>1
      <3>4. Few(IdsOfDay(ip)' \ ids, MaxIds + 2)
        <4>1. Few(IdsOfDay(ip)' \ ids, MaxIds + 1)
          BY <1>8, <3>3, FewSubset DEF IdsInv
        <4> QED BY <4>1, FewMore
      <3> HIDE DEF ids
      <3> QED BY <2>1, <2>2, <3>2, <3>4 DEF IdsInv
    <2>4. CASE ~DayOver(e)
      <3>1. ids = e.ids \cup {id}
        BY <2>4 DEF IdsWith
      <3>2. Few(e.ids, MaxIds)
        <4>1. IsFiniteSet(e.ids) /\ Cardinality(e.ids) \in Nat
          BY <1>8, FS_CardinalityType DEF IdsInv, Few
        <4> QED BY <1>8, <2>4, <4>1 DEF IdsFull, Few
      <3>3. Few(ids, MaxIds + 1)
        <4>1. MaxIds \in Nat
          OBVIOUS
        <4>2. Few(e.ids \cup {id}, MaxIds + 1)
          BY ONLY <3>2, <4>1, FewAdd
        <4> QED BY <3>1, <4>2
      <3>4. IdsOfDay(ip)' \ ids \in SUBSET (IdsOfDay(ip) \ e.ids)
        BY <1>5, <1>8, <3>1
      <3>5. Few(IdsOfDay(ip)' \ ids, MaxIds + 2)
        BY <1>8, <3>4, FewSubset DEF IdsInv
      <3> HIDE DEF ids
      <3> QED BY <2>1, <2>2, <3>3, <3>5 DEF IdsInv
    <2> QED BY <2>3, <2>4
  <1>9. ASSUME NEW id \in Id, e # NoEntry, id \in e.ids, Through(ip, id, Counted(e))
        PROVE  IdsInv(ip)'
    <2>1. /\ blocker'[ip] # NoEntry /\ blocker'[ip].ids = e.ids
          /\ blocker'[ip].idsTime = e.idsTime
      BY <1>2, <1>9 DEF Through, Entry
    <2>2. IdsOfDay(ip)' \ e.ids \in SUBSET (IdsOfDay(ip) \ e.ids)
      BY <1>5, <1>9
    <2>3. Few(IdsOfDay(ip)' \ e.ids, MaxIds + 2)
      BY <1>9, <2>2, FewSubset DEF IdsInv
    <2>4. \A i \in Id : admitted'[ip][i] > e.idsTime => i \in e.ids
      BY <1>9 DEF Through, IdsInv
    <2> QED BY <1>9, <2>1, <2>3, <2>4 DEF IdsInv
  <1>10. CASE /\ e # NoEntry /\ now' = now /\ blocker'[ip] = Counted(e)
              /\ admitted'[ip] = admitted[ip]
    <2>1. /\ blocker'[ip] # NoEntry /\ blocker'[ip].ids = e.ids
          /\ blocker'[ip].idsTime = e.idsTime
      BY <1>2, <1>10 DEF Entry
    <2>2. IdsOfDay(ip)' = IdsOfDay(ip)
      BY <1>10 DEF IdsOfDay
    <2> QED BY <1>10, <2>1, <2>2 DEF IdsInv
  <1>11. CASE /\ e # NoEntry /\ Expired(e) /\ now' = now
              /\ blocker'[ip] = NoEntry /\ admitted'[ip] = admitted[ip]
    <2>1. IdsOfDay(ip)' \in SUBSET e.ids
      BY <1>3, <1>4, <1>11 DEF Expired
    <2>2. Few(IdsOfDay(ip)', MaxIds + 1)
      BY <1>11, <2>1, FewSubset DEF IdsInv
    <2> QED BY <1>11, <2>2 DEF IdsInv
  <1>12. CASE blocker'[ip] = NoEntry /\ now' = now /\ \A id \in Id : admitted'[ip][id] = 0
    <2>1. IdsOfDay(ip)' = {}
      BY <1>1, <1>12 DEF IdsOfDay, ClockInv
    <2>2. Few({}, MaxIds + 1)
      BY FewNone
    <2> QED BY <1>12, <2>1, <2>2 DEF IdsInv
  <1> HIDE DEF e
  <1> QED BY <1>6, <1>7, <1>8, <1>9, <1>10, <1>11, <1>12 DEF BlockerStep, e

\* An address is let through at most 32 times between two pauses of more than a
\* minute, and with at most 603 ids in a day.
THEOREM AddressBounded == Spec => [](BurstBounded /\ IdsBounded)
  <1> USE LimitAssumption, StartAssumption
  <1> DEFINE Inv == \A ip \in Ip : ClockInv(ip) /\ BurstInv(ip) /\ IdsInv(ip)
  <1>1. Init => Inv
    <2> SUFFICES ASSUME Init, NEW ip \in Ip PROVE ClockInv(ip) /\ BurstInv(ip) /\ IdsInv(ip)
      OBVIOUS
    <2>1. /\ now = Start /\ blocker[ip] = NoEntry /\ burst[ip] = 0
          /\ \A id \in Id : admitted[ip][id] = 0
      BY DEF Init
    <2>2. IdsOfDay(ip) = {}
      BY <2>1 DEF IdsOfDay
    <2>3. Few({}, MaxIds + 1)
      BY FewNone
    <2> QED BY <2>1, <2>2, <2>3 DEF ClockInv, BurstInv, IdsInv, Paused, Elapsed
  <1>2. TypeOK /\ Inv /\ [Next]_vars => Inv'
    <2> SUFFICES ASSUME TypeOK, Inv, [Next]_vars, NEW ip \in Ip
                 PROVE  (ClockInv(ip) /\ BurstInv(ip) /\ IdsInv(ip))'
      BY DEF Inv
    <2> QED BY EveryStep, ClockStep, BurstStep, IdsStep
  <1>3. TypeOK /\ Inv => BurstBounded /\ IdsBounded
    <2> SUFFICES ASSUME TypeOK, Inv, NEW ip \in Ip
                 PROVE  burst[ip] <= MaxPerBurst + 2
                        /\ Cardinality(IdsOfDay(ip)) <= 2 * (MaxIds + 1) + 1
      BY DEF BurstBounded, IdsBounded
    <2>1. burst[ip] <= MaxPerBurst + 2
      BY DEF BurstInv
    <2>2. CASE blocker[ip] = NoEntry
      <3>1. Few(IdsOfDay(ip), 2 * (MaxIds + 1) + 1)
        <4>1. MaxIds + 1 \in Nat /\ 2 * (MaxIds + 1) + 1 \in Nat
              /\ MaxIds + 1 <= 2 * (MaxIds + 1) + 1
          OBVIOUS
        <4>2. Few(IdsOfDay(ip), MaxIds + 1)
          BY <2>2 DEF IdsInv
        <4> QED BY ONLY <4>1, <4>2, FewMore
      <3> QED BY <2>1, <3>1 DEF Few
    <2>3. CASE blocker[ip] # NoEntry
      <3>1. Few(blocker[ip].ids \cup (IdsOfDay(ip) \ blocker[ip].ids), (MaxIds + 1) + (MaxIds + 2))
        <4>1. MaxIds + 1 \in Nat /\ MaxIds + 2 \in Nat
          OBVIOUS
        <4>2. Few(blocker[ip].ids, MaxIds + 1)
              /\ Few(IdsOfDay(ip) \ blocker[ip].ids, MaxIds + 2)
          BY <2>3 DEF IdsInv
        <4> QED BY ONLY <4>1, <4>2, FewUnion
      <3>2. Few(IdsOfDay(ip), (MaxIds + 1) + (MaxIds + 2))
        BY <3>1, FewSubset
      <3>3. Few(IdsOfDay(ip), 2 * (MaxIds + 1) + 1)
        BY <3>2
      <3> QED BY <2>1, <3>3 DEF Few
    <2> QED BY <2>2, <2>3
  <1> QED BY <1>1, <1>2, <1>3, TypeCorrect, PTL DEF Spec

-----------------------------------------------------------------------------
(* How often an id is registered. *)

\* Registration t of id is between the read and the write of reg_pk.
InFlight(t, id) == tasks[t].at = "counted" /\ tasks[t].id = id

\* It will write into the record the map has.
Writer(t, id) == InFlight(t, id) /\ tasks[t].record = peer[id]

\* No count of id is later than the last read.
TimesInv(id) ==
  /\ now \in Nat /\ counted[id].last <= now
  /\ \A r \in Task : reg_pk[id][r].time <= counted[id].last
  /\ \A t \in Task : InFlight(t, id) => tasks[t].seen.time <= counted[id].last

\* Before the first record of id there is no count of it.
FirstInv(id) ==
  peer[id] = NoRecord =>
    /\ counted[id].number = 0 /\ counted[id].last = 0
    /\ \A r \in Task : reg_pk[id][r].count = 0 /\ reg_pk[id][r].time = 0
    /\ \A t \in Task : ~(tasks[t].id = id /\ tasks[t].at \in {"given", "counted"})

\* Unless registrations raced, reg_pk of the record in the map, or what the
\* one in flight will write into it, is what the history counts.
CountInv(id) ==
  counted[id].raced = FALSE =>
    /\ counted[id].number <= MaxPerId + 1
    /\ \A t, u \in Task : Writer(t, id) /\ Writer(u, id) => t = u
    /\ (\A t \in Task : ~Writer(t, id)) =>
         \A r \in Task : r = peer[id] =>
           reg_pk[id][r].count = counted[id].number /\ reg_pk[id][r].time = counted[id].last
    /\ \A t \in Task : Writer(t, id) =>
         tasks[t].seen.count = counted[id].number /\ tasks[t].seen.time = counted[id].last

IdInv(id) == TimesInv(id) /\ FirstInv(id) /\ CountInv(id)

\* Nothing of id changes but, perhaps, the time, and a task that looks up.
SameId(id) ==
  /\ now' \in {now, now + 1} /\ peer'[id] = peer[id] /\ reg_pk'[id] = reg_pk[id]
  /\ counted'[id] = counted[id]
  /\ \A t \in Task : \/ tasks'[t] = tasks[t]
                     \/ ~InFlight(t, id) /\ ~InFlight(t, id)'
  /\ peer[id] = NoRecord =>
       \A t \in Task : ~(tasks'[t].id = id /\ tasks'[t].at \in {"given", "counted"})

LEMMA IdTypes ==
  ASSUME TypeOK, NEW id \in Id
  PROVE  /\ now \in Nat /\ counted[id].number \in Nat /\ counted[id].last \in Nat
         /\ counted[id].raced \in BOOLEAN /\ peer[id] \in Record
         /\ \A r \in Task : reg_pk[id][r].count \in Nat /\ reg_pk[id][r].time \in Nat
         /\ \A t \in Task : tasks[t].seen.count \in Nat /\ tasks[t].seen.time \in Nat
  BY DEF TypeOK, RegPk, Registration

LEMMA SameIdStep ==
  ASSUME TypeOK, NEW id \in Id, IdInv(id), SameId(id)
  PROVE  IdInv(id)'
  <1>1. \A t \in Task : /\ InFlight(t, id)' <=> InFlight(t, id)
                        /\ Writer(t, id)' <=> Writer(t, id)
                        /\ InFlight(t, id) => tasks'[t] = tasks[t]
    BY DEF SameId, InFlight, Writer
  <1>2. TimesInv(id)'
    BY <1>1, IdTypes DEF SameId, IdInv, TimesInv
  <1>3. FirstInv(id)'
    BY DEF SameId, IdInv, FirstInv
  <1>4. CountInv(id)'
    BY <1>1 DEF SameId, IdInv, CountInv, Writer
  <1> QED BY <1>2, <1>3, <1>4 DEF IdInv

\* A registration reads reg_pk of its record.
LEMMA ReadStep ==
  ASSUME TypeOK, NEW id \in Id, IdInv(id), NEW t \in Task, ReadCount(t), tasks[t].id = id
  PROVE  IdInv(id)'
  <1> USE LimitAssumption
  <1> DEFINE pause == Elapsed(counted[id].last, IdDur)
             r == tasks[t].record
  <1>1. /\ now' = now /\ peer' = peer /\ reg_pk' = reg_pk /\ ~InFlight(t, id) /\ r \in Task
        /\ CountOf(t) <= MaxPerId /\ tasks[t].at = "given" /\ peer[id] # NoRecord
    BY DEF ReadCount, InFlight, TypeOK, IdInv, FirstInv
  <1>2. /\ counted'[id].number = IF pause THEN 1 ELSE counted[id].number + 1
        /\ counted'[id].last = now
        /\ counted'[id].raced = (Raced(t) \/ (counted[id].raced /\ ~pause))
    BY DEF ReadCount, TypeOK
  <1>3. /\ tasks'[t].at = "counted" /\ tasks'[t].id = id /\ tasks'[t].record = r
        /\ tasks'[t].seen.count = CountOf(t) + 1 /\ tasks'[t].seen.time = now
    BY DEF ReadCount, TypeOK, Registration
  <1>4. \A u \in Task : u # t => tasks'[u] = tasks[u]
    BY DEF ReadCount, TypeOK
  <1>5. \A u \in Task : u # t => /\ InFlight(u, id)' <=> InFlight(u, id)
                                 /\ Writer(u, id)' <=> Writer(u, id)
    BY <1>1, <1>4 DEF InFlight, Writer
  <1>6. CountOf(t) = IF Elapsed(reg_pk[id][r].time, IdDur) THEN 0 ELSE reg_pk[id][r].count
    BY DEF CountOf, RegPkOf
  <1>7. TimesInv(id)'
    <2>1. \A u \in Task : InFlight(u, id)' => tasks'[u].seen.time <= now
      BY <1>3, <1>4, <1>5, IdTypes DEF IdInv, TimesInv
    <2>2. \A o \in Task : reg_pk[id][o].time <= now
      BY IdTypes DEF IdInv, TimesInv
    <2> QED BY <1>1, <1>2, <2>1, <2>2, IdTypes DEF TimesInv
  <1>8. FirstInv(id)'
    BY <1>1 DEF FirstInv
  <1>9. CountInv(id)'
    <2> SUFFICES ASSUME counted'[id].raced = FALSE
                 PROVE  /\ counted'[id].number <= MaxPerId + 1
                        /\ CountOf(t) + 1 = counted'[id].number
                        /\ \A u \in Task : Writer(u, id)' <=> u = t
      BY <1>2, <1>3 DEF CountInv
    <2>1. r = peer[id] /\ \A u \in Task : u # t => ~Writer(u, id)
      BY <1>2 DEF Raced, Writer, InFlight
    <2>2. \A u \in Task : Writer(u, id)' <=> u = t
      BY <1>1, <1>3, <1>5, <2>1 DEF Writer, InFlight
    <2>3. CountOf(t) + 1 = counted'[id].number
      <3>1. CASE pause
        <4>1. Elapsed(reg_pk[id][r].time, IdDur)
          BY <1>1, <3>1, IdTypes DEF Elapsed, IdInv, TimesInv
        <4> QED BY <1>2, <1>6, <3>1, <4>1
      <3>2. CASE ~pause
        <4>1. counted[id].raced = FALSE
          BY <1>2, <3>2, IdTypes
        <4>2. \A u \in Task : ~Writer(u, id)
          BY <1>1, <2>1 DEF Writer
        <4>3. reg_pk[id][r].count = counted[id].number /\ reg_pk[id][r].time = counted[id].last
          BY <1>1, <2>1, <4>1, <4>2 DEF IdInv, CountInv
        <4> QED BY <1>2, <1>6, <3>2, <4>3
      <3> QED BY <3>1, <3>2
    <2>4. CountOf(t) \in Nat
      BY <1>1, <1>6, IdTypes
    <2> QED BY <1>1, <2>2, <2>3, <2>4
  <1> QED BY <1>7, <1>8, <1>9 DEF IdInv

\* It writes it, into the record it was given.
LEMMA WriteStep ==
  ASSUME TypeOK, NEW id \in Id, IdInv(id), NEW t \in Task, WriteCount(t), tasks[t].id = id
  PROVE  IdInv(id)'
  <1> DEFINE r == tasks[t].record
  <1>1. /\ now' = now /\ peer' = peer /\ counted' = counted /\ InFlight(t, id) /\ r \in Task
        /\ peer[id] # NoRecord
        /\ \A o \in Task : reg_pk'[id][o] = IF o = r THEN tasks[t].seen ELSE reg_pk[id][o]
    <2>1. tasks[t].at = "counted" /\ r \in Task /\ reg_pk[id] \in [Task -> RegPk]
      BY DEF WriteCount, TypeOK
    <2>2. reg_pk' = [reg_pk EXCEPT ![id][r] = tasks[t].seen]
      BY DEF WriteCount
    <2>3. \A o \in Task : reg_pk'[id][o] = IF o = r THEN tasks[t].seen ELSE reg_pk[id][o]
      BY <2>1, <2>2 DEF TypeOK
    <2> QED BY <2>1, <2>3 DEF WriteCount, InFlight, IdInv, FirstInv
  <1>2. /\ \A u \in Task : u # t => tasks'[u] = tasks[u]
        /\ tasks'[t].at = "idle"
    BY DEF WriteCount, TypeOK, Idle
  <1>3. /\ ~InFlight(t, id)' /\ ~Writer(t, id)'
        /\ \A u \in Task : u # t => /\ InFlight(u, id)' <=> InFlight(u, id)
                                    /\ Writer(u, id)' <=> Writer(u, id)
    BY <1>1, <1>2 DEF InFlight, Writer
  <1>4. TimesInv(id)'
    BY <1>1, <1>2, <1>3 DEF IdInv, TimesInv
  <1>5. FirstInv(id)'
    BY <1>1 DEF FirstInv
  <1>6. CountInv(id)'
    <2> SUFFICES ASSUME counted[id].raced = FALSE PROVE CountInv(id)'
      BY <1>1 DEF CountInv
    <2>1. CASE Writer(t, id)
      <3>1. r = peer[id] /\ \A u \in Task : ~Writer(u, id)'
        BY <1>3, <2>1 DEF Writer, IdInv, CountInv
      <3>2. reg_pk'[id][r] = tasks[t].seen
        BY <1>1
      <3>3. tasks[t].seen.count = counted[id].number /\ tasks[t].seen.time = counted[id].last
        BY <2>1 DEF IdInv, CountInv
      <3>4. counted[id].number <= MaxPerId + 1
        BY DEF IdInv, CountInv
      <3> QED BY <1>1, <3>1, <3>2, <3>3, <3>4 DEF CountInv
    <2>2. CASE ~Writer(t, id)
      <3>1. r # peer[id]
        BY <1>1, <2>2 DEF Writer
      <3>2. \A o \in Task : o = peer[id] => reg_pk'[id][o] = reg_pk[id][o]
        BY <1>1, <3>1
      <3>3. \A u \in Task : Writer(u, id)' => Writer(u, id) /\ u # t
        BY <1>3
      <3>4. (\A u \in Task : ~Writer(u, id)') => \A u \in Task : ~Writer(u, id)
        BY <1>3, <2>2
      <3> QED BY <1>1, <1>2, <3>2, <3>3, <3>4 DEF IdInv, CountInv
    <2> QED BY <2>1, <2>2
  <1> QED BY <1>4, <1>5, <1>6 DEF IdInv

\* A record is put into the map by its lookup, which is not in flight.
LEMMA PutStep ==
  ASSUME TypeOK, NEW id \in Id, IdInv(id), NEW t \in Task, Put(t, id), now' = now,
         reg_pk' = reg_pk, ~InFlight(t, id), tasks'[t].at # "counted",
         \A u \in Task : u # t => tasks'[u] = tasks[u]
  PROVE  IdInv(id)'
  <1> USE MarkAssumption
  <1>1. peer'[id] = t /\ t # NoRecord
    BY DEF Put, TypeOK
  <1>2. /\ counted'[id].number = counted[id].number /\ counted'[id].last = counted[id].last
        /\ counted'[id].raced = (counted[id].raced \/ peer[id] # NoRecord)
    BY DEF Put, TypeOK
  <1>3. /\ ~InFlight(t, id)'
        /\ \A u \in Task : u # t => (InFlight(u, id)' <=> InFlight(u, id))
    BY DEF InFlight
  <1>4. TimesInv(id)'
    BY <1>2, <1>3 DEF IdInv, TimesInv
  <1>5. FirstInv(id)'
    BY <1>1 DEF FirstInv
  <1>6. CountInv(id)'
    <2> SUFFICES ASSUME counted'[id].raced = FALSE PROVE CountInv(id)'
      BY DEF CountInv
    <2>1. peer[id] = NoRecord
      BY <1>2
    <2>2. \A u \in Task : ~InFlight(u, id)
      BY <2>1 DEF IdInv, FirstInv, InFlight
    <2>3. \A u \in Task : ~Writer(u, id)'
      BY <1>3, <2>2 DEF Writer
    <2>4. /\ counted[id].number = 0 /\ counted[id].last = 0
          /\ \A o \in Task : reg_pk[id][o].count = 0 /\ reg_pk[id][o].time = 0
      BY <2>1 DEF IdInv, FirstInv
    <2> QED BY <1>2, <2>3, <2>4, LimitAssumption DEF CountInv
  <1> QED BY <1>4, <1>5, <1>6 DEF IdInv

\* A task that looks up the record of one id does nothing to another.
LEMMA OtherId ==
  ASSUME TypeOK, NEW id \in Id, NEW t \in Task, now' = now,
         peer'[id] = peer[id], reg_pk'[id] = reg_pk[id], counted'[id] = counted[id],
         \A u \in Task : u # t => tasks'[u] = tasks[u],
         tasks[t].at # "counted" \/ tasks[t].id # id,
         tasks'[t].at \notin {"given", "counted"} \/ tasks'[t].id # id,
         FirstInv(id)
  PROVE  SameId(id)
  <1>1. ~InFlight(t, id) /\ ~InFlight(t, id)'
    BY DEF InFlight
  <1>2. peer[id] = NoRecord =>
          \A u \in Task : ~(tasks'[u].id = id /\ tasks'[u].at \in {"given", "counted"})
    BY DEF FirstInv
  <1> QED BY <1>1, <1>2 DEF SameId

\* A task is given the record of its id that is in the map.
LEMMA FoundId ==
  ASSUME TypeOK, NEW id \in Id, NEW t \in Task, NEW r \in Task, now' = now,
         peer' = peer, reg_pk' = reg_pk, counted' = counted, tasks[t].at \in {"checked", "looking"},
         peer[tasks[t].id] # NoRecord, Given(t, r), FirstInv(id)
  PROVE  SameId(id)
  <1>1. /\ tasks'[t].at = "given" /\ tasks'[t].id = tasks[t].id
        /\ \A u \in Task : u # t => tasks'[u] = tasks[u]
    BY DEF Given, TypeOK, Registration
  <1>2. ~InFlight(t, id) /\ ~InFlight(t, id)'
    BY <1>1 DEF InFlight
  <1>3. peer[id] = NoRecord =>
          \A u \in Task : ~(tasks'[u].id = id /\ tasks'[u].at \in {"given", "counted"})
    BY <1>1 DEF FirstInv
  <1> QED BY <1>1, <1>2, <1>3 DEF SameId

\* The lookups.
LEMMA LookupStep ==
  ASSUME TypeOK, NEW id \in Id, IdInv(id), NEW t \in Task, Find(t) \/ Adopt(t) \/ Default(t)
  PROVE  IdInv(id)'
  <1> USE MarkAssumption
  <1> DEFINE other == tasks[t].id
  <1>1. FirstInv(id) /\ now' = now /\ reg_pk' = reg_pk
    BY DEF IdInv, Find, Adopt, Default
  <1>2. tasks[t].at \in {"checked", "looking", "seeking"} /\ other \in Id /\ peer[other] \in Record
    BY DEF Find, Adopt, Default, TypeOK
  <1>3. \A u \in Task : u # t => tasks'[u] = tasks[u]
    BY DEF Find, Adopt, Default, Given, TypeOK
  <1>4. ASSUME Put(t, other), tasks'[t].at # "counted",
               tasks'[t].at = "idle" \/ tasks'[t].id = other
        PROVE  IdInv(id)'
    <2>1. CASE other = id
      <3>1. ~InFlight(t, id)
        BY <1>2 DEF InFlight
      <3> QED BY <1>1, <1>3, <1>4, <2>1, <3>1, PutStep
    <2>2. CASE other # id
      <3>1. peer'[id] = peer[id] /\ counted'[id] = counted[id] /\ reg_pk'[id] = reg_pk[id]
        BY <1>1, <1>4, <2>2 DEF Put, TypeOK
      <3>2. tasks'[t].at \notin {"given", "counted"} \/ tasks'[t].id # id
        BY <1>4, <2>2
      <3>3. SameId(id)
        BY <1>1, <1>2, <1>3, <3>1, <3>2, OtherId
      <3> QED BY <3>3, SameIdStep
    <2> QED BY <2>1, <2>2
  <1>5. ASSUME NEW r \in Task, Given(t, r) PROVE tasks'[t].at = "given" /\ tasks'[t].id = other
    BY <1>5 DEF Given, TypeOK, Registration
  <1>6. ASSUME tasks' = [tasks EXCEPT ![t] = Idle] PROVE tasks'[t].at = "idle"
    BY <1>6 DEF Idle, TypeOK
  <1>7. ASSUME tasks'[t].at \in {"idle", "looking"}, peer' = peer, counted' = counted
        PROVE  IdInv(id)'
    <2>1. SameId(id)
      BY <1>1, <1>2, <1>3, <1>7, OtherId
    <2> QED BY <2>1, SameIdStep
  <1>8. ASSUME peer[other] # NoRecord, Given(t, peer[other]), peer' = peer, counted' = counted,
               tasks[t].at \in {"checked", "looking"}
        PROVE  IdInv(id)'
    <2>1. peer[other] \in Task
      BY <1>2, <1>8 DEF Record
    <2>2. SameId(id)
      BY <1>1, <1>8, <2>1, FoundId
    <2> QED BY <2>2, SameIdStep
  <1>9. CASE Find(t)
    <2>1. peer' = peer /\ counted' = counted /\ tasks[t].at = "checked"
      BY <1>9 DEF Find
    <2>2. CASE tasks' = [tasks EXCEPT ![t].at = "looking"]
      <3>1. tasks'[t].at = "looking"
        BY <2>2 DEF TypeOK, Registration
      <3> QED BY <1>7, <2>1, <3>1
    <2> QED BY <1>8, <1>9, <2>1, <2>2 DEF Find
  <1>10. CASE Adopt(t)
    <2>1. Put(t, other) /\ (Given(t, t) \/ tasks' = [tasks EXCEPT ![t] = Idle])
      BY <1>10 DEF Adopt
    <2>2. tasks'[t].at # "counted" /\ (tasks'[t].at = "idle" \/ tasks'[t].id = other)
      BY <1>5, <1>6, <2>1
    <2> QED BY <1>4, <2>1, <2>2
  <1>11. CASE Default(t)
    <2>1. CASE tasks[t].at = "looking" /\ peer[other] # NoRecord /\ Given(t, peer[other])
               /\ UNCHANGED <<peer, counted>>
      BY <1>8, <2>1
    <2>2. CASE Given(t, t) /\ Put(t, other)
      <3>1. tasks'[t].at = "given" /\ tasks'[t].id = other
        BY <1>5, <2>2
      <3> QED BY <1>4, <2>2, <3>1
    <2>3. CASE tasks' = [tasks EXCEPT ![t] = Idle] /\ UNCHANGED <<peer, counted>>
      BY <1>6, <1>7, <2>3
    <2> QED BY <1>11, <2>1, <2>2, <2>3 DEF Default
  <1> QED BY <1>9, <1>10, <1>11

LEMMA IdStep ==
  ASSUME TypeOK, NEW id \in Id, IdInv(id), [Next]_vars
  PROVE  IdInv(id)'
  <1>1. FirstInv(id)
    BY DEF IdInv
  <1>2. ASSUME SameId(id) PROVE IdInv(id)'
    BY <1>2, SameIdStep
  <1>3. ASSUME NEW t \in Task, ReadCount(t) \/ WriteCount(t), tasks[t].id # id PROVE SameId(id)
    <2>1. /\ now' = now /\ peer' = peer /\ reg_pk'[id] = reg_pk[id] /\ counted'[id] = counted[id]
          /\ \A u \in Task : u # t => tasks'[u] = tasks[u]
      BY <1>3 DEF ReadCount, WriteCount, TypeOK
    <2>2. tasks'[t].at = "idle" \/ tasks'[t].id = tasks[t].id
      BY <1>3 DEF ReadCount, WriteCount, TypeOK, Idle, Registration
    <2> QED BY <1>1, <1>3, <2>1, <2>2, OtherId
  <1>4. ASSUME NEW t \in Task, NEW ip \in Ip, NEW other \in Id,
               FirstOfAddress(t, ip, other) \/ NextOfAddress(t, ip, other) \/ KnownId(t, ip, other)
        PROVE  SameId(id)
    <2>1. PICK e : LetThrough(t, ip, other, e)
      BY <1>4 DEF FirstOfAddress, NextOfAddress, KnownId
    <2>2. /\ now' = now /\ peer' = peer /\ reg_pk' = reg_pk /\ counted' = counted
          /\ tasks[t].at = "idle" /\ tasks'[t].at = "checked"
          /\ \A u \in Task : u # t => tasks'[u] = tasks[u]
      BY <2>1 DEF LetThrough, TypeOK, Idle
    <2> QED BY <1>1, <2>2, OtherId
  <1>5. ASSUME NEW t \in Task, Refuse(t) \/ \E other \in Id : Seek(t, other) PROVE SameId(id)
    <2>1. /\ now' = now /\ peer' = peer /\ reg_pk' = reg_pk /\ counted' = counted
          /\ tasks[t].at \in {"idle", "given"}
      BY <1>5 DEF Refuse, Seek
    <2>2. PICK f \in {Idle} \cup {[Idle EXCEPT !.at = "seeking", !.id = other] : other \in Id} :
            tasks' = [tasks EXCEPT ![t] = f]
      BY <1>5 DEF Refuse, Seek
    <2>3. f.at \in {"idle", "seeking"}
      <3>1. Idle.at = "idle"
            /\ \A other \in Id : [Idle EXCEPT !.at = "seeking", !.id = other].at = "seeking"
        BY DEF Idle
      <3> HIDE DEF Idle
      <3> QED BY <3>1
    <2>4. tasks'[t] = f /\ \A u \in Task : u # t => tasks'[u] = tasks[u]
      BY <2>2 DEF TypeOK
    <2> QED BY <1>1, <2>1, <2>3, <2>4, OtherId
  <1>6. ASSUME now' \in {now, now + 1}, peer' = peer, reg_pk' = reg_pk, counted' = counted,
               tasks' = tasks
        PROVE  SameId(id)
    BY <1>1, <1>6 DEF SameId, FirstInv
  <1>7. ASSUME NEW ip \in Ip, NEW other \in Id, RefuseNewId(ip, other) PROVE SameId(id)
    BY <1>6, <1>7 DEF RefuseNewId
  <1>8. CASE Sweep
    BY <1>2, <1>6, <1>8 DEF Sweep
  <1>9. ASSUME NEW ip \in Ip, Remove(ip) PROVE SameId(id)
    BY <1>6, <1>9 DEF Remove
  <1>10. CASE AttemptNext
    BY <1>2, <1>6, <1>10 DEF AttemptNext, Attempt, RefuseByCap, registrations
  <1>11. CASE PunchNext
    BY <1>2, <1>6, <1>11 DEF PunchNext, ClearPunches, LogPunch, registrations
  <1>12. CASE Tick
    BY <1>2, <1>6, <1>12 DEF Tick, registrations
  <1>13. CASE UNCHANGED vars
    BY <1>2, <1>6, <1>13 DEF vars, registrations
  <1>14. CASE RegisterNext
    BY <1>2, <1>3, <1>4, <1>5, <1>7, <1>8, <1>9, <1>14, ReadStep, WriteStep, LookupStep
       DEF RegisterNext
  <1> QED BY <1>10, <1>11, <1>12, <1>13, <1>14 DEF Next

\* With no pause of more than 6 s an id is registered at most three times,
\* unless two registrations overlap or its record is replaced under one.
THEOREM IdBounded == Spec => []PerIdBounded
  <1> USE LimitAssumption, StartAssumption
  <1> DEFINE Inv == \A id \in Id : IdInv(id)
  <1>1. Init => Inv
    <2> SUFFICES ASSUME Init, NEW id \in Id PROVE IdInv(id)
      OBVIOUS
    <2>1. /\ now = Start /\ peer[id] = NoRecord
          /\ counted[id].number = 0 /\ counted[id].last = 0
          /\ \A r \in Task : reg_pk[id][r].count = 0 /\ reg_pk[id][r].time = 0
          /\ \A t \in Task : tasks[t].at = "idle"
      BY DEF Init, Idle
    <2> QED BY <2>1 DEF IdInv, TimesInv, FirstInv, CountInv, Writer, InFlight
  <1>2. TypeOK /\ Inv /\ [Next]_vars => Inv'
    <2> SUFFICES ASSUME TypeOK, Inv, [Next]_vars, NEW id \in Id PROVE IdInv(id)'
      BY DEF Inv
    <2> QED BY IdStep
  <1>3. TypeOK /\ Inv => PerIdBounded
    <2> SUFFICES ASSUME TypeOK, Inv, NEW id \in Id
                 PROVE  counted[id].number <= MaxPerId + 1 \/ counted[id].raced
      BY DEF PerIdBounded
    <2> QED BY IdTypes DEF IdInv, CountInv
  <1> QED BY <1>1, <1>2, <1>3, TypeCorrect, PTL DEF Spec

-----------------------------------------------------------------------------
(* How many attempts pass. *)

\* The attempts that passed in the present window of address ip, and those of
\* the last minute that passed before it.
Current(ip) == {p \in passed[ip] : p.time >= attempts[ip].since}
Prior(ip) == {p \in Passed(ip) : p.time < attempts[ip].since}

\* The present window has as many passes as its count says, the first of them
\* at its beginning; one of the last minute before it is not a first one.
WindowInv(ip) ==
  /\ now \in Nat /\ \A p \in passed[ip] : p.time <= now
  /\ ip \in Recent =>
       /\ attempts[ip].since <= now
       /\ attempts[ip].since <= tried[ip]
       /\ IsFiniteSet(Current(ip))
       /\ Cardinality(Current(ip)) = IF attempts[ip].count <= Limit THEN attempts[ip].count
                                     ELSE Limit
       /\ \A p \in Current(ip) : p.nth <= attempts[ip].count
       /\ \E p \in Current(ip) : p.time = attempts[ip].since
       /\ Few(Prior(ip), Limit - 1)
  /\ ip \notin Recent => Few(Passed(ip), Limit - 1) /\ \A p \in Passed(ip) : p.time < now

\* What a step may do to the attempts of address ip.
SameWindow(ip) ==
  /\ now' = now /\ passed'[ip] = passed[ip] /\ tried'[ip] = tried[ip]
  /\ ip \in Recent' <=> ip \in Recent
  /\ ip \in Recent => attempts'[ip] = attempts[ip]

\* The table after the purge: an address that is not Recent is out of it.
LEMMA AttemptsAfter ==
  ASSUME TypeOK, NEW ip \in Ip, Attempt(ip)
  PROVE  /\ now' = now /\ ip \in Recent' /\ DOMAIN attempts' = Recent \cup {ip}
         /\ Recent' = Recent \cup {ip}
         /\ attempts'[ip] = [since |-> Counter(ip).since, count |-> Counter(ip).count + 1]
         /\ \A other \in Recent \ {ip} : attempts'[other] = attempts[other]
         /\ Counter(ip).since \in Nat /\ Counter(ip).count \in Nat
         /\ tried' = [tried EXCEPT ![ip] = now]
         /\ IF Counter(ip).count + 1 <= Limit
            THEN passed' = [passed EXCEPT ![ip] =
                              @ \cup {[time |-> now, nth |-> Counter(ip).count + 1]}]
            ELSE passed' = passed
  <1> USE LimitAssumption
  <1>1. now' = now /\ now \in Nat
    BY DEF Attempt, TypeOK
  <1>2. Counter(ip).since \in Nat /\ Counter(ip).count \in Nat
        /\ now - Counter(ip).since < Window
    BY <1>1 DEF Counter, Recent, TypeOK
  <1> DEFINE entry == [since |-> Counter(ip).since, count |-> Counter(ip).count + 1]
  <1>3. attempts' = [other \in Recent \cup {ip} |-> IF other = ip THEN entry ELSE attempts[other]]
    BY DEF Attempt
  <1>4. DOMAIN attempts' = Recent \cup {ip} /\ attempts'[ip] = entry
        /\ \A other \in Recent \ {ip} : attempts'[other] = attempts[other]
    BY <1>3
  <1>5. Recent' = Recent \cup {ip}
    BY <1>1, <1>2, <1>4 DEF Recent
  <1>6. /\ tried' = [tried EXCEPT ![ip] = now]
        /\ IF Counter(ip).count + 1 <= Limit
           THEN passed' = [passed EXCEPT ![ip] =
                             @ \cup {[time |-> now, nth |-> Counter(ip).count + 1]}]
           ELSE passed' = passed
    BY DEF Attempt
  <1> QED BY <1>1, <1>2, <1>4, <1>5, <1>6

LEMMA CapAfter ==
  ASSUME TypeOK, NEW ip \in Ip, RefuseByCap(ip)
  PROVE  /\ now' = now /\ passed' = passed /\ tried' = tried
         /\ DOMAIN attempts' = Recent /\ Recent' = Recent
         /\ \A other \in Recent : attempts'[other] = attempts[other]
  <1>1. now' = now /\ passed' = passed /\ tried' = tried
    BY DEF RefuseByCap
  <1>2. attempts' = [other \in Recent |-> attempts[other]]
    <2>1. Recent \subseteq DOMAIN attempts
      BY DEF Recent
    <2> QED BY <2>1 DEF RefuseByCap, Restrict
  <1>3. DOMAIN attempts' = Recent /\ \A other \in Recent : attempts'[other] = attempts[other]
    BY <1>2
  <1>4. Recent' = Recent
    BY <1>1, <1>3 DEF Recent
  <1> QED BY <1>1, <1>3, <1>4

\* An attempt keeps the invariant of its address.
LEMMA WindowAttempt ==
  ASSUME TypeOK, NEW ip \in Ip, WindowInv(ip), Attempt(ip)
  PROVE  WindowInv(ip)'
  <1> USE LimitAssumption
  <1> DEFINE c == Counter(ip).count
             pass == [time |-> now, nth |-> c + 1]
  <1>1. /\ now' = now /\ now \in Nat /\ ip \in Recent'
        /\ attempts'[ip].since = Counter(ip).since /\ attempts'[ip].count = c + 1
        /\ c \in Nat /\ Counter(ip).since \in Nat /\ tried'[ip] = now
        /\ IF c + 1 <= Limit THEN passed'[ip] = passed[ip] \cup {pass}
           ELSE passed'[ip] = passed[ip]
    <2>1. passed \in [Ip -> SUBSET Pass] /\ tried \in [Ip -> Nat] /\ now \in Nat
      BY DEF TypeOK
    <2>2. /\ now' = now /\ ip \in Recent' /\ c \in Nat /\ Counter(ip).since \in Nat
          /\ attempts'[ip] = [since |-> Counter(ip).since, count |-> Counter(ip).count + 1]
      BY AttemptsAfter
    <2>3. tried' = [tried EXCEPT ![ip] = now]
          /\ IF c + 1 <= Limit THEN passed' = [passed EXCEPT ![ip] = @ \cup {pass}]
             ELSE passed' = passed
      BY AttemptsAfter
    <2> HIDE DEF pass
    <2> QED BY <2>1, <2>2, <2>3
  <1>2. /\ passed[ip] \subseteq Pass /\ pass \in Pass /\ pass.time = now /\ pass.nth = c + 1
        /\ \A p \in passed[ip] : p.time \in Nat /\ p.nth \in Nat
    BY <1>1 DEF TypeOK, Pass
  <1>3. \A p \in passed'[ip] : p.time <= now
    BY <1>1, <1>2 DEF WindowInv
  <1> HIDE DEF pass
  <1>4. CASE ip \in Recent
    <2>1. Counter(ip) = attempts[ip] /\ attempts[ip].since <= now
      BY <1>4 DEF Counter, WindowInv
    <2>2. Current(ip)' = IF c + 1 <= Limit THEN Current(ip) \cup {pass} ELSE Current(ip)
      BY <1>1, <1>2, <2>1 DEF Current
    <2>3. pass \notin Current(ip)
      BY <1>1, <1>2, <1>4, <2>1 DEF WindowInv, Current
    <2>4. IsFiniteSet(Current(ip)')
          /\ Cardinality(Current(ip)') = IF c + 1 <= Limit THEN c + 1 ELSE Limit
      <3>1. IsFiniteSet(Current(ip)) /\ Cardinality(Current(ip)) = IF c <= Limit THEN c ELSE Limit
        BY <1>4, <2>1 DEF WindowInv
      <3>2. CASE c + 1 <= Limit
        <4>1. IsFiniteSet(Current(ip) \cup {pass})
              /\ Cardinality(Current(ip) \cup {pass}) = Cardinality(Current(ip)) + 1
          BY <2>3, <3>1, FS_AddElement
        <4> QED BY <1>1, <2>2, <3>1, <3>2, <4>1
      <3>3. CASE ~(c + 1 <= Limit)
        BY <1>1, <2>2, <3>1, <3>3
      <3> QED BY <3>2, <3>3
    <2>5. /\ \A p \in Current(ip)' : p.nth <= c + 1
          /\ \E p \in Current(ip)' : p.time = attempts[ip].since
      <3>1. \A p \in Current(ip) : p.nth <= c /\ p.nth \in Nat
        BY <1>2, <1>4, <2>1 DEF WindowInv, Current
      <3>2. \E p \in Current(ip) : p.time = attempts[ip].since
        BY <1>4 DEF WindowInv
      <3> QED BY <1>1, <1>2, <2>2, <3>1, <3>2
    <2>6. Prior(ip)' = Prior(ip)
      BY <1>1, <1>2, <2>1 DEF Prior, Passed, InWindow
    <2> QED BY <1>1, <1>3, <1>4, <2>1, <2>4, <2>5, <2>6 DEF WindowInv
  <1>5. CASE ip \notin Recent
    <2>1. Counter(ip).since = now /\ c = 0
      BY <1>5 DEF Counter
    <2>2. passed'[ip] = passed[ip] \cup {pass}
      BY <1>1, <2>1
    <2>3. \A p \in passed[ip] : ~(p.time >= now)
      BY <1>1, <1>2, <1>5 DEF WindowInv, Passed, InWindow
    <2>4. Current(ip)' = {pass}
      BY <1>1, <1>2, <2>1, <2>2, <2>3 DEF Current
    <2>5. IsFiniteSet({pass}) /\ Cardinality({pass}) = 1
      BY FS_Singleton
    <2>6. Prior(ip)' \in SUBSET Passed(ip)
      BY <1>1, <1>2, <2>1, <2>2 DEF Prior, Passed, InWindow
    <2>7. Few(Prior(ip)', Limit - 1)
      <3>1. Limit - 1 \in Nat /\ Few(Passed(ip), Limit - 1)
        BY <1>5 DEF WindowInv
      <3> QED BY ONLY <2>6, <3>1, FewSubset
    <2> QED BY <1>1, <1>2, <1>3, <2>1, <2>4, <2>5, <2>7 DEF WindowInv
  <1> QED BY <1>4, <1>5

\* So does the clock.
LEMMA WindowTick ==
  ASSUME TypeOK, NEW ip \in Ip, WindowInv(ip), Tick
  PROVE  WindowInv(ip)'
  <1> USE LimitAssumption
  <1>1. /\ now' = now + 1 /\ now \in Nat /\ attempts' = attempts /\ tried' = tried
        /\ passed'[ip] = Passed(ip)
    BY DEF Tick, TypeOK
  <1>2. \A p \in passed[ip] : p.time \in Nat /\ p.time <= now
    BY DEF TypeOK, Pass, WindowInv
  <1>3. Recent' \subseteq Recent /\ Passed(ip)' \in SUBSET Passed(ip)
    BY <1>1, <1>2 DEF Recent, Passed, InWindow, TypeOK
  <1>4. \A p \in passed'[ip] : p.time <= now /\ p.time \in Nat
    BY <1>1, <1>2 DEF Passed
  <1>5. Limit - 1 \in Nat
    OBVIOUS
  <1>6. CASE ip \in Recent'
    <2>1. ip \in Recent /\ attempts[ip].since \in Nat /\ now - attempts[ip].since < Window
      BY <1>1, <1>3, <1>6 DEF Recent, TypeOK
    <2>2. Current(ip)' = Current(ip)
      BY <1>1, <1>2, <2>1 DEF Current, Passed, InWindow
    <2>3. Prior(ip)' \in SUBSET Prior(ip)
      BY <1>1, <1>3 DEF Prior
    <2>4. Few(Prior(ip), Limit - 1)
      BY <2>1 DEF WindowInv
    <2>5. Few(Prior(ip)', Limit - 1)
      BY ONLY <1>5, <2>3, <2>4, FewSubset
    <2> QED BY <1>1, <1>4, <1>6, <2>1, <2>2, <2>5 DEF WindowInv
  <1>7. CASE ip \notin Recent'
    <2>1. \A p \in Passed(ip)' : p.time < now'
      BY <1>1, <1>4 DEF Passed
    <2>2. Few(Passed(ip)', Limit - 1)
      <3>1. CASE ip \notin Recent
        <4>1. Few(Passed(ip), Limit - 1)
          BY <3>1 DEF WindowInv
        <4> QED BY ONLY <1>3, <1>5, <4>1, FewSubset
      <3>2. CASE ip \in Recent
        <4>1. ip \in DOMAIN attempts /\ attempts[ip].since \in Nat
              /\ now + 1 - attempts[ip].since >= Window
          BY <1>1, <1>7, <3>2 DEF Recent, TypeOK
        <4>2. PICK first \in Current(ip) : first.time = attempts[ip].since
          BY <3>2 DEF WindowInv
        <4>3. Passed(ip)' \in SUBSET (Current(ip) \ {first})
          BY <1>1, <1>2, <4>1, <4>2 DEF Passed, InWindow, Current
        <4>4. Few(Current(ip) \ {first}, Limit - 1)
          <5>1. IsFiniteSet(Current(ip)) /\ Cardinality(Current(ip)) <= Limit
                /\ Cardinality(Current(ip)) \in Nat
            BY <3>2, FS_CardinalityType DEF WindowInv
          <5>2. IsFiniteSet(Current(ip) \ {first})
                /\ Cardinality(Current(ip) \ {first}) = Cardinality(Current(ip)) - 1
            BY <4>2, <5>1, FS_RemoveElement
          <5>3. Cardinality(Current(ip) \ {first}) <= Limit - 1
            BY <5>1, <5>2
          <5> QED BY <5>2, <5>3 DEF Few
        <4> QED BY ONLY <1>5, <4>3, <4>4, FewSubset
      <3> QED BY <3>1, <3>2
    <2> QED BY <1>1, <1>4, <1>7, <2>1, <2>2 DEF WindowInv
  <1> QED BY <1>6, <1>7

\* What else happens, attempts of other addresses included, leaves the window
\* of address ip alone.
LEMMA WindowSame ==
  ASSUME TypeOK, NEW ip \in Ip, WindowInv(ip), SameWindow(ip)
  PROVE  WindowInv(ip)'
  <1>1. Passed(ip)' = Passed(ip)
    BY DEF SameWindow, Passed, InWindow
  <1>2. ip \in Recent => Current(ip)' = Current(ip) /\ Prior(ip)' = Prior(ip)
    BY <1>1 DEF SameWindow, Current, Prior
  <1> QED BY <1>1, <1>2 DEF WindowInv, SameWindow

\* The last answer tells of the table it was given by.
AnswerInv ==
  \A a \in answer :
    /\ a.is = "limit" => a.ip \in Recent /\ attempts[a.ip].count > Limit
    /\ a.is = "cap" => a.ip \notin Recent /\ Cardinality(Recent) >= Cap

AttemptInv == AnswerInv /\ \A ip \in Ip : WindowInv(ip)

LEMMA AttemptStep ==
  ASSUME TypeOK, AttemptInv, [Next]_vars
  PROVE  AttemptInv'
  <1> USE LimitAssumption
  <1>1. CASE RegisterNext \/ PunchNext \/ UNCHANGED vars
    <2>1. /\ now' = now /\ attempts' = attempts /\ passed' = passed /\ tried' = tried
          /\ answer' = answer
      <3>1. ASSUME NEW t \in Task, NEW ip \in Ip, NEW id \in Id,
                   FirstOfAddress(t, ip, id) \/ NextOfAddress(t, ip, id) \/ KnownId(t, ip, id)
            PROVE  now' = now /\ UNCHANGED logins
        BY <3>1 DEF FirstOfAddress, NextOfAddress, KnownId, LetThrough
      <3>2. CASE UNCHANGED vars
        BY <3>2 DEF vars, logins
      <3>3. CASE RegisterNext
        BY <3>1, <3>3 DEF RegisterNext, RefuseNewId, Seek, Find, Adopt, Default, Refuse, ReadCount,
                          WriteCount, Sweep, Remove, logins
      <3>4. CASE PunchNext
        BY <3>4 DEF PunchNext, ClearPunches, LogPunch, logins
      <3> QED BY <1>1, <3>2, <3>3, <3>4
    <2>2. Recent' = Recent
      BY <2>1 DEF Recent
    <2>3. \A ip \in Ip : WindowInv(ip)'
      BY <2>1, <2>2, WindowSame DEF SameWindow, AttemptInv
    <2>4. AnswerInv'
      BY <2>1, <2>2 DEF AnswerInv, AttemptInv
    <2> QED BY <2>3, <2>4 DEF AttemptInv
  <1>2. CASE Tick
    <2>1. \A ip \in Ip : WindowInv(ip)'
      BY <1>2, WindowTick DEF AttemptInv
    <2>2. AnswerInv'
      BY <1>2 DEF Tick, None, AnswerInv
    <2> QED BY <2>1, <2>2 DEF AttemptInv
  <1>3. ASSUME NEW ip \in Ip, Attempt(ip) PROVE AttemptInv'
    <2>1. ASSUME NEW other \in Ip, other # ip PROVE WindowInv(other)'
      <3>1. passed'[other] = passed[other] /\ tried'[other] = tried[other]
        <4>1. passed \in [Ip -> SUBSET Pass] /\ tried \in [Ip -> Nat]
          BY DEF TypeOK
        <4>2. tried' = [tried EXCEPT ![ip] = now]
              /\ (passed' = passed \/ \E p : passed' = [passed EXCEPT ![ip] = p])
          BY <1>3 DEF Attempt
        <4> QED BY <2>1, <4>1, <4>2
      <3>2. SameWindow(other)
        BY <1>3, <2>1, <3>1, AttemptsAfter DEF SameWindow
      <3> QED BY <3>2, WindowSame DEF AttemptInv
    <2>2. WindowInv(ip)'
      BY <1>3, WindowAttempt DEF AttemptInv
    <2>3. AnswerInv'
      <3>1. answer' = {[ip |-> ip, is |-> IF Counter(ip).count + 1 <= Limit
                                          THEN "passed" ELSE "limit"]}
        BY <1>3 DEF Attempt
      <3>2. ip \in Recent' /\ attempts'[ip].count = Counter(ip).count + 1
            /\ Counter(ip).count \in Nat
        <4>1. /\ ip \in Recent' /\ Counter(ip).count \in Nat
              /\ attempts'[ip] = [since |-> Counter(ip).since, count |-> Counter(ip).count + 1]
          BY <1>3, AttemptsAfter
        <4> QED BY <4>1
      <3>3. CASE Counter(ip).count + 1 <= Limit
        <4>1. answer' = {[ip |-> ip, is |-> "passed"]}
          BY <3>1, <3>3
        <4> QED BY <4>1 DEF AnswerInv
      <3>4. CASE ~(Counter(ip).count + 1 <= Limit)
        <4>1. answer' = {[ip |-> ip, is |-> "limit"]}
          BY <3>1, <3>4
        <4>2. attempts'[ip].count > Limit
          BY <3>2, <3>4
        <4> QED BY <3>2, <4>1, <4>2 DEF AnswerInv
      <3> QED BY <3>3, <3>4
    <2> QED BY <2>1, <2>2, <2>3 DEF AttemptInv
  <1>4. ASSUME NEW ip \in Ip, RefuseByCap(ip) PROVE AttemptInv'
    <2>1. \A other \in Ip : WindowInv(other)'
      <3>1. \A other \in Ip : SameWindow(other)
        BY <1>4, CapAfter DEF SameWindow
      <3> QED BY <3>1, WindowSame DEF AttemptInv
    <2>2. AnswerInv'
      <3>1. answer' = {[ip |-> ip, is |-> "cap"]} /\ ip \notin Recent
            /\ Cardinality(Recent) >= Cap
        BY <1>4 DEF RefuseByCap
      <3>2. Recent' = Recent
        BY <1>4, CapAfter
      <3> QED BY <3>1, <3>2 DEF AnswerInv
    <2> QED BY <2>1, <2>2 DEF AttemptInv
  <1> QED BY <1>1, <1>2, <1>3, <1>4 DEF Next, AttemptNext

\* Fewer than twice the limit of an address pass in a minute, and an attempt is
\* refused only after as many as are allowed, or for want of room.
THEOREM AttemptsLimited == Spec => [](AttemptsBounded /\ RefusedForCause)
  <1> USE LimitAssumption, StartAssumption
  <1>1. Init => AttemptInv
    <2> SUFFICES ASSUME Init PROVE AttemptInv
      OBVIOUS
    <2>1. Recent = {}
      BY DEF Init, Recent
    <2>2. \A ip \in Ip : passed[ip] = {} /\ Passed(ip) = {}
      BY DEF Init, Passed
    <2>3. Few({}, Limit - 1)
      <3>1. Limit - 1 \in Nat
        OBVIOUS
      <3> QED BY <3>1, FewNone
    <2> QED BY <2>1, <2>2, <2>3 DEF Init, AttemptInv, AnswerInv, WindowInv, None
  <1>2. TypeOK /\ AttemptInv => AttemptsBounded /\ RefusedForCause
    <2> SUFFICES ASSUME TypeOK, AttemptInv PROVE AttemptsBounded /\ RefusedForCause
      OBVIOUS
    <2>1. Limit - 1 \in Nat /\ Limit \in Nat
      OBVIOUS
    <2>2. ASSUME NEW ip \in Ip, ip \in Recent
          PROVE  /\ Passed(ip) = Current(ip) \cup Prior(ip)
                 /\ Few(Passed(ip), Limit + (Limit - 1))
      <3>1. Current(ip) \subseteq Passed(ip)
        BY <2>2 DEF Current, Passed, InWindow, Recent, TypeOK, Pass
      <3>2. Passed(ip) = Current(ip) \cup Prior(ip)
        BY <2>2, <3>1 DEF Current, Passed, Prior, Recent, TypeOK, Pass
      <3>3. Few(Current(ip), Limit) /\ Few(Prior(ip), Limit - 1)
        BY <2>2 DEF Few, AttemptInv, WindowInv
      <3>4. Few(Current(ip) \cup Prior(ip), Limit + (Limit - 1))
        BY ONLY <2>1, <3>3, FewUnion
      <3> QED BY <3>2, <3>4
    <2>3. ASSUME NEW ip \in Ip PROVE IsFiniteSet(Passed(ip)) /\ Cardinality(Passed(ip)) < 2 * Limit
      <3>1. CASE ip \in Recent
        <4>1. IsFiniteSet(Passed(ip)) /\ Cardinality(Passed(ip)) <= Limit + (Limit - 1)
              /\ Cardinality(Passed(ip)) \in Nat
          BY <2>2, <3>1, FS_CardinalityType DEF Few
        <4> QED BY <4>1
      <3>2. CASE ip \notin Recent
        <4>1. IsFiniteSet(Passed(ip)) /\ Cardinality(Passed(ip)) <= Limit - 1
              /\ Cardinality(Passed(ip)) \in Nat
          BY <3>2, FS_CardinalityType DEF Few, AttemptInv, WindowInv
        <4> QED BY <4>1
      <3> QED BY <3>1, <3>2
    <2>4. ASSUME NEW a \in answer, a.is = "limit" PROVE Cardinality(Passed(a.ip)) >= Limit
      <3>1. a.ip \in Ip /\ a.ip \in Recent /\ attempts[a.ip].count > Limit
        BY <2>4 DEF AttemptInv, AnswerInv, TypeOK, Answer
      <3>2. attempts[a.ip].count \in Nat
        BY <3>1 DEF Recent, TypeOK
      <3>3. Cardinality(Current(a.ip)) = Limit
        BY <3>1, <3>2 DEF AttemptInv, WindowInv
      <3>4. Current(a.ip) \in SUBSET Passed(a.ip) /\ IsFiniteSet(Passed(a.ip))
        BY <2>2, <2>3, <3>1
      <3>5. Cardinality(Current(a.ip)) <= Cardinality(Passed(a.ip))
        BY <3>4, FS_Subset
      <3> QED BY <3>3, <3>5
    <2>5. ASSUME NEW a \in answer, a.is = "cap"
          PROVE  Cardinality({ip \in Ip \ {a.ip} : InWindow(tried[ip])}) >= Cap
      <3> DEFINE others == {ip \in Ip \ {a.ip} : InWindow(tried[ip])}
      <3>1. a.ip \notin Recent /\ Cardinality(Recent) >= Cap
        BY <2>5 DEF AttemptInv, AnswerInv
      <3>2. Recent \in SUBSET others
        <4>1. \A ip \in Recent : /\ ip \in Ip /\ attempts[ip].since \in Nat /\ tried[ip] \in Nat
                                 /\ attempts[ip].since <= tried[ip]
                                 /\ now - attempts[ip].since < Window /\ now \in Nat
          BY DEF Recent, TypeOK, AttemptInv, WindowInv
        <4> QED BY <3>1, <4>1 DEF InWindow
      <3>3. others \in SUBSET Ip
        OBVIOUS
      <3>4. IsFiniteSet(others)
        BY <3>3, FiniteAssumption, FS_Subset
      <3> HIDE DEF others
      <3>5. Cardinality(Recent) <= Cardinality(others) /\ Cardinality(Recent) \in Nat
            /\ Cardinality(others) \in Nat
        BY <3>2, <3>4, FS_Subset, FS_CardinalityType
      <3>6. Cardinality(others) >= Cap
        BY <3>1, <3>5
      <3> QED BY <3>6 DEF others
    <2> QED BY <2>3, <2>4, <2>5 DEF AttemptsBounded, RefusedForCause
  <1> QED BY <1>1, <1>2, AttemptStep, TypeCorrect, PTL DEF Spec

-----------------------------------------------------------------------------
(* What the log leaves out. *)

\* The log is in the order of time, up to now.
PunchInv ==
  /\ PunchLogDedupes
  /\ \A k \in DOMAIN reqs : reqs[k].tm <= now
  /\ \A j, k \in DOMAIN reqs : j < k => reqs[j].tm <= reqs[k].tm

\* Of some numbers up to n one is the greatest: the one with the fewest above it.
LEMMA LatestExists ==
  ASSUME NEW n \in Nat, NEW S \in SUBSET (1..n), S # {}
  PROVE  \E k \in S : \A other \in S : other <= k
  <1> DEFINE Above(k) == {other \in S : other > k}
             Sets == {Above(k) : k \in S}
             R == StrictSubsetOrdering(S)
  <1>1. IsFiniteSet(S)
    <2>1. n \in Int /\ 1 \in Int
      OBVIOUS
    <2>2. IsFiniteSet(1..n)
      BY ONLY <2>1, FS_Interval
    <2> QED BY <2>2, FS_Subset
  <1>2. IsWellFoundedOn(R, SUBSET S)
    BY <1>1, FS_StrictSubsetOrderingWellFounded, FS_FiniteSubsetsOfFinite
  <1>3. Sets \subseteq SUBSET S /\ Sets # {}
    OBVIOUS
  <1>4. PICK least \in Sets : \A y \in Sets : ~ (<<y, least>> \in R)
    <2> HIDE DEF Sets, R
    <2> QED BY <1>2, <1>3, WFMin
  <1>5. PICK k \in S : least = Above(k)
    BY <1>4
  <1>6. ASSUME NEW other \in S, other > k PROVE FALSE
    <2> k \in Int /\ other \in Int /\ \A i \in S : i \in Int
      OBVIOUS
    <2>1. Above(other) \in Sets /\ Above(other) \in SUBSET S /\ Above(k) \in SUBSET S
      OBVIOUS
    <2>2. Above(other) \subseteq Above(k)
      <3>1. ASSUME NEW i \in Above(other) PROVE i \in Above(k)
        <4>1. i \in S /\ i > other /\ i \in Int
          BY <3>1
        <4> QED BY <1>6, <4>1
      <3> QED BY <3>1
    <2>3. Above(other) # Above(k)
      <3>1. other \in Above(k) /\ other \notin Above(other)
        BY <1>6
      <3> QED BY <3>1
    <2>4. <<Above(other), Above(k)>> \in R
      BY <2>1, <2>2, <2>3 DEF StrictSubsetOrdering
    <2> QED BY <1>4, <1>5, <2>1, <2>4
  <1>7. \A other \in S : other <= k
    BY <1>6
  <1> QED BY <1>7

\* What is not left out is far from the last entry of its pair, or late.
LEMMA LogStep ==
  ASSUME TypeOK, PunchInv, NEW ip \in Ip, NEW id \in Id, LogPunch(ip, id)
  PROVE  PunchInv'
  <1> USE LimitAssumption
  <1> DEFINE new == [ip |-> ip, id |-> id, tm |-> now]
  <1>1. /\ now \in Nat /\ now' = now /\ reqs \in Seq(PunchReq) /\ Len(reqs) \in Nat
        /\ DOMAIN reqs = 1..Len(reqs)
        /\ \A k \in DOMAIN reqs : reqs[k].tm \in Nat
    <2>1. reqs \in Seq(PunchReq) /\ now \in Nat /\ now' = now
      BY DEF TypeOK, LogPunch
    <2>2. DOMAIN reqs = 1..Len(reqs) /\ Len(reqs) \in Nat
          /\ \A k \in DOMAIN reqs : reqs[k] \in PunchReq
      BY <2>1
    <2> QED BY <2>1, <2>2 DEF PunchReq
  <1>2. /\ DOMAIN reqs' = 1 .. Len(reqs) + 1
        /\ \A k \in DOMAIN reqs : reqs'[k] = reqs[k]
        /\ reqs'[Len(reqs) + 1] = new
    BY <1>1 DEF LogPunch
  <1>3. /\ \A k \in DOMAIN reqs' : k \in DOMAIN reqs \/ k = Len(reqs) + 1
        /\ \A j \in DOMAIN reqs : j < Len(reqs) + 1
    BY <1>1, <1>2
  <1>4. new.ip = ip /\ new.id = id /\ new.tm = now
    OBVIOUS
  <1> HIDE DEF new
  <1>5. /\ \A k \in DOMAIN reqs' : reqs'[k].tm <= now
        /\ \A j, k \in DOMAIN reqs' : j < k => reqs'[j].tm <= reqs'[k].tm
    BY <1>1, <1>2, <1>3, <1>4 DEF PunchInv
  <1>6. ASSUME NEW j \in DOMAIN reqs, reqs[j].ip = ip, reqs[j].id = id, now - reqs[j].tm < DedupeDur
        PROVE  Len(reqs) + 1 - j > PunchTail
    <2> SUFFICES ASSUME j + PunchTail > Len(reqs) PROVE FALSE
      BY <1>1
    <2> DEFINE R == RecentPunches(ip, id)
    <2>1. j \in R
      BY <1>6 DEF RecentPunches
    <2>2. \A k \in R : k \in 1..Len(reqs)
      BY <1>1 DEF RecentPunches
    <2>3. PICK k \in R : \A other \in R : other <= k
      <3>1. R \in SUBSET (1..Len(reqs)) /\ R # {}
        BY <2>1, <2>2
      <3> HIDE DEF R
      <3> QED BY <1>1, <3>1, LatestExists
    <2>4. ~(now - reqs[k].tm < DedupeDur)
      BY <2>3 DEF LogPunch, PunchLogged
    <2>5. reqs[j].tm <= reqs[k].tm
      <3>1. k \in DOMAIN reqs /\ j <= k
        BY <1>1, <2>1, <2>2, <2>3
      <3> QED BY <1>1, <3>1 DEF PunchInv
    <2> QED BY <1>1, <1>6, <2>2, <2>3, <2>4, <2>5
  <1>7. PunchLogDedupes'
    <2> SUFFICES ASSUME NEW j \in DOMAIN reqs', NEW k \in DOMAIN reqs', j < k,
                        reqs'[j].ip = reqs'[k].ip, reqs'[j].id = reqs'[k].id,
                        reqs'[k].tm - reqs'[j].tm < DedupeDur
                 PROVE  k - j > PunchTail
      BY DEF PunchLogDedupes
    <2>1. j \in DOMAIN reqs
      BY <1>1, <1>2, <1>3
    <2>2. CASE k \in DOMAIN reqs
      BY <1>2, <2>1, <2>2 DEF PunchLogDedupes, PunchInv
    <2>3. CASE k = Len(reqs) + 1
      BY <1>2, <1>4, <1>6, <2>1, <2>3
    <2> QED BY <1>3, <2>2, <2>3
  <1> QED BY <1>1, <1>5, <1>7 DEF PunchInv

\* What else happens leaves the log alone.
LEMMA LogSame ==
  ASSUME TypeOK, PunchInv, reqs' = reqs, now' \in {now, now + 1}
  PROVE  PunchInv'
  <1>1. now \in Nat /\ \A k \in DOMAIN reqs : reqs[k].tm \in Nat
    <2>1. reqs \in Seq(PunchReq) /\ now \in Nat
      BY DEF TypeOK
    <2>2. \A k \in DOMAIN reqs : reqs[k] \in PunchReq
      BY <2>1
    <2> QED BY <2>1, <2>2 DEF PunchReq
  <1>2. PunchLogDedupes'
    BY DEF PunchInv, PunchLogDedupes
  <1>3. \A k \in DOMAIN reqs' : reqs'[k].tm <= now'
    BY <1>1 DEF PunchInv
  <1> QED BY <1>2, <1>3 DEF PunchInv

\* Entries of a pair are a minute or more than 30 entries apart.
THEOREM PunchesDedupe == Spec => []PunchLogDedupes
  <1>1. Init => PunchInv
    BY DEF Init, PunchInv, PunchLogDedupes
  <1>2. TypeOK /\ PunchInv /\ [Next]_vars => PunchInv'
    <2> SUFFICES ASSUME TypeOK, PunchInv, [Next]_vars PROVE PunchInv'
      OBVIOUS
    <2>1. CASE PunchNext
      <3>1. CASE ClearPunches
        BY <3>1 DEF ClearPunches, PunchInv, PunchLogDedupes
      <3> QED BY <2>1, <3>1, LogStep DEF PunchNext
    <2>2. CASE RegisterNext \/ UNCHANGED vars
      <3>1. ASSUME NEW t \in Task, NEW ip \in Ip, NEW id \in Id,
                   FirstOfAddress(t, ip, id) \/ NextOfAddress(t, ip, id) \/ KnownId(t, ip, id)
            PROVE  now' = now /\ reqs' = reqs
        BY <3>1 DEF FirstOfAddress, NextOfAddress, KnownId, LetThrough
      <3>2. now' = now /\ reqs' = reqs
        BY <2>2, <3>1 DEF RegisterNext, RefuseNewId, Seek, Find, Adopt, Default, Refuse, ReadCount,
                          WriteCount, Sweep, Remove, vars
      <3> QED BY <3>2, LogSame
    <2>3. CASE AttemptNext \/ Tick
      BY <2>3, LogSame DEF AttemptNext, Attempt, RefuseByCap, Tick
    <2> QED BY <2>1, <2>2, <2>3 DEF Next
  <1>3. PunchInv => PunchLogDedupes
    BY DEF PunchInv
  <1> QED BY <1>1, <1>2, <1>3, TypeCorrect, PTL DEF Spec
=============================================================================
