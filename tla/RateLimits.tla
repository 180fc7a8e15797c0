------------------------------- MODULE RateLimits -------------------------------
(***************************************************************************)
(* The limits on registrations in hbbs and on logins and audit records in  *)
(* openuu-account, and the log of punch hole requests in hbbs              *)
(* (src/src/rendezvous_server/relay.rs, udp.rs, punch.rs, console.rs,      *)
(* src/src/account/api.rs, audit.rs).                                      *)
(*                                                                         *)
(* A registration passes check_ip_blocker, which counts per address under  *)
(* one lock, and then the count of its id, reg_pk, which is read under one *)
(* lock and written back under another. reg_pk is of the record the task   *)
(* was given by PeerMap, where a lookup that found nothing in memory may   *)
(* replace it at any time by one loaded from the database. An attempt (a   *)
(* login or an audit record) is counted per address in a window that       *)
(* begins with its first one. The log leaves out what it holds already, as *)
(* far as it looks back.                                                   *)
(* A refusal that changes nothing is not a step.                           *)
(*                                                                         *)
(* Time is whole seconds.                                                  *)
(***************************************************************************)
EXTENDS Naturals, Sequences, FiniteSets, Functions

CONSTANTS
  Ip, Id,
  Task,         \* the UDP loop and the connections that register or look up
  NoId, NoEntry, NoRecord,
  BlockDur,     \* IP_BLOCK_DUR
  MaxPerBurst,  \* 30, of an address
  DayDur,       \* DAY_SECONDS
  MaxIds,       \* 300, of an address
  IdDur,        \* 6 s
  MaxPerId,     \* 2
  Window,       \* 60 s
  Limit,        \* 10 logins, PER_MINUTE audit records
  Cap,          \* 10000 addresses
  PunchTail,    \* 30, of the log
  DedupeDur,    \* PUNCH_REQ_DEDUPE_SEC
  Start,        \* the time hbbs starts at
  MaxTime       \* bound on the clock

ASSUME MarkAssumption ==
  /\ NoId \notin Id /\ NoRecord \notin Task
  /\ NoEntry \notin [count : Nat, countTime : Nat, ids : SUBSET Id, idsTime : Nat]
ASSUME FiniteAssumption == IsFiniteSet(Ip)
ASSUME LimitAssumption ==
  /\ BlockDur \in Nat /\ MaxPerBurst \in Nat
  /\ DayDur \in Nat /\ MaxIds \in Nat
  /\ IdDur \in Nat /\ MaxPerId \in Nat
  /\ Window \in Nat \ {0} /\ Limit \in Nat \ {0} /\ Cap \in Nat
  /\ PunchTail \in Nat /\ DedupeDur \in Nat
\* Time 0 is long ago (get_expired_time).
ASSUME StartAssumption ==
  /\ Start \in Nat /\ MaxTime \in Nat
  /\ \A duration \in {BlockDur, DayDur, IdDur, Window} : duration < Start

VARIABLES
  now,
  blocker,    \* IP_BLOCKER
  peer,       \* PeerMap's map: the record of each id in memory
  reg_pk,     \* Peer::reg_pk of each record of each id
  tasks,      \* registrations past check_ip_blocker, and lookups
  attempts,   \* attempts, audit_rate
  reqs,       \* PUNCH_REQS
  admitted,   \* history: when each address was last let through with each id
  burst,      \* history: how often it was with no pause of more than BlockDur
  counted,    \* history: per id, the registrations let through with no pause
              \* of more than IdDur, when the last was, and whether two of
              \* them were between the read and the write of one record or
              \* the record was replaced under them
  passed,     \* history: the attempts of each address that passed: when, and
              \* as which of its window
  tried,      \* history: when an attempt of each address was counted last
  answer      \* history: the attempt answered last, in this second

registrations == <<blocker, peer, reg_pk, tasks, admitted, burst, counted>>
logins == <<attempts, passed, tried, answer>>
vars == <<now, registrations, logins, reqs>>

Entry == [count : Nat, countTime : Nat, ids : SUBSET Id, idsTime : Nat]
RegPk == [count : Nat, time : Nat]
\* A record is named by the task whose lookup put it into the map. It does so
\* once for an id: a lookup that begins later finds a record.
Record == Task \cup {NoRecord}
Registration ==
  [at : {"idle", "checked", "looking", "seeking", "given", "counted"},
   id : Id \cup {NoId}, record : Record, seen : RegPk]
Answer == [ip : Ip, is : {"passed", "limit", "cap"}]
Pass == [time : Nat, nth : Nat]
PunchReq == [ip : Ip, id : Id, tm : Nat]
None == {}

TypeOK ==
  /\ now \in Nat
  /\ blocker \in [Ip -> Entry \cup {NoEntry}]
  /\ peer \in [Id -> Record]
  /\ reg_pk \in [Id -> [Task -> RegPk]]
  /\ tasks \in [Task -> Registration]
  /\ \A t \in Task : /\ tasks[t].at # "idle" => tasks[t].id \in Id
                     /\ tasks[t].at \in {"given", "counted"} => tasks[t].record \in Task
  /\ DOMAIN attempts \subseteq Ip
  /\ IsFiniteSet(DOMAIN attempts) /\ Cardinality(DOMAIN attempts) <= Cap
  /\ \A ip \in DOMAIN attempts : attempts[ip] \in [since : Nat, count : Nat]
  /\ admitted \in [Ip -> [Id -> Nat]]
  /\ burst \in [Ip -> Nat]
  /\ counted \in [Id -> [number : Nat, last : Nat, raced : BOOLEAN]]
  /\ passed \in [Ip -> SUBSET Pass]
  /\ tried \in [Ip -> Nat]
  /\ answer \in SUBSET Answer
  /\ reqs \in Seq(PunchReq)

Idle == [at |-> "idle", id |-> NoId, record |-> NoRecord, seen |-> [count |-> 0, time |-> 0]]

Init ==
  /\ now = Start
  /\ blocker = [ip \in Ip |-> NoEntry]
  /\ peer = [id \in Id |-> NoRecord]
  /\ reg_pk = [id \in Id |-> [r \in Task |-> [count |-> 0, time |-> 0]]]
  /\ tasks = [t \in Task |-> Idle]
  /\ attempts = [ip \in {} |-> 0]
  /\ admitted = [ip \in Ip |-> [id \in Id |-> 0]]
  /\ burst = [ip \in Ip |-> 0]
  /\ counted = [id \in Id |-> [number |-> 0, last |-> 0, raced |-> FALSE]]
  /\ passed = [ip \in Ip |-> {}]
  /\ tried = [ip \in Ip |-> 0]
  /\ answer = None
  /\ reqs = <<>>

\* Instant::elapsed
Elapsed(time, duration) == now - time > duration

-----------------------------------------------------------------------------
(* check_ip_blocker: one lock for the whole of it. *)

\* A mutant: the block ends a second early.
TooManyBefore(e) == now - e.countTime < BlockDur /\ e.count > MaxPerBurst

TooMany(e) == ~Elapsed(e.countTime, BlockDur) /\ e.count > MaxPerBurst

CountSoFar(e) == IF Elapsed(e.countTime, BlockDur) THEN 0 ELSE e.count

Counted(e) == [e EXCEPT !.count = CountSoFar(e) + 1, !.countTime = now]

DayOver(e) == Elapsed(e.idsTime, DayDur)

IdsFull(e) == ~DayOver(e) /\ Cardinality(e.ids) > MaxIds

\* is_new is asked before the clear: an id of the day before is not inserted.
IdsWith(e, id) == (IF DayOver(e) THEN {} ELSE e.ids) \cup ({id} \ e.ids)

Noted(e, id) == [e EXCEPT !.ids = IdsWith(e, id), !.idsTime = now]

\* History: address ip is let through with id.
LastAdmitted(ip, id) == /\ admitted' = [admitted EXCEPT ![ip][id] = now]
                        /\ burst' = [burst EXCEPT ![ip] =
                             IF \A other \in Id : Elapsed(admitted[ip][other], BlockDur)
                             THEN 1 ELSE @ + 1]

LetThrough(t, ip, id, e) ==
  /\ tasks[t].at = "idle"
  /\ blocker' = [blocker EXCEPT ![ip] = e]
  /\ tasks' = [tasks EXCEPT ![t] = [Idle EXCEPT !.at = "checked", !.id = id]]
  /\ LastAdmitted(ip, id)
  /\ UNCHANGED <<now, peer, reg_pk, counted, logins, reqs>>

\* The first registration of an address only makes its entry.
FirstOfAddress(t, ip, id) ==
  /\ blocker[ip] = NoEntry
  /\ LetThrough(t, ip, id, [count |-> 0, countTime |-> now, ids |-> {}, idsTime |-> now])

NextOfAddress(t, ip, id) ==
  /\ blocker[ip] # NoEntry
  /\ ~TooMany(blocker[ip]) /\ ~IdsFull(blocker[ip])
  /\ LetThrough(t, ip, id, Noted(Counted(blocker[ip]), id))

\* At the limit of ids, known ones pass and the day is not prolonged.
KnownId(t, ip, id) ==
  /\ blocker[ip] # NoEntry
  /\ ~TooMany(blocker[ip]) /\ IdsFull(blocker[ip]) /\ id \in blocker[ip].ids
  /\ LetThrough(t, ip, id, Counted(blocker[ip]))

RefuseNewId(ip, id) ==
  /\ blocker[ip] # NoEntry
  /\ ~TooMany(blocker[ip]) /\ IdsFull(blocker[ip]) /\ id \notin blocker[ip].ids
  /\ blocker' = [blocker EXCEPT ![ip] = Counted(@)]
  /\ UNCHANGED <<now, peer, reg_pk, tasks, admitted, burst, counted, logins, reqs>>

-----------------------------------------------------------------------------
(* The record of the id: PeerMap::get and get_or. Whether the database has *)
(* a row of it is modelled in PeerRegistry, and free here.                 *)

\* Task t has the record r of its id.
Given(t, r) == tasks' = [tasks EXCEPT ![t].at = "given", ![t].record = r]

Find(t) ==
  LET r == peer[tasks[t].id]
  IN /\ tasks[t].at = "checked"
     /\ \/ r # NoRecord /\ Given(t, r)
        \/ r = NoRecord /\ tasks' = [tasks EXCEPT ![t].at = "looking"]
     /\ UNCHANGED <<now, blocker, peer, reg_pk, admitted, burst, counted, logins, reqs>>

\* A request for the id, of its peer or of a controller, does not find it in
\* memory either. One that does changes nothing.
Seek(t, id) ==
  /\ tasks[t].at = "idle" /\ peer[id] = NoRecord
  /\ tasks' = [tasks EXCEPT ![t] = [Idle EXCEPT !.at = "seeking", !.id = id]]
  /\ UNCHANGED <<now, blocker, peer, reg_pk, admitted, burst, counted, logins, reqs>>

\* What is in the map is another record from now on.
Put(t, id) ==
  /\ peer' = [peer EXCEPT ![id] = t]
  /\ counted' = [counted EXCEPT ![id].raced = @ \/ peer[id] # NoRecord]

\* There is a row. The record made of it is inserted, whatever is there by now.
Adopt(t) ==
  /\ \/ tasks[t].at = "looking" /\ Given(t, t)
     \/ tasks[t].at = "seeking" /\ tasks' = [tasks EXCEPT ![t] = Idle]
  /\ Put(t, tasks[t].id)
  /\ UNCHANGED <<now, blocker, reg_pk, admitted, burst, logins, reqs>>

\* There is none, or the select fails: get_or makes a record if there is still
\* none, and a lookup ends.
Default(t) ==
  LET r == peer[tasks[t].id]
  IN /\ \/ tasks[t].at = "looking" /\ r # NoRecord /\ Given(t, r) /\ UNCHANGED <<peer, counted>>
        \/ tasks[t].at = "looking" /\ r = NoRecord /\ Given(t, t) /\ Put(t, tasks[t].id)
        \/ /\ tasks[t].at = "seeking" /\ tasks' = [tasks EXCEPT ![t] = Idle]
           /\ UNCHANGED <<peer, counted>>
     /\ UNCHANGED <<now, blocker, reg_pk, admitted, burst, logins, reqs>>

-----------------------------------------------------------------------------
(* The count of the id, in register_pk_result. *)

\* The uuid, or the address and the key, do not match, or reg_pk is at its limit.
Refuse(t) ==
  /\ tasks[t].at = "given"
  /\ tasks' = [tasks EXCEPT ![t] = Idle]
  /\ UNCHANGED <<now, blocker, peer, reg_pk, admitted, burst, counted, logins, reqs>>

\* reg_pk of the record task t was given.
RegPkOf(t) == reg_pk[tasks[t].id][tasks[t].record]

\* A mutant: the pause is over a second early.
CountOfAfter(t) == IF now - RegPkOf(t).time >= IdDur THEN 0 ELSE RegPkOf(t).count

CountOf(t) == IF Elapsed(RegPkOf(t).time, IdDur) THEN 0 ELSE RegPkOf(t).count

\* Another registration is between the read and the write of the same record,
\* or the record is in the map no more.
Raced(t) ==
  \/ \E u \in Task \ {t} : /\ tasks[u].at = "counted"
                           /\ tasks[u].id = tasks[t].id /\ tasks[u].record = tasks[t].record
  \/ tasks[t].record # peer[tasks[t].id]

ReadCount(t) ==
  LET id == tasks[t].id
      pause == Elapsed(counted[id].last, IdDur)
  IN /\ tasks[t].at = "given"
     /\ CountOf(t) <= MaxPerId
     /\ tasks' = [tasks EXCEPT ![t].at = "counted",
                               ![t].seen = [count |-> CountOf(t) + 1, time |-> now]]
     /\ counted' = [counted EXCEPT ![id] =
          [number |-> IF pause THEN 1 ELSE @.number + 1, last |-> now,
           raced |-> Raced(t) \/ (@.raced /\ ~pause)]]
     /\ UNCHANGED <<now, blocker, peer, reg_pk, admitted, burst, logins, reqs>>

\* Into the task's record, wherever the map has another.
WriteCount(t) ==
  /\ tasks[t].at = "counted"
  /\ reg_pk' = [reg_pk EXCEPT ![tasks[t].id][tasks[t].record] = tasks[t].seen]
  /\ tasks' = [tasks EXCEPT ![t] = Idle]
  /\ UNCHANGED <<now, blocker, peer, admitted, burst, counted, logins, reqs>>

-----------------------------------------------------------------------------
(* The console: ip-blocker. *)

\* A mutant: those one of whose counts is.
ExpiredEither(e) == Elapsed(e.countTime, BlockDur) \/ DayOver(e)

\* Any ip-blocker command drops the entries both of whose counts are over.
Expired(e) == Elapsed(e.countTime, BlockDur) /\ DayOver(e)

Sweep ==
  /\ blocker' = [ip \in Ip |->
       IF blocker[ip] # NoEntry /\ Expired(blocker[ip]) THEN NoEntry ELSE blocker[ip]]
  /\ blocker' # blocker
  /\ UNCHANGED <<now, peer, reg_pk, tasks, admitted, burst, counted, logins, reqs>>

\* ip-blocker <ip> - forgives the address: what it was let through before is
\* not counted by the histories either.
Remove(ip) ==
  /\ blocker[ip] # NoEntry
  /\ blocker' = [other \in Ip |->
       IF other = ip \/ (blocker[other] # NoEntry /\ Expired(blocker[other]))
       THEN NoEntry ELSE blocker[other]]
  /\ admitted' = [admitted EXCEPT ![ip] = [id \in Id |-> 0]]
  /\ burst' = [burst EXCEPT ![ip] = 0]
  /\ UNCHANGED <<now, peer, reg_pk, tasks, counted, logins, reqs>>

-----------------------------------------------------------------------------
(* Attempts: login and over_limit of the audit. *)

\* What retain keeps of the table.
Recent == {ip \in DOMAIN attempts : now - attempts[ip].since < Window}

RefuseByCap(ip) ==
  /\ Cardinality(Recent) >= Cap /\ ip \notin Recent
  /\ attempts' = Restrict(attempts, Recent)
  /\ answer' = {[ip |-> ip, is |-> "cap"]}
  /\ UNCHANGED <<now, registrations, passed, tried, reqs>>

\* A mutant: every attempt begins the window anew.
CounterRolling(ip) ==
  [since |-> now, count |-> IF ip \in Recent THEN attempts[ip].count ELSE 0]

\* A mutant: the table is not purged of counts that are at the limit no more.
CounterRestarted(ip) ==
  IF ip \in Recent /\ attempts[ip].count <= Limit
  THEN attempts[ip] ELSE [since |-> now, count |-> 0]

Counter(ip) == IF ip \in Recent THEN attempts[ip] ELSE [since |-> now, count |-> 0]

InWindow(time) == now - time < Window

\* The attempts of an address that passed within the last minute.
Passed(ip) == {p \in passed[ip] : InWindow(p.time)}

\* A mutant: the cap is tested against the entries beside the new one.
HasRoomForOne(ip) == ip \in Recent \/ Cardinality(Recent) <= Cap

HasRoom(ip) == ip \in Recent \/ Cardinality(Recent) < Cap

Attempt(ip) ==
  LET entry == [since |-> Counter(ip).since, count |-> Counter(ip).count + 1]
      passes == entry.count <= Limit
  IN /\ HasRoom(ip)
     /\ attempts' = [other \in Recent \cup {ip} |->
          IF other = ip THEN entry ELSE attempts[other]]
     /\ answer' = {[ip |-> ip, is |-> IF passes THEN "passed" ELSE "limit"]}
     /\ passed' = IF passes
                  THEN [passed EXCEPT ![ip] = @ \cup {[time |-> now, nth |-> entry.count]}]
                  ELSE passed
     /\ tried' = [tried EXCEPT ![ip] = now]
     /\ UNCHANGED <<now, registrations, reqs>>

-----------------------------------------------------------------------------
(* The log of punch hole requests, from an address to an id. *)

\* A mutant: the tail is one entry shorter.
RecentPunchesFewer(ip, id) ==
  {k \in DOMAIN reqs : k + PunchTail > Len(reqs) + 1 /\ reqs[k].ip = ip /\ reqs[k].id = id}

\* The entries of the pair in the tail.
RecentPunches(ip, id) ==
  {k \in DOMAIN reqs : k + PunchTail > Len(reqs) /\ reqs[k].ip = ip /\ reqs[k].id = id}

\* The age is that of the latest of them.
PunchLogged(ip, id) ==
  \E k \in RecentPunches(ip, id) :
    /\ \A other \in RecentPunches(ip, id) : other <= k
    /\ now - reqs[k].tm < DedupeDur

LogPunch(ip, id) ==
  /\ ~PunchLogged(ip, id)
  /\ reqs' = Append(reqs, [ip |-> ip, id |-> id, tm |-> now])
  /\ UNCHANGED <<now, registrations, logins>>

\* punch-requests -, on the console. Nothing else ever shortens the log.
ClearPunches ==
  /\ reqs # <<>>
  /\ reqs' = <<>>
  /\ UNCHANGED <<now, registrations, logins>>

-----------------------------------------------------------------------------

Tick ==
  /\ now < MaxTime
  /\ now' = now + 1 /\ answer' = None
  /\ passed' = [ip \in Ip |-> Passed(ip)]
  /\ UNCHANGED <<registrations, attempts, tried, reqs>>

RegisterNext ==
  \/ \E t \in Task, ip \in Ip, id \in Id :
        FirstOfAddress(t, ip, id) \/ NextOfAddress(t, ip, id) \/ KnownId(t, ip, id)
  \/ \E ip \in Ip, id \in Id : RefuseNewId(ip, id)
  \/ \E t \in Task, id \in Id : Seek(t, id)
  \/ \E t \in Task : Find(t) \/ Adopt(t) \/ Default(t)
  \/ \E t \in Task : Refuse(t) \/ ReadCount(t) \/ WriteCount(t)
  \/ Sweep
  \/ \E ip \in Ip : Remove(ip)

AttemptNext == \E ip \in Ip : Attempt(ip) \/ RefuseByCap(ip)

PunchNext == ClearPunches \/ \E ip \in Ip, id \in Id : LogPunch(ip, id)

Next == RegisterNext \/ AttemptNext \/ PunchNext \/ Tick

Spec == Init /\ [][Next]_vars

-----------------------------------------------------------------------------
(* Safety. *)

\* Between two pauses of more than IP_BLOCK_DUR an address is let through at
\* most 32 times: the count is tested before it is incremented, and the first
\* registration is not counted (relay.rs:4-32).
BurstBounded == \A ip \in Ip : burst[ip] <= MaxPerBurst + 2

\* The ids an address was let through with in the last DAY_SECONDS.
IdsOfDay(ip) == {id \in Id : now - admitted[ip][id] <= DayDur}

\* In no DAY_SECONDS is an address let through with more than twice 301 ids
\* and one: the day begins anew a day after the last id that was noted, ids
\* already known pass until then, and the first registration after the console
\* dropped an expired entry is not noted (relay.rs:18-28, console.rs:39-42).
IdsBounded == \A ip \in Ip : Cardinality(IdsOfDay(ip)) <= 2 * (MaxIds + 1) + 1

\* With no pause of more than 6 s an id is registered at most three times,
\* unless two registrations overlapped between the read of reg_pk and the
\* write (udp.rs:195-202), or a lookup that had not found the id in memory
\* replaced its record (peer.rs:137-151): in between, or before a task that
\* was given the old one counted in it.
PerIdBounded ==
  \A id \in Id : counted[id].number <= MaxPerId + 1 \/ counted[id].raced

\* In any minute fewer than twice the limit of an address pass: all but the
\* first of one window, which began it, and all of the next (api.rs:15-24).
AttemptsBounded == \A ip \in Ip : Cardinality(Passed(ip)) < 2 * Limit

\* An attempt is refused only if as many of its address as are allowed passed
\* within the minute, or 10000 other addresses tried within it: what is refused
\* does not prolong the wait (api.rs:16-24, audit.rs:31-38).
RefusedForCause ==
  \A a \in answer :
    /\ a.is = "limit" => Cardinality(Passed(a.ip)) >= Limit
    /\ a.is = "cap" => Cardinality({ip \in Ip \ {a.ip} : InWindow(tried[ip])}) >= Cap

\* A controller that repeats its request for a peer within PUNCH_REQ_DEDUPE_SEC
\* does not fill the log: its entries of a pair are a minute or more than 30
\* entries apart, which is all that bounds it (punch.rs:113-127).
PunchLogDedupes ==
  \A j, k \in DOMAIN reqs :
    /\ j < k
    /\ reqs[j].ip = reqs[k].ip /\ reqs[j].id = reqs[k].id
    /\ reqs[k].tm - reqs[j].tm < DedupeDur
    => k - j > PunchTail
=============================================================================
