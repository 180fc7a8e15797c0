--------------------------------- MODULE Wol ---------------------------------
(***************************************************************************)
(* Wake on LAN (src/src/account/wol.rs) on top of the account database.    *)
(* A device of an account polls: it reports itself and the devices it could*)
(* wake (UPSERT of wol_devices) and leases the jobs queued for it (DELETE  *)
(* ... RETURNING). A user asks for a device to be woken: its row must be   *)
(* stale, a helper is chosen among the devices that polled lately, and a   *)
(* job is queued for the helper. delete_user() removes both kinds of rows  *)
(* between its other statements.                                           *)
(*                                                                         *)
(* The sessions, accounts and commands are those of AccountStore; every    *)
(* SQL statement is an action of its own, here as there.                   *)
(***************************************************************************)
EXTENDS AccountStore

CONSTANTS Device,     \* device ids
          Report,     \* [id, peers]: the bodies of polls
          Request,    \* slots of concurrent wake-on-LAN requests
          NoDevice,   \* no helper chosen yet
          FreshTime,  \* 30 s in the code: who polled within it is online
          JobTime,    \* 30 s in the code
          MaxJobs     \* bound on the jobs ever queued

ASSUME WolAssumption ==
  /\ Report \subseteq [id : Device, peers : SUBSET Device]
  /\ FreshTime \in Nat /\ JobTime \in Nat /\ MaxJobs \in Nat
  /\ NoDevice \notin Device

VARIABLES devices,  \* table wol_devices
          jobs,     \* table wol_jobs
          polls,    \* poll requests between two statements
          wakes,    \* wake (and status) requests between two statements
          era,      \* history: how often the rows of a name were deleted
          queued,   \* history: number of jobs ever queued
          handed    \* history: jobs whose target was answered to a helper

wol == <<devices, jobs, polls, wakes, era, queued, handed>>
wolVars == <<vars, wol>>

\* era and raced are history: what era[owner] was when the row was written,
\* and whether it was written on an authorization that had lapsed or while a
\* delete command was at work.
DeviceRow == [owner : Name, id : Device, seen : Nat, session : Token,
              peers : SUBSET Device, era : Nat, raced : BOOLEAN]

JobRow == [owner : Name, target : Device, helper : Device, expires : Nat,
           serial : Nat, era : Nat, raced : BOOLEAN]

\* leased is the result of DELETE ... RETURNING until it is answered; late is
\* history: whether the authorization had lapsed when the jobs were leased.
Poll == [id : Request, owner : Name, token : Token, report : Report, era : Nat,
         step : {"authorized", "registered", "leased"}, leased : SUBSET JobRow,
         late : BOOLEAN]

Wake == [id : Request, owner : Name, token : Token, target : Device, era : Nat,
         step : {"authorized", "offline", "chosen"}, helper : Device \cup {NoDevice}]

WolTypeOK ==
  /\ devices \subseteq DeviceRow
  /\ jobs \subseteq JobRow
  /\ polls \subseteq Poll
  /\ wakes \subseteq Wake
  /\ era \in [Name -> Nat]
  /\ queued \in Nat
  /\ handed \subseteq [serial : Nat, jobEra : Nat, era : Nat, raced : BOOLEAN]

WolInit ==
  /\ Init
  /\ devices = {} /\ jobs = {} /\ polls = {} /\ wakes = {}
  /\ era = [n \in Name |-> 0]
  /\ queued = 0
  /\ handed = {}

FreeSlot(r) == \A q \in polls \cup wakes : q.id # r

\* History only: the session of q no longer authenticates its owner, or the
\* rows of the owner are being deleted, or were since q was authorized.
Lapsed(q) ==
  \/ ~ \E s \in sessions, a \in accounts :
         /\ s.token = q.token /\ s.name = q.owner /\ s.expires > now
         /\ a.name = q.owner /\ a.enabled
  \/ \E c \in admins : c.name = q.owner /\ Deleting(c)
  \/ q.era # era[q.owner]

-----------------------------------------------------------------------------
(* poll() *)

\* owner(): the SELECT of user() gives the name that the request acts for.
PollAuthorize(r, t, body) ==
  /\ FreeSlot(r)
  /\ User(t)
  /\ \E s \in sessions :
       /\ s.token = t
       /\ polls' = polls \cup
            {[id |-> r, owner |-> s.name, token |-> t, report |-> body,
              era |-> era[s.name], step |-> "authorized", leased |-> {},
              late |-> FALSE]}
  /\ UNCHANGED <<vars, devices, jobs, wakes, era, queued, handed>>

\* INSERT INTO wol_devices ... ON CONFLICT(owner,id) DO UPDATE
Register(q) ==
  /\ q.step = "authorized"
  /\ devices' =
       {d \in devices : ~(d.owner = q.owner /\ d.id = q.report.id)} \cup
       {[owner |-> q.owner, id |-> q.report.id, seen |-> now, session |-> q.token,
         peers |-> q.report.peers, era |-> era[q.owner], raced |-> Lapsed(q)]}
  /\ polls' = (polls \ {q}) \cup {[q EXCEPT !.step = "registered"]}
  /\ UNCHANGED <<vars, jobs, wakes, era, queued, handed>>

ForHelper(q) == {j \in jobs : j.owner = q.owner /\ j.helper = q.report.id}

\* Mutant: the jobs are read, and left to expire.
LeaseBySelect(q) ==
  /\ q.step = "registered"
  /\ polls' = (polls \ {q}) \cup
       {[q EXCEPT !.step = "leased", !.leased = ForHelper(q), !.late = Lapsed(q)]}
  /\ UNCHANGED <<vars, devices, jobs, wakes, era, queued, handed>>

\* DELETE FROM wol_jobs WHERE owner=? AND helper=? RETURNING target,expires
Lease(q) ==
  /\ q.step = "registered"
  /\ jobs' = jobs \ ForHelper(q)
  /\ polls' = (polls \ {q}) \cup
       {[q EXCEPT !.step = "leased", !.leased = ForHelper(q), !.late = Lapsed(q)]}
  /\ UNCHANGED <<vars, devices, wakes, era, queued, handed>>

\* The answer names the targets that have not expired by the clock read now
\* and that this poll says it could wake; the others are lost.
AnswerPoll(q) ==
  /\ q.step = "leased"
  /\ handed' = handed \cup
       {[serial |-> j.serial, jobEra |-> j.era, era |-> q.era,
         raced |-> j.raced \/ q.late] :
          j \in {k \in q.leased : k.expires > now /\ k.target \in q.report.peers}}
  /\ polls' = polls \ {q}
  /\ UNCHANGED <<vars, devices, jobs, wakes, era, queued>>

-----------------------------------------------------------------------------
(* wake() and status() *)

WakeAuthorize(r, t, d) ==
  /\ FreeSlot(r)
  /\ User(t)
  /\ \E s \in sessions :
       /\ s.token = t
       /\ wakes' = wakes \cup
            {[id |-> r, owner |-> s.name, token |-> t, target |-> d,
              era |-> era[s.name], step |-> "authorized", helper |-> NoDevice]}
  /\ UNCHANGED <<vars, devices, jobs, polls, era, queued, handed>>

\* SELECT seen: the target is registered and has not polled lately. Otherwise
\* the request is answered "unregistered" or "online" (DropWolRequest).
FindTarget(q) ==
  /\ q.step = "authorized"
  /\ \E d \in devices : /\ d.owner = q.owner /\ d.id = q.target
                        /\ d.seen + FreshTime < now
  /\ wakes' = (wakes \ {q}) \cup {[q EXCEPT !.step = "offline"]}
  /\ UNCHANGED <<vars, devices, jobs, polls, era, queued, handed>>

\* The rows of the JOIN with account_sessions that list the target.
Helpers(q) ==
  {d \in devices :
     /\ d.owner = q.owner /\ d.id # q.target /\ d.seen + FreshTime >= now
     /\ q.target \in d.peers
     /\ \E s \in sessions : /\ s.token = d.session /\ s.name = d.owner
                            /\ s.expires > now}

\* Mutant: the request goes on when no helper was found.
FindHelperUnchecked(q) ==
  /\ q.step = "offline"
  /\ wakes' = (wakes \ {q}) \cup {[q EXCEPT !.step = "chosen"]}
  /\ UNCHANGED <<vars, devices, jobs, polls, era, queued, handed>>

\* ORDER BY d.seen DESC: the first of them.
FindHelper(q) ==
  /\ q.step = "offline"
  /\ \E d \in Helpers(q) :
       /\ \A other \in Helpers(q) : other.seen <= d.seen
       /\ wakes' = (wakes \ {q}) \cup {[q EXCEPT !.step = "chosen", !.helper = d.id]}
  /\ UNCHANGED <<vars, devices, jobs, polls, era, queued, handed>>

\* INSERT INTO wol_jobs ... ON CONFLICT(owner,target) DO UPDATE ... WHERE
\* wol_jobs.expires<?. No row affected: "already queued" (DropWolRequest).
Queue(q) ==
  /\ q.step = "chosen"
  /\ queued < MaxJobs
  /\ \A j \in jobs : j.owner = q.owner /\ j.target = q.target => j.expires < now
  /\ jobs' =
       {j \in jobs : ~(j.owner = q.owner /\ j.target = q.target)} \cup
       {[owner |-> q.owner, target |-> q.target, helper |-> q.helper,
         expires |-> now + JobTime, serial |-> queued, era |-> era[q.owner],
         raced |-> Lapsed(q)]}
  /\ queued' = queued + 1
  /\ wakes' = wakes \ {q}
  /\ UNCHANGED <<vars, devices, polls, era, handed>>

\* A request ends early: refused, answered with a state only, failed at a
\* statement, or dropped because the client hung up. Jobs that its DELETE
\* returned go with it.
DropWolRequest ==
  /\ \/ \E q \in polls : polls' = polls \ {q} /\ UNCHANGED wakes
     \/ \E q \in wakes : wakes' = wakes \ {q} /\ UNCHANGED polls
  /\ UNCHANGED <<vars, devices, jobs, era, queued, handed>>

-----------------------------------------------------------------------------
(* delete_user(): the two statements between its other ones *)

\* Mutant: the command goes on without this statement.
DeleteJobRowsSkipped(c) ==
  /\ DeleteJobs(c)
  /\ UNCHANGED wol

DeleteJobRows(c) ==
  /\ DeleteJobs(c)
  /\ jobs' = {j \in jobs : j.owner # c.name}
  /\ UNCHANGED <<devices, polls, wakes, era, queued, handed>>

\* Mutant: the device rows are left to age.
DeleteDeviceRowsSkipped(c) ==
  /\ DeleteDevices(c)
  /\ era' = [era EXCEPT ![c.name] = @ + 1]
  /\ UNCHANGED <<devices, jobs, polls, wakes, queued, handed>>

DeleteDeviceRows(c) ==
  /\ DeleteDevices(c)
  /\ devices' = {d \in devices : d.owner # c.name}
  /\ era' = [era EXCEPT ![c.name] = @ + 1]
  /\ UNCHANGED <<jobs, polls, wakes, queued, handed>>

StoreStep ==
  /\ LoginNext \/ TicketNext \/ CommandNext \/ DropRequest \/ Tick
  /\ UNCHANGED wol

PollNext ==
  \/ \E r \in Request, t \in Token, body \in Report : PollAuthorize(r, t, body)
  \/ \E q \in polls : Register(q) \/ Lease(q) \/ AnswerPoll(q)

WakeNext ==
  \/ \E r \in Request, t \in Token, d \in Device : WakeAuthorize(r, t, d)
  \/ \E q \in wakes : FindTarget(q) \/ FindHelper(q) \/ Queue(q)

DeleteNext == \E c \in admins : DeleteJobRows(c) \/ DeleteDeviceRows(c)

WolNext == StoreStep \/ PollNext \/ WakeNext \/ DropWolRequest \/ DeleteNext

WolSpec == WolInit /\ [][WolNext]_wolVars
-----------------------------------------------------------------------------
(* Properties *)

Serials(S) == {j.serial : j \in S}

\* A job is in one place at a time: queued, leased by one poll, or handed to a
\* helper. However polls of one helper and new wakes interleave, a wake is never
\* handed out twice (wol.rs:51-58, 115-140).
LeasedOnce ==
  /\ \A p \in polls : /\ Serials(p.leased) \cap Serials(jobs) = {}
                      /\ \A h \in handed : h.serial \notin Serials(p.leased)
                      /\ \A q \in polls \ {p} :
                           Serials(p.leased) \cap Serials(q.leased) = {}
  /\ \A h \in handed : h.serial \notin Serials(jobs)

\* delete_user() leaves no wake-on-LAN rows behind for the next account of the
\* name, except those of a request whose authorization lapsed before its INSERT
\* or that ran while the rows were being deleted (store.rs:113-132,
\* operations.md:115).
RowsOutliveAccountOnlyByRace ==
  \A row \in devices \cup jobs :
    \/ row.raced
    \/ row.era = era[row.owner] /\ \E a \in accounts : a.name = row.owner

\* A queued job names a helper that is still registered for the owner and is not
\* the target, although the helper was chosen by an earlier statement
\* (wol.rs:87-97, 115-130).
JobHasHelper ==
  \A j \in jobs :
    \/ j.raced
    \/ j.helper # j.target /\ \E d \in devices : d.owner = j.owner /\ d.id = j.helper

\* A helper is told to wake only what the account it polled for asked for: no
\* job crosses from a deleted account to one created under its name, unless the
\* wake or the poll itself raced the deletion (wol.rs:51-67).
WakesStayInAccount ==
  \A h \in handed : h.jobEra = h.era \/ h.raced
=============================================================================
