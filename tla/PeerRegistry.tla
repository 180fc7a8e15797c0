----------------------------- MODULE PeerRegistry ----------------------------
(***************************************************************************)
(* hbbs: what the server knows of one peer id. PeerMap keeps a record in   *)
(* memory and a row in the database (src/src/peer.rs, database.rs);        *)
(* register_pk_result and register_peer_response read and write them       *)
(* (src/src/rendezvous_server/udp.rs). Registrations over TCP and lookups  *)
(* run in a task per connection, those over UDP in that of io_loop. Every  *)
(* lock of the map or of the record and every SQL statement is an action.  *)
(*                                                                         *)
(* Ids share nothing here, so the module follows one id. The limits on the *)
(* number of registrations (check_ip_blocker, reg_pk) are abstracted: they *)
(* may refuse any registration.                                            *)
(***************************************************************************)
EXTENDS Naturals

CONSTANTS
  Task, Uuid, Pk, Ip,
  Loopback,  \* the address of the server's own host, or none of Ip
  Ref,       \* shared pointers (LockPeer) to records; at least one per task
  NoRef, NoVal,
  MaxFaults  \* bound on failing SQL statements

ASSUME NoRefAssumption == NoRef \notin Ref
ASSUME NoValAssumption == NoVal \notin Uuid \cup Pk \cup Ip
ASSUME MaxFaultsAssumption == MaxFaults \in Nat

VARIABLES
  map,    \* PeerMap.map: the record the id leads to
  heap,   \* the records
  db,     \* the row of the id in table peer
  pc, req, ref, row, insert, \* locals of the tasks
  faults, \* failed statements so far
  acked,  \* history: uuids a registration of which was answered OK
  trouble \* history: what may have parted memory, database and answers

task == <<pc, req, ref, row, insert>>
history == <<faults, acked, trouble>>
vars == <<map, heap, db, task, history>>

\* Where a task is: idle; about to look in the map, to select the row, to put
\* it in the map, to put an empty record there; about to compare the record
\* with the request, to write it, to write the row, to note its guid.
Place == {"idle", "get", "select", "adopt", "default", "check", "write", "store", "guid"}

\* A registration, or a lookup by a punch hole request or for the signed key.
Request == [op : {"register"}, uuid : Uuid, pk : Pk, ip : Ip] \cup [op : {"lookup"}]

\* A record: addr is the address of the last heartbeat or registration, port
\* whether it has a port (a record just loaded and a WebSocket client have
\* none), stored whether guid is set.
Peer == [uuid : Uuid \cup {NoVal}, pk : Pk \cup {NoVal}, ip : Ip \cup {NoVal},
         addr : Ip \cup {NoVal}, port : BOOLEAN, stored : BOOLEAN]

Row == [uuid : Uuid, pk : Pk, ip : Ip]

NoRow == [uuid |-> NoVal, pk |-> NoVal, ip |-> NoVal]

\* LockPeer::default().
Fresh == [uuid |-> NoVal, pk |-> NoVal, ip |-> NoVal, addr |-> NoVal, port |-> FALSE, stored |-> FALSE]

\* The Peer that get builds from a row.
Loaded(r) == [Fresh EXCEPT !.uuid = r.uuid, !.pk = r.pk, !.ip = r.ip, !.stored = TRUE]

\* fault: a statement failed. contested: two uuids passed the comparison before
\* either was written. overlapped: a key was written while another was being
\* stored or into a record replaced meanwhile, or a row read earlier replaced
\* the record. crash: the server stopped before storing.
Trouble == {"fault", "contested", "overlapped", "crash"}

TypeOK ==
  /\ map \in Ref \cup {NoRef}
  /\ heap \in [Ref -> Peer]
  /\ db \in Row \cup {NoRow}
  /\ pc \in [Task -> Place]
  /\ req \in [Task -> Request]
  /\ \A t \in Task : pc[t] \in {"check", "write", "store", "guid"} =>
       req[t].op = "register" /\ ref[t] \in Ref
  /\ ref \in [Task -> Ref \cup {NoRef}]
  /\ row \in [Task -> Row \cup {NoRow}]
  /\ \A t \in Task : pc[t] = "adopt" => row[t] \in Row
  /\ insert \in [Task -> BOOLEAN]
  /\ faults \in Nat
  /\ acked \subseteq Uuid /\ trouble \subseteq Trouble

Init ==
  /\ map = NoRef
  /\ heap = [r \in Ref |-> Fresh]
  /\ db \in Row \cup {NoRow}
  /\ pc = [t \in Task |-> "idle"]
  /\ req = [t \in Task |-> [op |-> "lookup"]]
  /\ ref = [t \in Task |-> NoRef]
  /\ row = [t \in Task |-> NoRow]
  /\ insert = [t \in Task |-> FALSE]
  /\ faults = 0 /\ acked = {} /\ trouble = {}

\* Records no pointer leads to any more.
Garbage == {r \in Ref : r # map /\ \A t \in Task : ref[t] # r}

\* The task returns; its locals go.
Return(t) ==
  /\ pc' = [pc EXCEPT ![t] = "idle"]
  /\ req' = [req EXCEPT ![t] = [op |-> "lookup"]]
  /\ ref' = [ref EXCEPT ![t] = NoRef]
  /\ row' = [row EXCEPT ![t] = NoRow]
  /\ insert' = [insert EXCEPT ![t] = FALSE]

AnswerOK(t) ==
  /\ acked' = acked \cup {req[t].uuid}
  /\ Return(t)

Goto(t, place) == pc' = [pc EXCEPT ![t] = place]

-----------------------------------------------------------------------------
(* peer.rs: get, get_or *)

Begin(t, q) ==
  /\ pc[t] = "idle"
  /\ Goto(t, "get")
  /\ req' = [req EXCEPT ![t] = q]
  /\ UNCHANGED <<map, heap, db, ref, row, insert, history>>

\* The pointer was found: a lookup ends here, a registration goes on.
Found(t, r) ==
  \/ req[t].op = "lookup" /\ Return(t)
  \/ /\ req[t].op = "register"
     /\ Goto(t, "check")
     /\ ref' = [ref EXCEPT ![t] = r]
     /\ UNCHANGED <<req, row, insert>>

NotFound(t) ==
  \/ req[t].op = "lookup" /\ Return(t)
  \/ /\ req[t].op = "register"
     /\ Goto(t, "default")
     /\ UNCHANGED <<req, ref, row, insert>>

Get(t) ==
  /\ pc[t] = "get"
  /\ \/ map # NoRef /\ Found(t, map)
     \/ map = NoRef /\ Goto(t, "select") /\ UNCHANGED <<req, ref, row, insert>>
  /\ UNCHANGED <<map, heap, db, history>>

Select(t) ==
  /\ pc[t] = "select"
  /\ \/ /\ db # NoRow
        /\ row' = [row EXCEPT ![t] = db]
        /\ Goto(t, "adopt")
        /\ UNCHANGED <<req, ref, insert>>
     \/ db = NoRow /\ NotFound(t)
  /\ UNCHANGED <<map, heap, db, history>>

\* A failing select is taken for a missing row.
SelectFails(t) ==
  /\ pc[t] = "select"
  /\ faults < MaxFaults
  /\ faults' = faults + 1 /\ trouble' = trouble \cup {"fault"}
  /\ NotFound(t)
  /\ UNCHANGED <<map, heap, db, acked>>

\* self.map.write().await.insert(...): replaces a record that came meanwhile.
Adopt(t) ==
  /\ pc[t] = "adopt"
  /\ \E r \in Garbage :
       /\ heap' = [heap EXCEPT ![r] = Loaded(row[t])]
       /\ map' = r
       /\ Found(t, r)
  /\ trouble' = IF map # NoRef THEN trouble \cup {"overlapped"} ELSE trouble
  /\ UNCHANGED <<db, faults, acked>>

\* get_or, under the write lock of the map.
Default(t) ==
  /\ pc[t] = "default"
  /\ \/ map # NoRef /\ Found(t, map) /\ UNCHANGED <<map, heap>>
     \/ /\ map = NoRef
        /\ \E r \in Garbage :
             /\ heap' = [heap EXCEPT ![r] = Fresh]
             /\ map' = r
             /\ Found(t, r)
  /\ UNCHANGED <<db, history>>

-----------------------------------------------------------------------------
(* udp.rs: register_pk_result; peer.rs: update_pk *)

\* A registration of a known uuid may change the address or the key, not both.
Acceptable(p, q) ==
  \/ p.uuid = NoVal
  \/ p.uuid = q.uuid /\ (p.ip = q.ip \/ p.pk = q.pk)

Changes(p, q) == p.uuid # q.uuid \/ p.pk # q.pk \/ p.ip # q.ip

\* Mutant: a registration is compared by its address and key alone.
CheckIgnoresUuid(t) ==
  LET p == heap[ref[t]] IN
  /\ pc[t] = "check"
  /\ p.uuid = NoVal \/ p.ip = req[t].ip \/ p.pk = req[t].pk
  /\ \/ Changes(p, req[t]) /\ Goto(t, "write") /\ UNCHANGED <<req, ref, row, insert, acked>>
     \/ ~Changes(p, req[t]) /\ AnswerOK(t)
  /\ UNCHANGED <<map, heap, db, faults, trouble>>

\* An unchanged registration is answered at once.
Check(t) ==
  LET p == heap[ref[t]] IN
  /\ pc[t] = "check"
  /\ Acceptable(p, req[t])
  /\ \/ Changes(p, req[t]) /\ Goto(t, "write") /\ UNCHANGED <<req, ref, row, insert, acked>>
     \/ ~Changes(p, req[t]) /\ AnswerOK(t)
  /\ UNCHANGED <<map, heap, db, faults, trouble>>

\* UUID_MISMATCH; or TOO_FREQUENT, which a limit may answer at any time. One
\* refused before the lookup (check_ip_blocker, a short id) does not begin here.
Refuse(t) ==
  /\ pc[t] = "check"
  /\ Return(t)
  /\ UNCHANGED <<map, heap, db, history>>

Storing(t) == pc[t] \in {"store", "guid"}

\* update_pk, under the write lock of the record.
Write(t) ==
  LET q == req[t]
      p == heap[ref[t]]
  IN
  /\ pc[t] = "write"
  /\ \E port \in BOOLEAN :
       heap' = [heap EXCEPT ![ref[t]] =
                  [uuid |-> q.uuid, pk |-> q.pk, ip |-> q.ip, addr |-> q.ip, port |-> port,
                   stored |-> p.stored]]
  /\ insert' = [insert EXCEPT ![t] = ~p.stored]
  /\ trouble' = trouble
       \cup {x \in {"contested"} : \E u \in Task : pc[u] = "write" /\ req[u].uuid # q.uuid}
       \cup {x \in {"overlapped"} : ref[t] # map \/ \E u \in Task : Storing(u)}
  /\ Goto(t, "store")
  /\ UNCHANGED <<map, db, req, ref, row, faults, acked>>

\* Mutant: the row takes the whole registration only when inserted, and the
\* address never again.
StoreUpdatesKeyOnly(t) ==
  LET q == req[t] IN
  /\ pc[t] = "store"
  /\ \/ /\ insert[t] /\ db = NoRow
        /\ db' = [uuid |-> q.uuid, pk |-> q.pk, ip |-> q.ip]
        /\ Goto(t, "guid")
        /\ UNCHANGED <<req, ref, row, insert, acked>>
     \/ /\ insert[t] /\ db # NoRow
        /\ AnswerOK(t)
        /\ UNCHANGED db
     \/ /\ ~insert[t]
        /\ db' = [db EXCEPT !.pk = q.pk]
        /\ AnswerOK(t)
  /\ UNCHANGED <<map, heap, faults, trouble>>

\* insert_peer, which the unique index on id refuses when there is a row, or
\* update_pk, which leaves the row's uuid alone. The answer is OK in each case:
\* register_pk_result drops the result of update_pk.
Store(t) ==
  LET q == req[t] IN
  /\ pc[t] = "store"
  /\ \/ /\ insert[t] /\ db = NoRow
        /\ db' = [uuid |-> q.uuid, pk |-> q.pk, ip |-> q.ip]
        /\ Goto(t, "guid")
        /\ UNCHANGED <<req, ref, row, insert, acked>>
     \/ /\ insert[t] /\ db # NoRow
        /\ AnswerOK(t)
        /\ UNCHANGED db
     \/ /\ ~insert[t]
        /\ db' = [db EXCEPT !.pk = q.pk, !.ip = q.ip]
        /\ AnswerOK(t)
  /\ UNCHANGED <<map, heap, faults, trouble>>

\* Mutant: the error path of insert_peer does not return.
StoreFailsNoted(t) ==
  /\ pc[t] = "store"
  /\ faults < MaxFaults
  /\ faults' = faults + 1 /\ trouble' = trouble \cup {"fault"}
  /\ Goto(t, "guid")
  /\ UNCHANGED <<map, heap, db, req, ref, row, insert, acked>>

\* Either statement fails: SERVER_ERROR from update_pk, OK to the peer.
StoreFails(t) ==
  /\ pc[t] = "store"
  /\ faults < MaxFaults
  /\ faults' = faults + 1 /\ trouble' = trouble \cup {"fault"}
  /\ AnswerOK(t)
  /\ UNCHANGED <<map, heap, db>>

\* peer.write().await.guid = guid
NoteGuid(t) ==
  /\ pc[t] = "guid"
  /\ heap' = [heap EXCEPT ![ref[t]].stored = TRUE]
  /\ AnswerOK(t)
  /\ UNCHANGED <<map, db, faults, trouble>>

-----------------------------------------------------------------------------
(* udp.rs: register_peer_response *)

KnownIp(p) == IF p.port THEN p.addr ELSE p.ip

\* Mutant: a heartbeat moves the peer wherever it comes from.
TouchAnyIp(ip, port) ==
  /\ map # NoRef
  /\ heap[map].pk # NoVal
  /\ heap' = [heap EXCEPT ![map].addr = ip, ![map].port = port]
  /\ UNCHANGED <<map, db, task, history>>

\* RegisterPeer (heartbeat): moves the address unless the key must be registered
\* again because it is unknown or comes from another IP. Otherwise nothing changes.
\* The record is looked up under the lock of the map and moved under its own, in
\* one step here: one replaced in between would be moved where nobody looks.
Touch(ip, port) ==
  /\ map # NoRef
  /\ heap[map].pk # NoVal
  /\ ip = KnownIp(heap[map]) \/ ip = Loopback
  /\ heap' = [heap EXCEPT ![map].addr = ip, ![map].port = port]
  /\ UNCHANGED <<map, db, task, history>>

\* hbbs stops and starts again: the database stays.
Restart ==
  /\ map # NoRef
  /\ map' = NoRef
  /\ heap' = [r \in Ref |-> Fresh]
  /\ pc' = [t \in Task |-> "idle"]
  /\ req' = [t \in Task |-> [op |-> "lookup"]]
  /\ ref' = [t \in Task |-> NoRef]
  /\ row' = [t \in Task |-> NoRow]
  /\ insert' = [t \in Task |-> FALSE]
  /\ trouble' = IF \E t \in Task : pc[t] = "store" THEN trouble \cup {"crash"} ELSE trouble
  /\ UNCHANGED <<db, faults, acked>>

Step(t) ==
  \/ Get(t) \/ Select(t) \/ SelectFails(t) \/ Adopt(t) \/ Default(t)
  \/ Check(t) \/ Refuse(t) \/ Write(t) \/ Store(t) \/ StoreFails(t) \/ NoteGuid(t)

Next ==
  \/ \E t \in Task : Step(t) \/ \E q \in Request : Begin(t, q)
  \/ \E ip \in Ip, port \in BOOLEAN : Touch(ip, port)
  \/ Restart

Spec == Init /\ [][Next]_vars

-----------------------------------------------------------------------------
(* Properties *)

\* Only a record whose row exists has a guid, and only for such a record does
\* update_pk update instead of insert: the update, which says nothing when it
\* meets no row, never loses a key (peer.rs:115-131, database.rs:126-143).
GuidHasRow ==
  /\ \A r \in Ref : heap[r].stored => db # NoRow
  /\ \A t \in Task : \/ pc[t] \in {"adopt", "guid"}
                     \/ pc[t] = "store" /\ ~insert[t]
                     => db # NoRow

\* What the server holds in memory of a registered id is what it would load
\* after a restart, once no registration is being stored, unless statements
\* failed or registrations overlapped (peer.rs:104-131, 141-151).
MemoryIsStored ==
  LET p == heap[map] IN
  /\ map # NoRef /\ trouble \cap {"fault", "contested", "overlapped"} = {}
  /\ \A t \in Task : ~Storing(t)
  => /\ p.uuid # NoVal => [uuid |-> p.uuid, pk |-> p.pk, ip |-> p.ip] = db
     /\ p.stored = (db # NoRow)

\* A peer that was told OK owns the id from then on, across restarts: no other
\* uuid is ever told OK and its row is there, or is just being written. What
\* can void this is a failed statement, two uuids that claim a new id together,
\* and a crash before the first row (udp.rs:160-226).
AckedUuidOwnsId ==
  trouble \cap {"fault", "contested", "crash"} = {} =>
    \A u \in acked :
      /\ acked = {u}
      /\ db.uuid = u \/ (db = NoRow /\ \E t \in Task : pc[t] = "store" /\ req[t].uuid = u)

\* hbbs sends what it pushes to a peer to the IP its key was registered from,
\* or to its own host, however heartbeats, registrations and reloads of the
\* record alternate (udp.rs:107-119, peer.rs:105-109).
AddrIsRegisteredIp ==
  \A r \in Ref : heap[r].addr \in {NoVal, heap[r].ip, Loopback}
=============================================================================
