------------------------- MODULE PeerRegistryProofs --------------------------
(***************************************************************************)
(* Theorems about PeerRegistry for any number of tasks, uuids, keys and    *)
(* addresses, and any number of failing statements.                        *)
(***************************************************************************)
EXTENDS PeerRegistry, TLAPS

USE NoRefAssumption, NoValAssumption, MaxFaultsAssumption
USE DEF task, history, Goto

\* A record is loaded with the values of its row and no address (peer.rs:141-149).
LEMMA Records ==
  /\ Fresh \in Peer
  /\ \A r \in Row : Loaded(r) \in Peer /\ Loaded(r).addr = NoVal
BY DEF Fresh, Peer, Row, Loaded

\* A task that returns has cleared its locals (Return).
LEMMA ReturnTyped ==
  ASSUME TypeOK, NEW t \in Task, Return(t)
  PROVE  /\ pc' \in [Task -> Place] /\ req' \in [Task -> Request]
         /\ ref' \in [Task -> Ref \cup {NoRef}] /\ row' \in [Task -> Row \cup {NoRow}]
         /\ insert' \in [Task -> BOOLEAN]
         /\ \A u \in Task : pc'[u] \in {"check", "write", "store", "guid"} =>
              req'[u].op = "register" /\ ref'[u] \in Ref
         /\ \A u \in Task : pc'[u] = "adopt" => row'[u] \in Row
BY DEF TypeOK, Return, Place, Request

\* A task that got a pointer returns or goes on with it (Found).
LEMMA FoundTyped ==
  ASSUME TypeOK, NEW t \in Task, NEW r \in Ref, Found(t, r)
  PROVE  /\ pc' \in [Task -> Place] /\ req' \in [Task -> Request]
         /\ ref' \in [Task -> Ref \cup {NoRef}] /\ row' \in [Task -> Row \cup {NoRow}]
         /\ insert' \in [Task -> BOOLEAN]
         /\ \A u \in Task : pc'[u] \in {"check", "write", "store", "guid"} =>
              req'[u].op = "register" /\ ref'[u] \in Ref
         /\ \A u \in Task : pc'[u] = "adopt" => row'[u] \in Row
<1>1. CASE Return(t)
  BY <1>1, ReturnTyped
<1>2. CASE req[t].op = "register" /\ Goto(t, "check") /\ ref' = [ref EXCEPT ![t] = r]
           /\ UNCHANGED <<req, row, insert>>
  BY <1>2 DEF TypeOK, Place
<1> QED BY <1>1, <1>2 DEF Found

\* A step keeps every record, row and local of its kind, given that an update
\* finds its row.
LEMMA TypeStep ==
  ASSUME TypeOK, GuidHasRow, [Next]_vars
  PROVE  TypeOK'
<1>1. ASSUME NEW t \in Task, NEW q \in Request, Begin(t, q)
      PROVE  TypeOK'
  BY <1>1 DEF Begin, TypeOK, Place
<1>2. ASSUME NEW t \in Task, Get(t)
      PROVE  TypeOK'
  <2>1. CASE map # NoRef /\ Found(t, map)
    BY <1>2, <2>1, FoundTyped DEF Get, TypeOK
  <2>2. CASE Goto(t, "select") /\ UNCHANGED <<req, ref, row, insert>>
    BY <1>2, <2>2 DEF Get, TypeOK, Place
  <2> QED BY <1>2, <2>1, <2>2 DEF Get
<1>3. ASSUME NEW t \in Task, NotFound(t), UNCHANGED <<map, heap, db, acked>>,
             faults' \in Nat, trouble' \subseteq Trouble
      PROVE  TypeOK'
  <2>1. CASE Return(t)
    BY <1>3, <2>1, ReturnTyped DEF TypeOK
  <2>2. CASE Goto(t, "default") /\ UNCHANGED <<req, ref, row, insert>>
    BY <1>3, <2>2 DEF TypeOK, Place
  <2> QED BY <1>3, <2>1, <2>2 DEF NotFound
<1>4. ASSUME NEW t \in Task, Select(t)
      PROVE  TypeOK'
  <2>1. CASE NotFound(t)
    BY <1>3, <1>4, <2>1 DEF Select, TypeOK
  <2>2. CASE ~NotFound(t)
    BY <1>4, <2>2 DEF Select, TypeOK, Place
  <2> QED BY <2>1, <2>2
<1>5. ASSUME NEW t \in Task, SelectFails(t)
      PROVE  TypeOK'
  BY <1>3, <1>5 DEF SelectFails, TypeOK, Trouble
<1>6. ASSUME NEW t \in Task, Adopt(t)
      PROVE  TypeOK'
  <2>1. PICK r \in Garbage : heap' = [heap EXCEPT ![r] = Loaded(row[t])] /\ map' = r /\ Found(t, r)
    BY <1>6 DEF Adopt
  <2>2. r \in Ref /\ heap' \in [Ref -> Peer]
    BY <1>6, <2>1, Records DEF Adopt, Garbage, TypeOK
  <2>3. trouble' \subseteq Trouble
    BY <1>6 DEF Adopt, TypeOK, Trouble
  <2> QED BY <1>6, <2>1, <2>2, <2>3, FoundTyped DEF Adopt, TypeOK
<1>7. ASSUME NEW t \in Task, Default(t)
      PROVE  TypeOK'
  <2>1. CASE map # NoRef /\ Found(t, map) /\ UNCHANGED <<map, heap>>
    BY <1>7, <2>1, FoundTyped DEF Default, TypeOK
  <2>2. ASSUME NEW r \in Garbage, heap' = [heap EXCEPT ![r] = Fresh], map' = r, Found(t, r)
        PROVE  TypeOK'
    <3>1. r \in Ref /\ heap' \in [Ref -> Peer]
      BY <2>2, Records DEF Garbage, TypeOK
    <3> QED BY <1>7, <2>2, <3>1, FoundTyped DEF Default, TypeOK
  <2> QED BY <1>7, <2>1, <2>2 DEF Default
<1>8. ASSUME NEW t \in Task, AnswerOK(t), pc[t] \in {"check", "write", "store", "guid"},
             UNCHANGED map, heap' \in [Ref -> Peer], db' \in Row \cup {NoRow},
             faults' \in Nat, trouble' \subseteq Trouble
      PROVE  TypeOK'
  <2>1. acked' \subseteq Uuid
    BY <1>8 DEF AnswerOK, TypeOK, Request
  <2> QED BY <1>8, <2>1, ReturnTyped DEF AnswerOK, TypeOK
<1>9. ASSUME NEW t \in Task, Check(t)
      PROVE  TypeOK'
  <2>1. CASE AnswerOK(t)
    BY <1>8, <1>9, <2>1 DEF Check, TypeOK
  <2>2. CASE Goto(t, "write") /\ UNCHANGED <<req, ref, row, insert, acked>>
    BY <1>9, <2>2 DEF Check, TypeOK, Place
  <2> QED BY <1>9, <2>1, <2>2 DEF Check
<1>10. ASSUME NEW t \in Task, Refuse(t)
       PROVE  TypeOK'
  BY <1>10, ReturnTyped DEF Refuse, TypeOK
<1>11. ASSUME NEW t \in Task, Write(t)
       PROVE  TypeOK'
  <2>1. req[t] \in [op : {"register"}, uuid : Uuid, pk : Pk, ip : Ip] /\ ref[t] \in Ref
    BY <1>11 DEF Write, TypeOK, Request
  <2>2. heap' \in [Ref -> Peer] /\ insert' \in [Task -> BOOLEAN]
    BY <1>11, <2>1 DEF Write, TypeOK, Peer
  <2>3. trouble' \subseteq Trouble
    BY <1>11 DEF Write, TypeOK, Trouble
  <2> QED BY <1>11, <2>1, <2>2, <2>3 DEF Write, TypeOK, Place
<1>12. ASSUME NEW t \in Task, Store(t)
       PROVE  TypeOK'
  <2>1. req[t] \in [op : {"register"}, uuid : Uuid, pk : Pk, ip : Ip]
    BY <1>12 DEF Store, TypeOK, Request
  <2>2. db' \in Row \cup {NoRow}
    <3>1. ~insert[t] => db \in Row
      BY <1>12 DEF Store, GuidHasRow, TypeOK
    <3>2. CASE insert[t]
      BY <1>12, <2>1, <3>2 DEF Store, TypeOK, Row
    <3>3. CASE ~insert[t]
      BY <1>12, <2>1, <3>1, <3>3 DEF Store, Row
    <3> QED BY <3>2, <3>3
  <2>3. CASE AnswerOK(t)
    BY <1>8, <1>12, <2>2, <2>3 DEF Store, TypeOK
  <2>4. CASE Goto(t, "guid") /\ UNCHANGED <<req, ref, row, insert, acked>>
    BY <1>12, <2>2, <2>4 DEF Store, TypeOK, Place
  <2> QED BY <1>12, <2>3, <2>4 DEF Store
<1>13. ASSUME NEW t \in Task, StoreFails(t)
       PROVE  TypeOK'
  BY <1>8, <1>13 DEF StoreFails, TypeOK, Trouble
<1>14. ASSUME NEW t \in Task, NoteGuid(t)
       PROVE  TypeOK'
  <2>1. heap' \in [Ref -> Peer]
    <3>1. ref[t] \in Ref /\ heap[ref[t]] \in Peer
      BY <1>14 DEF NoteGuid, TypeOK
    <3>2. [heap[ref[t]] EXCEPT !.stored = TRUE] \in Peer
      BY <3>1 DEF Peer
    <3> QED BY <1>14, <3>1, <3>2 DEF NoteGuid, TypeOK
  <2> QED BY <1>8, <1>14, <2>1 DEF NoteGuid, TypeOK
<1>15. ASSUME NEW ip \in Ip, NEW port \in BOOLEAN, Touch(ip, port)
       PROVE  TypeOK'
  <2>1. heap' \in [Ref -> Peer]
    BY <1>15 DEF Touch, TypeOK, Peer
  <2> QED BY <1>15, <2>1 DEF Touch, TypeOK
<1>16. CASE Restart
  <2>1. heap' \in [Ref -> Peer] /\ trouble' \subseteq Trouble
    BY <1>16, Records DEF Restart, TypeOK, Trouble
  <2> QED BY <1>16, <2>1 DEF Restart, TypeOK, Place, Request
<1>17. CASE UNCHANGED vars
  BY <1>17 DEF vars, TypeOK
<1> QED BY <1>1, <1>2, <1>4, <1>5, <1>6, <1>7, <1>9, <1>10, <1>11, <1>12, <1>13, <1>14, <1>15,
           <1>16, <1>17 DEF Next, Step

\* Rows are never deleted, records get a guid from a row or after an insert.
LEMMA GuidStep ==
  ASSUME TypeOK, GuidHasRow, [Next]_vars
  PROVE  GuidHasRow'
<1> USE DEF TypeOK, GuidHasRow
<1>1. ASSUME NEW t \in Task, Return(t) \/ NotFound(t), UNCHANGED <<map, heap, db>>
      PROVE  GuidHasRow'
  BY <1>1 DEF Return, NotFound
<1>2. ASSUME NEW t \in Task, NEW r \in Ref, Found(t, r), UNCHANGED db,
             heap' = heap \/ heap' = [heap EXCEPT ![r] = Fresh]
               \/ (db # NoRow /\ heap' = [heap EXCEPT ![r] = Loaded(row[t])])
      PROVE  GuidHasRow'
  <2>1. \A u \in Task : pc'[u] \in {"adopt", "guid", "store"} => pc[u] = pc'[u] /\ insert'[u] = insert[u]
    BY <1>2 DEF Found, Return
  <2>2. \A q \in Ref : heap'[q].stored => heap[q].stored \/ db # NoRow
    BY <1>2 DEF Fresh
  <2> QED BY <1>2, <2>1, <2>2
<1>3. ASSUME NEW t \in Task, NEW q \in Request, Begin(t, q)
      PROVE  GuidHasRow'
  BY <1>3 DEF Begin
<1>4. ASSUME NEW t \in Task, Get(t)
      PROVE  GuidHasRow'
  <2>1. CASE map # NoRef /\ Found(t, map)
    BY <1>2, <1>4, <2>1 DEF Get
  <2>2. CASE Goto(t, "select") /\ UNCHANGED <<req, ref, row, insert>>
    BY <1>4, <2>2 DEF Get
  <2> QED BY <1>4, <2>1, <2>2 DEF Get
<1>5. ASSUME NEW t \in Task, Select(t)
      PROVE  GuidHasRow'
  <2>1. CASE NotFound(t)
    BY <1>1, <1>5, <2>1 DEF Select
  <2>2. CASE db # NoRow
    BY <1>5, <2>2 DEF Select
  <2> QED BY <1>5, <2>1, <2>2 DEF Select
<1>6. ASSUME NEW t \in Task, SelectFails(t)
      PROVE  GuidHasRow'
  BY <1>1, <1>6 DEF SelectFails
<1>7. ASSUME NEW t \in Task, Adopt(t)
      PROVE  GuidHasRow'
  <2>1. PICK r \in Garbage : heap' = [heap EXCEPT ![r] = Loaded(row[t])] /\ map' = r /\ Found(t, r)
    BY <1>7 DEF Adopt
  <2>2. r \in Ref /\ db # NoRow /\ UNCHANGED db
    BY <1>7, <2>1 DEF Adopt, Garbage
  <2> QED BY <1>2, <2>1, <2>2
<1>8. ASSUME NEW t \in Task, Default(t)
      PROVE  GuidHasRow'
  <2>1. CASE map # NoRef /\ Found(t, map) /\ UNCHANGED <<map, heap>>
    BY <1>2, <1>8, <2>1 DEF Default
  <2>2. ASSUME NEW r \in Garbage, heap' = [heap EXCEPT ![r] = Fresh], map' = r, Found(t, r)
        PROVE  GuidHasRow'
    BY <1>2, <1>8, <2>2 DEF Default, Garbage
  <2> QED BY <1>8, <2>1, <2>2 DEF Default
<1>9. ASSUME NEW t \in Task, Check(t)
      PROVE  GuidHasRow'
  <2>1. CASE Return(t)
    BY <1>1, <1>9, <2>1 DEF Check
  <2>2. CASE Goto(t, "write") /\ UNCHANGED <<req, ref, row, insert, acked>>
    BY <1>9, <2>2 DEF Check
  <2> QED BY <1>9, <2>1, <2>2 DEF Check, AnswerOK
<1>10. ASSUME NEW t \in Task, Refuse(t)
       PROVE  GuidHasRow'
  BY <1>1, <1>10 DEF Refuse
<1>11. ASSUME NEW t \in Task, Write(t)
       PROVE  GuidHasRow'
  <2>1. ref[t] \in Ref /\ UNCHANGED db
    BY <1>11 DEF Write
  <2>2. \A r \in Ref : heap'[r].stored = heap[r].stored
    BY <1>11, <2>1 DEF Write
  <2>3. insert' = [insert EXCEPT ![t] = ~heap[ref[t]].stored] /\ pc' = [pc EXCEPT ![t] = "store"]
    BY <1>11 DEF Write
  <2>4. \A u \in Task : u # t => pc'[u] = pc[u] /\ insert'[u] = insert[u]
    BY <2>3
  <2>5. pc'[t] = "store" /\ (~insert'[t] => heap[ref[t]].stored)
    BY <2>3
  <2> QED BY <2>1, <2>2, <2>4, <2>5
<1>12. ASSUME NEW t \in Task, Store(t)
       PROVE  GuidHasRow'
  <2>1. req[t] \in [op : {"register"}, uuid : Uuid, pk : Pk, ip : Ip]
    BY <1>12 DEF Store, Request
  <2>2. db # NoRow => db' # NoRow
    <3>1. \A r \in Row : [r EXCEPT !.pk = req[t].pk, !.ip = req[t].ip].uuid \in Uuid
      BY DEF Row
    <3>2. CASE db' = [db EXCEPT !.pk = req[t].pk, !.ip = req[t].ip] /\ db \in Row
      <4>1. db'.uuid \in Uuid
        BY <3>1, <3>2
      <4>2. NoRow.uuid \notin Uuid
        BY DEF NoRow
      <4> QED BY <4>1, <4>2
    <3>3. db' = db \/ db = NoRow \/ (db' = [db EXCEPT !.pk = req[t].pk, !.ip = req[t].ip] /\ db \in Row)
      BY <1>12 DEF Store
    <3> QED BY <3>2, <3>3
  <2>3. CASE Return(t)
    BY <1>12, <2>2, <2>3 DEF Store, Return
  <2>4. CASE Goto(t, "guid") /\ UNCHANGED <<req, ref, row, insert, acked>> /\ db' # NoRow
    BY <1>12, <2>4 DEF Store
  <2>5. [uuid |-> req[t].uuid, pk |-> req[t].pk, ip |-> req[t].ip] # NoRow
    BY <2>1 DEF NoRow
  <2> QED BY <1>12, <2>3, <2>4, <2>5 DEF Store, AnswerOK
<1>13. ASSUME NEW t \in Task, StoreFails(t)
       PROVE  GuidHasRow'
  BY <1>1, <1>13 DEF StoreFails, AnswerOK
<1>14. ASSUME NEW t \in Task, NoteGuid(t)
       PROVE  GuidHasRow'
  BY <1>14 DEF NoteGuid, AnswerOK, Return
<1>15. ASSUME NEW ip \in Ip, NEW port \in BOOLEAN, Touch(ip, port)
       PROVE  GuidHasRow'
  <2>1. \A r \in Ref : heap'[r].stored = heap[r].stored
    BY <1>15 DEF Touch, Peer
  <2> QED BY <1>15, <2>1 DEF Touch
<1>16. CASE Restart
  BY <1>16 DEF Restart, Fresh
<1>17. CASE UNCHANGED vars
  BY <1>17 DEF vars
<1> QED BY <1>3, <1>4, <1>5, <1>6, <1>7, <1>8, <1>9, <1>10, <1>11, <1>12, <1>13, <1>14, <1>15,
           <1>16, <1>17 DEF Next, Step

\* Every record, row and local is of its kind, and an update of the row never
\* misses it, whatever statements fail and whenever the server restarts.
THEOREM RegistryCorrect == Spec => [](TypeOK /\ GuidHasRow)
<1>1. Init => TypeOK /\ GuidHasRow
  BY Records DEF Init, TypeOK, Place, Request, GuidHasRow, Fresh
<1>2. TypeOK /\ GuidHasRow /\ [Next]_vars => TypeOK' /\ GuidHasRow'
  BY TypeStep, GuidStep
<1> QED BY <1>1, <1>2, PTL DEF Spec

\* A record of the registry keeps the address of a heartbeat or registration
\* only if that came from the IP of the key, or from the server's own host.
LEMMA AddrStep ==
  ASSUME TypeOK, AddrIsRegisteredIp, [Next]_vars
  PROVE  AddrIsRegisteredIp'
<1> USE DEF TypeOK, AddrIsRegisteredIp
<1>1. ASSUME NEW t \in Task, Adopt(t) \/ Default(t)
      PROVE  AddrIsRegisteredIp'
  <2>1. ASSUME NEW r \in Garbage, NEW p, p.addr = NoVal, heap' = [heap EXCEPT ![r] = p]
        PROVE  AddrIsRegisteredIp'
    BY <2>1 DEF Garbage
  <2>2. Fresh.addr = NoVal /\ \A q \in Row : Loaded(q).addr = NoVal
    BY Records DEF Fresh
  <2>3. CASE heap' = heap
    BY <2>3
  <2>4. CASE Adopt(t)
    <3>1. PICK r \in Garbage : heap' = [heap EXCEPT ![r] = Loaded(row[t])]
      BY <2>4 DEF Adopt
    <3>2. row[t] \in Row
      BY <2>4 DEF Adopt
    <3> QED BY <2>1, <2>2, <3>1, <3>2
  <2>5. CASE Default(t) /\ heap' # heap
    <3>1. PICK r \in Garbage : heap' = [heap EXCEPT ![r] = Fresh]
      BY <2>5 DEF Default
    <3> QED BY <2>1, <2>2, <3>1
  <2> QED BY <1>1, <2>3, <2>4, <2>5
<1>2. ASSUME NEW t \in Task, Write(t)
      PROVE  AddrIsRegisteredIp'
  <2>1. PICK port \in BOOLEAN :
          heap' = [heap EXCEPT ![ref[t]] =
                     [uuid |-> req[t].uuid, pk |-> req[t].pk, ip |-> req[t].ip, addr |-> req[t].ip,
                      port |-> port, stored |-> heap[ref[t]].stored]]
    BY <1>2 DEF Write
  <2> QED BY <1>2, <2>1 DEF Write
<1>3. ASSUME NEW t \in Task, NoteGuid(t)
      PROVE  AddrIsRegisteredIp'
  <2>1. ref[t] \in Ref
    BY <1>3 DEF NoteGuid
  <2>2. \A r \in Ref : heap'[r].addr = heap[r].addr /\ heap'[r].ip = heap[r].ip
    BY <1>3, <2>1 DEF NoteGuid, Peer
  <2> QED BY <2>2
<1>4. ASSUME NEW ip \in Ip, NEW port \in BOOLEAN, Touch(ip, port)
      PROVE  AddrIsRegisteredIp'
  <2>1. map \in Ref /\ heap[map] \in Peer
    BY <1>4 DEF Touch
  <2>2. heap'[map].addr = ip /\ heap'[map].ip = heap[map].ip /\ \A r \in Ref \ {map} : heap'[r] = heap[r]
    BY <1>4, <2>1 DEF Touch, Peer
  <2>3. ip \in {heap[map].addr, heap[map].ip, Loopback}
    BY <1>4 DEF Touch, KnownIp
  <2> QED BY <2>1, <2>2, <2>3
<1>5. CASE Restart
  BY <1>5 DEF Restart, Fresh
<1>6. CASE UNCHANGED heap
  BY <1>6
<1>7. ASSUME NEW t \in Task, Step(t) \/ \E q \in Request : Begin(t, q)
      PROVE  Adopt(t) \/ Default(t) \/ Write(t) \/ NoteGuid(t) \/ UNCHANGED heap
  BY <1>7 DEF Step, Begin, Get, Select, SelectFails, Check, Refuse, Store, StoreFails
<1> QED BY <1>1, <1>2, <1>3, <1>4, <1>5, <1>6, <1>7 DEF Next, vars

\* However heartbeats, registrations and reloads alternate, the server pushes
\* to the IP a peer's key was registered from, or to its own host.
THEOREM AddrSafe == Spec => []AddrIsRegisteredIp
<1>1. Init => AddrIsRegisteredIp
  BY DEF Init, AddrIsRegisteredIp, Fresh
<1> QED BY <1>1, AddrStep, RegistryCorrect, PTL DEF Spec

-----------------------------------------------------------------------------
(* What a step does, for the invariants that relate tasks, memory and database. *)

OthersKeep(t) ==
  \A u \in Task \ {t} : /\ pc'[u] = pc[u] /\ req'[u] = req[u] /\ ref'[u] = ref[u]
                        /\ row'[u] = row[u] /\ insert'[u] = insert[u]

Returned(t) == pc'[t] = "idle" /\ ref'[t] = NoRef /\ row'[t] = NoRow

\* The task got the pointer r: it returns, or goes on to compare.
Took(t, r) ==
  \/ Returned(t)
  \/ pc'[t] = "check" /\ ref'[t] = r /\ row'[t] = row[t] /\ req'[t] = req[t]

\* A step that only reads: it begins, looks up, selects, gives up, is refused.
Looks(t) ==
  /\ UNCHANGED <<map, heap, db, acked>>
  /\ trouble \subseteq trouble'
  /\ pc[t] \in {"idle", "get", "select", "check"}
  /\ \/ Returned(t)
     \/ pc'[t] \in {"get", "select"} /\ ref'[t] = ref[t] /\ row'[t] = row[t]
     \/ pc'[t] = "adopt" /\ ref'[t] = ref[t] /\ row'[t] = db /\ db # NoRow
     \/ /\ pc'[t] = "default" /\ ref'[t] = ref[t] /\ row'[t] = row[t]
        /\ db = NoRow \/ "fault" \in trouble'
     \/ map # NoRef /\ Took(t, map)

LEMMA RowFacts ==
  /\ NoRow.uuid = NoVal
  /\ \A r \in Row : r.uuid \in Uuid /\ r.uuid # NoVal /\ r # NoRow
  /\ TypeOK => (db # NoRow <=> db \in Row) /\ (db = NoRow <=> db.uuid = NoVal)
<1>1. \A r \in Row : r.uuid \in Uuid
  BY DEF Row
<1>2. NoRow.uuid = NoVal /\ NoVal \notin Uuid
  BY DEF NoRow
<1> QED BY <1>1, <1>2 DEF TypeOK

LEMMA ReturnKeeps ==
  ASSUME TypeOK, NEW t \in Task, Return(t)
  PROVE  Returned(t) /\ OthersKeep(t)
BY DEF TypeOK, Return, Returned, OthersKeep

LEMMA FoundTook ==
  ASSUME TypeOK, NEW t \in Task, NEW r, Found(t, r)
  PROVE  Took(t, r) /\ OthersKeep(t)
<1>1. CASE Return(t)
  BY <1>1, ReturnKeeps DEF Took
<1>2. CASE ~Return(t)
  BY <1>2 DEF Found, Took, TypeOK, OthersKeep
<1> QED BY <1>1, <1>2

\* Every step of a task leaves the locals of the others alone.
LEMMA StepKeeps ==
  ASSUME TypeOK, NEW t \in Task, Step(t) \/ \E q \in Request : Begin(t, q)
  PROVE  OthersKeep(t)
<1>1. CASE Return(t)
  BY <1>1, ReturnKeeps
<1>2. ASSUME NEW r, Found(t, r)
      PROVE  OthersKeep(t)
  BY <1>2, FoundTook
<1>3. CASE NotFound(t)
  BY <1>3, <1>1 DEF NotFound, TypeOK, OthersKeep
<1>4. CASE ~Return(t) /\ (\A r : ~Found(t, r)) /\ ~NotFound(t)
  BY <1>4 DEF Step, Begin, Get, Select, SelectFails, Adopt, Default, Check, Refuse, Write, Store,
              StoreFails, NoteGuid, AnswerOK, TypeOK, OthersKeep
<1> QED BY <1>1, <1>2, <1>3, <1>4

\* Steps are of few kinds.
LEMMA StepKinds ==
  ASSUME TypeOK, [Next]_vars
  PROVE  \/ UNCHANGED vars \/ Restart
         \/ \E ip \in Ip, port \in BOOLEAN : Touch(ip, port)
         \/ \E t \in Task :
              /\ OthersKeep(t)
              /\ \/ Looks(t) \/ Adopt(t) \/ Default(t) \/ Check(t)
                 \/ Write(t) \/ Store(t) \/ StoreFails(t) \/ NoteGuid(t)
<1>1. ASSUME NEW t \in Task, NEW q \in Request, Begin(t, q)
      PROVE  Looks(t)
  BY <1>1 DEF Begin, Looks, TypeOK
<1>2. ASSUME NEW t \in Task, Get(t)
      PROVE  Looks(t)
  <2>1. CASE map # NoRef /\ Found(t, map)
    BY <1>2, <2>1, FoundTook DEF Get, Looks
  <2>2. CASE Goto(t, "select") /\ UNCHANGED <<req, ref, row, insert>>
    BY <1>2, <2>2 DEF Get, Looks, TypeOK
  <2> QED BY <1>2, <2>1, <2>2 DEF Get
<1>3. ASSUME NEW t \in Task, NotFound(t), pc[t] = "select", UNCHANGED <<map, heap, db, acked>>,
             trouble \subseteq trouble', db = NoRow \/ "fault" \in trouble'
      PROVE  Looks(t)
  <2>1. CASE Return(t)
    BY <1>3, <2>1, ReturnKeeps DEF Looks
  <2>2. CASE ~Return(t)
    BY <1>3, <2>2 DEF NotFound, Looks, TypeOK
  <2> QED BY <2>1, <2>2
<1>4. ASSUME NEW t \in Task, Select(t)
      PROVE  Looks(t)
  <2>1. CASE NotFound(t) /\ db = NoRow
    BY <1>3, <1>4, <2>1 DEF Select
  <2>2. CASE db # NoRow
    BY <1>4, <2>2 DEF Select, Looks, TypeOK
  <2> QED BY <1>4, <2>1, <2>2 DEF Select
<1>5. ASSUME NEW t \in Task, SelectFails(t)
      PROVE  Looks(t)
  BY <1>3, <1>5 DEF SelectFails
<1>6. ASSUME NEW t \in Task, Refuse(t)
      PROVE  Looks(t)
  BY <1>6, ReturnKeeps DEF Refuse, Looks
<1> QED BY <1>1, <1>2, <1>4, <1>5, <1>6, StepKeeps DEF Next, Step

\* The row never goes, and keeps its uuid; a task at its write holds a record.
LEMMA RowStays ==
  ASSUME TypeOK, GuidHasRow, [Next]_vars
  PROVE  /\ db # NoRow => db' # NoRow /\ db'.uuid = db.uuid
         /\ db' = db \/ \E t \in Task : Store(t)
<1>1. db' = db \/ \E t \in Task : Store(t)
  BY StepKinds DEF vars, Restart, Touch, Looks, Adopt, Default, Check, Write, StoreFails, NoteGuid
<1>2. ASSUME NEW t \in Task, Store(t), db # NoRow
      PROVE  db' # NoRow /\ db'.uuid = db.uuid
  <2>1. db \in Row
    BY <1>2, RowFacts
  <2>2. CASE db' = db
    BY <1>2, <2>2
  <2>3. CASE db' = [db EXCEPT !.pk = req[t].pk, !.ip = req[t].ip]
    <3>1. db'.uuid = db.uuid
      BY <2>1, <2>3 DEF Row
    <3> QED BY <2>1, <3>1, RowFacts
  <2> QED BY <1>2, <2>2, <2>3 DEF Store
<1> QED BY <1>1, <1>2

\* A record put in the map is one nobody had: loaded from the row or empty.
LEMMA AdoptDoes ==
  ASSUME TypeOK, NEW t \in Task, Adopt(t)
  PROVE  /\ pc[t] = "adopt" /\ row[t] \in Row /\ UNCHANGED <<db, acked>>
         /\ trouble \subseteq trouble' /\ (map # NoRef => "overlapped" \in trouble')
         /\ \E r \in Garbage : /\ r \in Ref /\ map' = r /\ Took(t, r)
                               /\ heap' = [heap EXCEPT ![r] = Loaded(row[t])]
BY FoundTook DEF Adopt, TypeOK, Garbage

LEMMA DefaultDoes ==
  ASSUME TypeOK, NEW t \in Task, Default(t)
  PROVE  /\ pc[t] = "default" /\ UNCHANGED <<db, acked, trouble>>
         /\ \/ map # NoRef /\ Took(t, map) /\ UNCHANGED <<map, heap>>
            \/ /\ map = NoRef
               /\ \E r \in Garbage : /\ r \in Ref /\ map' = r /\ Took(t, r)
                                     /\ heap' = [heap EXCEPT ![r] = Fresh]
BY FoundTook DEF Default, Garbage

LEMMA CheckDoes ==
  ASSUME TypeOK, NEW t \in Task, Check(t)
  PROVE  /\ pc[t] = "check" /\ ref[t] \in Ref /\ req[t].uuid \in Uuid
         /\ UNCHANGED <<map, heap, db, trouble>>
         /\ heap[ref[t]].uuid \in {NoVal, req[t].uuid}
         /\ \/ /\ pc'[t] = "write" /\ ref'[t] = ref[t] /\ row'[t] = row[t] /\ req'[t] = req[t]
               /\ acked' = acked
            \/ /\ Returned(t) /\ acked' = acked \cup {req[t].uuid}
               /\ heap[ref[t]].uuid = req[t].uuid
<1>1. req[t].op = "register" /\ ref[t] \in Ref /\ req[t].uuid \in Uuid
  BY DEF Check, TypeOK, Request
<1>2. heap[ref[t]].uuid \in {NoVal, req[t].uuid}
  BY DEF Check, Acceptable
<1>3. CASE AnswerOK(t)
  <2>1. heap[ref[t]].uuid = req[t].uuid
    BY <1>3 DEF Check, Changes, Goto, TypeOK, AnswerOK, Return
  <2> QED BY <1>1, <1>2, <1>3, <2>1, ReturnKeeps DEF Check, AnswerOK
<1>4. CASE ~AnswerOK(t)
  BY <1>1, <1>2, <1>4 DEF Check, TypeOK
<1> QED BY <1>3, <1>4

LEMMA WriteDoes ==
  ASSUME TypeOK, NEW t \in Task, Write(t)
  PROVE  /\ pc[t] = "write" /\ ref[t] \in Ref /\ req[t].uuid \in Uuid
         /\ pc'[t] = "store" /\ ref'[t] = ref[t] /\ row'[t] = row[t] /\ req'[t] = req[t]
         /\ insert'[t] = ~heap[ref[t]].stored
         /\ UNCHANGED <<map, db, acked>> /\ trouble \subseteq trouble'
         /\ \A r \in Ref \ {ref[t]} : heap'[r] = heap[r]
         /\ heap'[ref[t]].uuid = req[t].uuid /\ heap'[ref[t]].pk = req[t].pk
         /\ heap'[ref[t]].ip = req[t].ip /\ heap'[ref[t]].stored = heap[ref[t]].stored
         /\ \A u \in Task : pc[u] = "write" /\ req[u].uuid # req[t].uuid => "contested" \in trouble'
         /\ ref[t] # map => "overlapped" \in trouble'
         /\ \A u \in Task : Storing(u) => "overlapped" \in trouble'
<1>1. PICK port \in BOOLEAN :
        heap' = [heap EXCEPT ![ref[t]] =
                   [uuid |-> req[t].uuid, pk |-> req[t].pk, ip |-> req[t].ip, addr |-> req[t].ip,
                    port |-> port, stored |-> heap[ref[t]].stored]]
  BY DEF Write
<1>2. req[t].op = "register" /\ ref[t] \in Ref /\ req[t].uuid \in Uuid
  BY DEF Write, TypeOK, Request
<1>3. trouble' = trouble
        \cup {x \in {"contested"} : \E u \in Task : pc[u] = "write" /\ req[u].uuid # req[t].uuid}
        \cup {x \in {"overlapped"} : ref[t] # map \/ \E u \in Task : Storing(u)}
  BY DEF Write
<1>4. \A u \in Task : pc[u] = "write" /\ req[u].uuid # req[t].uuid => "contested" \in trouble'
  BY <1>3
<1>5. (ref[t] # map => "overlapped" \in trouble') /\ \A u \in Task : Storing(u) => "overlapped" \in trouble'
  BY <1>3
<1>6. trouble \subseteq trouble'
  BY <1>3
<1>7. /\ \A r \in Ref \ {ref[t]} : heap'[r] = heap[r]
      /\ heap'[ref[t]].uuid = req[t].uuid /\ heap'[ref[t]].pk = req[t].pk
      /\ heap'[ref[t]].ip = req[t].ip /\ heap'[ref[t]].stored = heap[ref[t]].stored
  BY <1>1, <1>2 DEF TypeOK
<1>8. insert'[t] = ~heap[ref[t]].stored
  BY DEF Write, TypeOK
<1> QED BY <1>2, <1>4, <1>5, <1>6, <1>7, <1>8 DEF Write, TypeOK

LEMMA StoreDoes ==
  ASSUME TypeOK, GuidHasRow, NEW t \in Task, Store(t)
  PROVE  /\ pc[t] = "store" /\ ref[t] \in Ref /\ req[t].uuid \in Uuid
         /\ UNCHANGED <<map, heap, trouble>>
         /\ \/ /\ insert[t] /\ db = NoRow
               /\ db' = [uuid |-> req[t].uuid, pk |-> req[t].pk, ip |-> req[t].ip]
               /\ pc'[t] = "guid" /\ ref'[t] = ref[t] /\ row'[t] = row[t] /\ req'[t] = req[t]
               /\ acked' = acked
            \/ /\ insert[t] /\ db # NoRow /\ db' = db /\ Returned(t)
               /\ acked' = acked \cup {req[t].uuid}
            \/ /\ ~insert[t] /\ db # NoRow /\ Returned(t)
               /\ db' = [uuid |-> db.uuid, pk |-> req[t].pk, ip |-> req[t].ip]
               /\ acked' = acked \cup {req[t].uuid}
<1>1. req[t].op = "register" /\ ref[t] \in Ref /\ req[t].uuid \in Uuid
  BY DEF Store, TypeOK, Request
<1>2. AnswerOK(t) => Returned(t) /\ acked' = acked \cup {req[t].uuid}
  BY ReturnKeeps DEF AnswerOK
<1>3. CASE ~insert[t]
  <2>1. db \in Row
    BY <1>3, RowFacts DEF Store, GuidHasRow
  <2>2. db' = [uuid |-> db.uuid, pk |-> req[t].pk, ip |-> req[t].ip]
    BY <1>3, <2>1 DEF Store, Row
  <2> QED BY <1>1, <1>2, <1>3, <2>1, <2>2, RowFacts DEF Store
<1>4. CASE insert[t]
  BY <1>1, <1>2, <1>4 DEF Store, TypeOK
<1> QED BY <1>3, <1>4

LEMMA NoteDoes ==
  ASSUME TypeOK, NEW t \in Task, NoteGuid(t)
  PROVE  /\ pc[t] = "guid" /\ ref[t] \in Ref /\ req[t].uuid \in Uuid
         /\ UNCHANGED <<map, db, trouble>> /\ Returned(t) /\ acked' = acked \cup {req[t].uuid}
         /\ \A r \in Ref : /\ heap'[r].uuid = heap[r].uuid /\ heap'[r].pk = heap[r].pk
                           /\ heap'[r].ip = heap[r].ip
         /\ heap'[ref[t]].stored
<1>1. req[t].op = "register" /\ ref[t] \in Ref /\ req[t].uuid \in Uuid
  BY DEF NoteGuid, TypeOK, Request
<1>2. heap' = [heap EXCEPT ![ref[t]].stored = TRUE]
  BY DEF NoteGuid
<1>3. /\ \A r \in Ref : /\ heap'[r].uuid = heap[r].uuid /\ heap'[r].pk = heap[r].pk
                        /\ heap'[r].ip = heap[r].ip
      /\ heap'[ref[t]].stored
  BY <1>1, <1>2 DEF TypeOK, Peer
<1> QED BY <1>1, <1>3, ReturnKeeps DEF NoteGuid, AnswerOK

LEMMA TouchDoes ==
  ASSUME TypeOK, NEW ip \in Ip, NEW port \in BOOLEAN, Touch(ip, port)
  PROVE  /\ UNCHANGED <<map, db, task, history>>
         /\ \A r \in Ref : /\ heap'[r].uuid = heap[r].uuid /\ heap'[r].pk = heap[r].pk
                           /\ heap'[r].ip = heap[r].ip /\ heap'[r].stored = heap[r].stored
<1>1. map \in Ref /\ heap[map] \in Peer
  BY DEF Touch, TypeOK
<1>2. heap' = [heap EXCEPT ![map].addr = ip, ![map].port = port]
  BY DEF Touch
<1> QED BY <1>1, <1>2 DEF Touch, TypeOK, Peer

LEMMA RestartDoes ==
  ASSUME TypeOK, Restart
  PROVE  /\ map' = NoRef /\ UNCHANGED <<db, acked>> /\ trouble \subseteq trouble'
         /\ \A t \in Task : pc'[t] = "idle" /\ ref'[t] = NoRef /\ row'[t] = NoRow
         /\ \A t \in Task : pc[t] = "store" => "crash" \in trouble'
BY DEF Restart

LEMMA StoreFailsDoes ==
  ASSUME TypeOK, NEW t \in Task, StoreFails(t)
  PROVE  /\ pc[t] = "store" /\ UNCHANGED <<map, heap, db>> /\ Returned(t)
         /\ trouble \subseteq trouble' /\ "fault" \in trouble'
BY ReturnKeeps DEF StoreFails, AnswerOK

-----------------------------------------------------------------------------
\* While the map has no record for the id, nobody holds one, a selected row is
\* still the row, and who found none may make an empty record.
EmptyMap ==
  map = NoRef => \A t \in Task :
    /\ ref[t] = NoRef
    /\ pc[t] = "adopt" => row[t] = db
    /\ pc[t] = "default" => db = NoRow \/ "fault" \in trouble

\* A selected row has the uuid the row has from its insert on.
SelectedUuid == \A t \in Task : row[t] # NoRow => row[t].uuid = db.uuid

LEMMA EmptyMapHolds ==
  ASSUME TypeOK, GuidHasRow, EmptyMap, [Next]_vars
  PROVE  EmptyMap'
<1> SUFFICES ASSUME map' = NoRef, NEW u \in Task
             PROVE  /\ ref'[u] = NoRef
                    /\ pc'[u] = "adopt" => row'[u] = db'
                    /\ pc'[u] = "default" => db' = NoRow \/ "fault" \in trouble'
  BY DEF EmptyMap
<1>1. CASE UNCHANGED vars
  BY <1>1 DEF vars, EmptyMap
<1>2. CASE Restart
  BY <1>2, RestartDoes
<1>3. ASSUME NEW ip \in Ip, NEW port \in BOOLEAN, Touch(ip, port)
      PROVE  FALSE
  BY <1>3 DEF Touch
<1>4. ASSUME NEW t \in Task, OthersKeep(t), Looks(t)
      PROVE  /\ ref'[u] = NoRef
             /\ pc'[u] = "adopt" => row'[u] = db'
             /\ pc'[u] = "default" => db' = NoRow \/ "fault" \in trouble'
  BY <1>4 DEF EmptyMap, Looks, OthersKeep, Returned
<1>5. ASSUME NEW t \in Task, Adopt(t)
      PROVE  FALSE
  BY <1>5, AdoptDoes
<1>6. ASSUME NEW t \in Task, Default(t)
      PROVE  FALSE
  BY <1>6, DefaultDoes
<1>7. ASSUME NEW t \in Task, map = NoRef
      PROVE  pc[t] \notin {"check", "write", "store", "guid"}
  BY <1>7 DEF EmptyMap, TypeOK
<1>8. ASSUME NEW t \in Task, Check(t) \/ Write(t) \/ Store(t) \/ StoreFails(t) \/ NoteGuid(t)
      PROVE  FALSE
  BY <1>7, <1>8, CheckDoes, WriteDoes, StoreDoes, StoreFailsDoes, NoteDoes
<1> QED BY <1>1, <1>2, <1>3, <1>4, <1>5, <1>6, <1>8, StepKinds

LEMMA SelectedUuidHolds ==
  ASSUME TypeOK, GuidHasRow, SelectedUuid, [Next]_vars
  PROVE  SelectedUuid'
<1> SUFFICES ASSUME NEW u \in Task, row'[u] # NoRow
             PROVE  row'[u].uuid = db'.uuid
  BY DEF SelectedUuid
<1>1. CASE row'[u] = row[u]
  <2>1. row[u] \in Row
    BY <1>1 DEF TypeOK
  <2>2. row[u].uuid = db.uuid
    BY <1>1 DEF SelectedUuid
  <2>3. db # NoRow
    BY <2>1, <2>2, RowFacts
  <2> QED BY <1>1, <2>2, <2>3, RowStays
<1>2. CASE row'[u] # row[u]
  <2>1. ASSUME NEW t \in Task, OthersKeep(t),
               \/ Looks(t) \/ Adopt(t) \/ Default(t) \/ Check(t)
               \/ Write(t) \/ Store(t) \/ StoreFails(t) \/ NoteGuid(t)
        PROVE  u = t /\ row'[u] = db /\ db' = db
    <3>1. u = t
      BY <1>2, <2>1 DEF OthersKeep
    <3>2. row'[u] \in {row[u], NoRow} \/ (row'[u] = db /\ db' = db)
      BY <2>1, <3>1, AdoptDoes, DefaultDoes, CheckDoes, WriteDoes, StoreDoes, StoreFailsDoes, NoteDoes
         DEF Looks, Returned, Took
    <3> QED BY <1>2, <3>1, <3>2
  <2> QED BY <1>2, <2>1, StepKinds, RestartDoes, TouchDoes DEF vars
<1> QED BY <1>1, <1>2

-----------------------------------------------------------------------------
\* What makes AckedUuidOwnsId inductive. Once there is a row, every record a
\* pointer leads to is of its uuid, and before that there is one record; who has
\* compared meets its own uuid or none; who is storing meets its own; and what was
\* answered OK before there is a row is about to be stored.
OwnerInv ==
  trouble \cap {"fault", "contested", "crash"} = {} =>
    /\ db # NoRow => \A r \in Ref : r \notin Garbage => heap[r].uuid = db.uuid
    /\ db = NoRow => \A t \in Task : ref[t] \in {NoRef, map}
    /\ \A t \in Task : pc[t] = "write" => heap[ref[t]].uuid \in {NoVal, req[t].uuid}
    /\ \A t \in Task : Storing(t) => heap[ref[t]].uuid = req[t].uuid
    /\ db # NoRow => acked \subseteq {db.uuid}
    /\ db = NoRow /\ acked # {} => map # NoRef /\ acked = {heap[map].uuid}
    /\ db = NoRow /\ map # NoRef /\ heap[map].uuid # NoVal =>
         \E t \in Task : pc[t] = "store" /\ ref[t] = map


LEMMA OwnerHolds ==
  ASSUME TypeOK, GuidHasRow, EmptyMap, SelectedUuid, OwnerInv, [Next]_vars
  PROVE  OwnerInv'
<1> SUFFICES ASSUME trouble' \cap {"fault", "contested", "crash"} = {}
             PROVE
    /\ db' # NoRow => \A r \in Ref : r \notin Garbage' => heap'[r].uuid = db'.uuid
    /\ db' = NoRow => \A t \in Task : ref'[t] \in {NoRef, map'}
    /\ \A t \in Task : pc'[t] = "write" => heap'[ref'[t]].uuid \in {NoVal, req'[t].uuid}
    /\ \A t \in Task : Storing(t)' => heap'[ref'[t]].uuid = req'[t].uuid
    /\ db' # NoRow => acked' \subseteq {db'.uuid}
    /\ db' = NoRow /\ acked' # {} => map' # NoRef /\ acked' = {heap'[map'].uuid}
    /\ db' = NoRow /\ map' # NoRef /\ heap'[map'].uuid # NoVal =>
         \E t \in Task : pc'[t] = "store" /\ ref'[t] = map'
  BY DEF OwnerInv
<1> DEFINE Same == /\ UNCHANGED <<map, db, acked>>
                   /\ \A r \in Ref : heap'[r].uuid = heap[r].uuid
<1>0. trouble \subseteq trouble'
  BY StepKinds, RestartDoes, TouchDoes, AdoptDoes, DefaultDoes, CheckDoes, WriteDoes, StoreDoes,
     StoreFailsDoes, NoteDoes DEF vars, history, Looks
<1>i. /\ db # NoRow => \A r \in Ref : r \notin Garbage => heap[r].uuid = db.uuid
      /\ db = NoRow => \A t \in Task : ref[t] \in {NoRef, map}
      /\ \A t \in Task : pc[t] = "write" => heap[ref[t]].uuid \in {NoVal, req[t].uuid}
      /\ \A t \in Task : Storing(t) => heap[ref[t]].uuid = req[t].uuid
      /\ db # NoRow => acked \subseteq {db.uuid}
      /\ db = NoRow /\ acked # {} => map # NoRef /\ acked = {heap[map].uuid}
      /\ db = NoRow /\ map # NoRef /\ heap[map].uuid # NoVal =>
           \E t \in Task : pc[t] = "store" /\ ref[t] = map
  BY <1>0 DEF OwnerInv
<1> HIDE DEF OwnerInv
<1>t. /\ map \in Ref \cup {NoRef} /\ NoRef \notin Ref
      /\ \A t \in Task : ref[t] \in Ref \cup {NoRef}
      /\ \A t \in Task : Storing(t) \/ pc[t] \in {"check", "write"} => ref[t] \in Ref
  BY DEF TypeOK, Storing
<1>g. \A r \in Garbage : r \in Ref /\ r # map /\ \A t \in Task : ref[t] # r
  BY DEF Garbage
<1>1. CASE UNCHANGED vars
  BY <1>1, <1>i DEF vars, Storing, Garbage
<1>2. ASSUME NEW ip \in Ip, NEW port \in BOOLEAN, Touch(ip, port)
      PROVE  OwnerInv'
  BY <1>2, <1>i, <1>t, TouchDoes DEF Storing, Garbage, OwnerInv
<1>3. CASE Restart
  <2>1. db = NoRow => acked = {}
    <3>1. acked = {heap[map].uuid} => heap[map].uuid # NoVal
      BY NoValAssumption DEF TypeOK
    <3> QED BY <1>3, <1>i, <3>1, RestartDoes
  <2>2. \A r \in Ref : r \in Garbage'
    BY <1>3, RestartDoes DEF Garbage
  <2> QED BY <1>3, <2>1, <2>2, <1>i, RestartDoes DEF Storing
<1>4. ASSUME NEW t \in Task, OthersKeep(t), Looks(t)
      PROVE  OwnerInv'
  <2>1. /\ UNCHANGED <<map, heap, db, acked>>
        /\ ref'[t] \in {NoRef, ref[t], map} /\ pc'[t] \notin {"write", "store", "guid"}
        /\ pc[t] \notin {"write", "store", "guid"}
    BY <1>4 DEF Looks, Returned, Took
  <2>2. \A r \in Ref : r \notin Garbage' => r \notin Garbage
    BY <1>4, <2>1, <1>t DEF Garbage, OthersKeep
  <2> QED BY <1>4, <2>1, <2>2, <1>i DEF OwnerInv, Storing, OthersKeep
<1>5. ASSUME NEW t \in Task, OthersKeep(t), Adopt(t)
      PROVE  OwnerInv'
  <2>1. PICK r \in Garbage : /\ r \in Ref /\ map' = r /\ Took(t, r)
                             /\ heap' = [heap EXCEPT ![r] = Loaded(row[t])]
    BY <1>5, AdoptDoes
  <2>2. /\ pc[t] = "adopt" /\ row[t] \in Row /\ UNCHANGED <<db, acked>>
    BY <1>5, AdoptDoes
  <2>3. db # NoRow /\ row[t].uuid = db.uuid
    BY <2>2, RowFacts DEF SelectedUuid
  <2>4. heap'[r].uuid = db.uuid /\ \A q \in Ref \ {r} : heap'[q] = heap[q]
    BY <2>1, <2>2, <2>3 DEF Loaded, Fresh, TypeOK
  <2>5. \A q \in Ref : q \notin Garbage' => q = r \/ q \notin Garbage
    BY <1>5, <2>1 DEF Garbage, OthersKeep, Took, Returned
  <2>6. \A u \in Task \ {t} : ref[u] # r
    BY <1>g
  <2>7. pc'[t] \notin {"write", "store", "guid"}
    BY <2>1 DEF Took, Returned
  <2>8. \A q \in Ref : q \notin Garbage' => heap'[q].uuid = db.uuid
    BY <2>3, <2>4, <2>5, <1>i
  <2>9. \A u \in Task : pc'[u] \in {"write", "store", "guid"} =>
          /\ u # t /\ pc[u] = pc'[u] /\ req'[u] = req[u] /\ ref'[u] = ref[u]
          /\ heap'[ref[u]] = heap[ref[u]]
    BY <1>5, <2>4, <2>6, <2>7, <1>t DEF OthersKeep, Storing
  <2> QED BY <2>2, <2>3, <2>8, <2>9, <1>i DEF OwnerInv, Storing
<1>6. ASSUME NEW t \in Task, OthersKeep(t), Default(t)
      PROVE  OwnerInv'
  <2>1. CASE map # NoRef
    <3>1. /\ UNCHANGED <<map, heap, db, acked>> /\ pc[t] = "default"
          /\ ref'[t] \in {NoRef, map} /\ pc'[t] \notin {"write", "store", "guid"}
      BY <1>6, <2>1, DefaultDoes DEF Took, Returned
    <3>2. \A r \in Ref : r \notin Garbage' => r \notin Garbage
      BY <1>6, <3>1, <1>t DEF Garbage, OthersKeep
    <3> QED BY <1>6, <3>1, <3>2, <1>i DEF OwnerInv, Storing, OthersKeep
  <2>2. CASE map = NoRef
    <3>1. PICK r \in Garbage : /\ r \in Ref /\ map' = r /\ Took(t, r)
                               /\ heap' = [heap EXCEPT ![r] = Fresh]
      BY <1>6, <2>2, DefaultDoes
    <3>2. db' = NoRow /\ db = NoRow /\ acked' = {}
      BY <1>6, <2>2, <1>0, <1>i, DefaultDoes DEF EmptyMap
    <3>3. \A u \in Task : ref'[u] \in {NoRef, r} /\ pc'[u] \notin {"write", "store", "guid"}
      BY <1>6, <2>2, <3>1, <1>t DEF EmptyMap, OthersKeep, Took, Returned, Storing
    <3>4. heap'[r].uuid = NoVal
      BY <3>1 DEF Fresh, TypeOK
    <3> QED BY <3>1, <3>2, <3>3, <3>4 DEF OwnerInv, Storing
  <2> QED BY <2>1, <2>2
<1>7. ASSUME NEW t \in Task, OthersKeep(t), Check(t)
      PROVE  OwnerInv'
  <2> USE CheckDoes
  <2>1. UNCHANGED <<map, heap, db, trouble>> /\ pc[t] = "check" /\ ref[t] \in Ref
    BY <1>7
  <2>2. \A r \in Ref : r \notin Garbage' => r \notin Garbage
    BY <1>7, <1>t DEF Garbage, OthersKeep, Returned
  <2>3. /\ db # NoRow => acked' \subseteq {db.uuid}
        /\ db = NoRow /\ acked' # {} => map # NoRef /\ acked' = {heap[map].uuid}
    <3>1. CASE acked' = acked
      BY <3>1, <1>i
    <3>2. CASE acked' = acked \cup {req[t].uuid} /\ heap[ref[t]].uuid = req[t].uuid
      <4>1. db # NoRow => heap[ref[t]].uuid = db.uuid
        BY <2>1, <1>i, <1>g
      <4>2. db = NoRow => ref[t] = map
        BY <2>1, <1>i, <1>t
      <4> QED BY <2>1, <3>2, <4>1, <4>2, <1>i, <1>t
    <3> QED BY <1>7, <3>1, <3>2
  <2>4. /\ pc'[t] \in {"idle", "write"} /\ ref'[t] \in {NoRef, ref[t]}
        /\ pc'[t] = "write" => /\ ref'[t] = ref[t] /\ req'[t] = req[t]
                               /\ heap[ref[t]].uuid \in {NoVal, req[t].uuid}
    BY <1>7 DEF Returned
  <2>5. \A u \in Task : pc[u] = "store" => u # t /\ pc'[u] = "store" /\ ref'[u] = ref[u]
    BY <1>7, <2>1 DEF OthersKeep
  <2> HIDE CheckDoes
  <2> QED BY <1>7, <2>1, <2>2, <2>3, <2>4, <2>5, <1>i DEF OwnerInv, Storing, OthersKeep
<1>8. ASSUME NEW t \in Task, OthersKeep(t), Write(t)
      PROVE  OwnerInv'
  <2> USE WriteDoes
  <2>1. /\ pc[t] = "write" /\ ref[t] \in Ref /\ req[t].uuid \in Uuid /\ UNCHANGED <<map, db, acked>>
        /\ pc'[t] = "store" /\ ref'[t] = ref[t] /\ req'[t] = req[t]
        /\ \A r \in Ref \ {ref[t]} : heap'[r] = heap[r]
        /\ heap'[ref[t]].uuid = req[t].uuid
    BY <1>8
  <2>2. \A u \in Task : pc[u] = "write" => req[u].uuid = req[t].uuid
    BY <1>8
  <2> HIDE WriteDoes
  <2>3. heap[ref[t]].uuid \in {NoVal, req[t].uuid}
    BY <2>1, <1>i
  <2>4. \A r \in Ref : r \notin Garbage' => r \notin Garbage
    BY <1>8, <2>1 DEF Garbage, OthersKeep
  <2>5. db # NoRow => \A r \in Ref : r \notin Garbage => heap'[r].uuid = db.uuid
    <3>1. db # NoRow => heap[ref[t]].uuid = db.uuid /\ db.uuid # NoVal
      BY <2>1, <1>i, <1>g, RowFacts
    <3> QED BY <2>1, <2>3, <3>1, <1>i
  <2>6. db = NoRow => ref[t] = map
    BY <2>1, <1>i, <1>t
  <2>7. db = NoRow /\ acked # {} => acked = {heap'[map].uuid} /\ map # NoRef
    <3>1. SUFFICES ASSUME db = NoRow, acked # {} PROVE heap'[map].uuid = heap[map].uuid
      BY <1>i
    <3>2. heap[map].uuid \in Uuid
      BY <3>1, <1>i DEF TypeOK
    <3> QED BY <2>1, <2>3, <2>6, <3>1, <3>2, NoValAssumption
  <2>8. \A u \in Task : pc'[u] = "write" => heap'[ref'[u]].uuid \in {NoVal, req'[u].uuid}
    <3> SUFFICES ASSUME NEW u \in Task, pc'[u] = "write"
                 PROVE  heap'[ref'[u]].uuid \in {NoVal, req'[u].uuid}
      OBVIOUS
    <3>1. u # t /\ pc[u] = "write" /\ ref'[u] = ref[u] /\ req'[u] = req[u] /\ ref[u] \in Ref
      BY <1>8, <2>1, <1>t DEF OthersKeep
    <3> QED BY <2>1, <2>2, <3>1, <1>i
  <2>9. \A u \in Task : Storing(u)' => heap'[ref'[u]].uuid = req'[u].uuid
    <3> SUFFICES ASSUME NEW u \in Task, u # t, Storing(u)'
                 PROVE  heap'[ref'[u]].uuid = req'[u].uuid
      BY <2>1
    <3>1. Storing(u) /\ ref'[u] = ref[u] /\ req'[u] = req[u] /\ ref[u] \in Ref
      BY <1>8, <1>t DEF OthersKeep, Storing
    <3>2. heap[ref[u]].uuid = req[u].uuid /\ req[u].uuid # NoVal
      <4>1. req[u] \in Request /\ req[u].op = "register"
        BY <3>1 DEF TypeOK, Storing
      <4>2. req[u].uuid \in Uuid
        BY <4>1 DEF Request
      <4> QED BY <3>1, <4>2, <1>i
    <3> QED BY <2>1, <2>3, <3>1, <3>2
  <2> QED BY <2>1, <2>4, <2>5, <2>6, <2>7, <2>8, <2>9, <1>i, <1>t, <1>8 DEF OwnerInv, OthersKeep
<1>9. ASSUME NEW t \in Task, OthersKeep(t), Store(t)
      PROVE  OwnerInv'
  <2> USE StoreDoes
  <2>1. /\ pc[t] = "store" /\ ref[t] \in Ref /\ req[t].uuid \in Uuid
        /\ UNCHANGED <<map, heap, trouble>>
    BY <1>9
  <2>2. heap[ref[t]].uuid = req[t].uuid
    BY <2>1, <1>i DEF Storing
  <2>3. db' # NoRow /\ db'.uuid = req[t].uuid
    <3>1. db # NoRow => db.uuid = req[t].uuid
      BY <2>1, <2>2, <1>i, <1>g
    <3>2. db' = db \/ db'.uuid \in {req[t].uuid, db.uuid}
      BY <1>9
    <3>3. db = NoRow => db'.uuid = req[t].uuid
      BY <1>9
    <3> QED BY <2>1, <3>1, <3>2, <3>3, RowFacts
  <2>4. \A r \in Ref : r \notin Garbage' => r \notin Garbage
    BY <1>9 DEF Garbage, OthersKeep, Returned
  <2>5. \A r \in Ref : r \notin Garbage => heap[r].uuid = req[t].uuid
    <3>1. CASE db = NoRow
      <4>1. \A r \in Ref : r \notin Garbage => r = ref[t]
        BY <2>1, <3>1, <1>i, <1>t DEF Garbage
      <4> QED BY <2>2, <4>1
    <3>2. CASE db # NoRow
      BY <2>1, <2>2, <3>2, <1>i, <1>g
    <3> QED BY <3>1, <3>2
  <2>6. acked' \subseteq {req[t].uuid}
    <3>1. acked' \subseteq acked \cup {req[t].uuid}
      BY <1>9
    <3>2. acked \subseteq {req[t].uuid}
      BY <2>1, <2>2, <2>5, <1>i, <1>g, <1>t
    <3> QED BY <3>1, <3>2
  <2>7. /\ pc'[t] \in {"idle", "guid"}
        /\ pc'[t] = "guid" => ref'[t] = ref[t] /\ req'[t] = req[t]
    BY <1>9 DEF Returned
  <2> HIDE StoreDoes
  <2> QED BY <1>9, <2>1, <2>2, <2>3, <2>4, <2>5, <2>6, <2>7, <1>i DEF OwnerInv, Storing, OthersKeep
<1>10. ASSUME NEW t \in Task, StoreFails(t)
       PROVE  FALSE
  BY <1>10, StoreFailsDoes
<1>11. ASSUME NEW t \in Task, OthersKeep(t), NoteGuid(t)
       PROVE  OwnerInv'
  <2> USE NoteDoes
  <2>1. /\ pc[t] = "guid" /\ ref[t] \in Ref /\ UNCHANGED <<map, db, trouble>> /\ Returned(t)
        /\ acked' = acked \cup {req[t].uuid}
        /\ \A r \in Ref : heap'[r].uuid = heap[r].uuid
    BY <1>11
  <2> HIDE NoteDoes
  <2>2. db # NoRow /\ req[t].uuid = db.uuid
    BY <2>1, <1>i, <1>g DEF GuidHasRow, Storing
  <2>3. \A r \in Ref : r \notin Garbage' => r \notin Garbage
    BY <1>11, <2>1 DEF Garbage, OthersKeep, Returned
  <2>4. \A u \in Task : pc'[u] \in {"write", "store", "guid"} =>
          /\ u # t /\ pc[u] = pc'[u] /\ req'[u] = req[u] /\ ref'[u] = ref[u]
          /\ heap'[ref[u]].uuid = heap[ref[u]].uuid
    BY <1>11, <2>1, <1>t DEF OthersKeep, Returned, Storing
  <2> QED BY <2>1, <2>2, <2>3, <2>4, <1>i DEF OwnerInv, Storing
<1> QED
  BY <1>1, <1>2, <1>3, <1>4, <1>5, <1>6, <1>7, <1>8, <1>9, <1>10, <1>11, StepKinds DEF OwnerInv

\* A peer that was told OK owns its id from then on, across restarts, replaced
\* records and registrations that overlap: only a failed statement, two uuids that
\* claim the id at once, or a crash before the first row can void it.
THEOREM OwnerSafe == Spec => []AckedUuidOwnsId
<1>1. Init => EmptyMap /\ SelectedUuid /\ OwnerInv
  <2> SUFFICES ASSUME Init PROVE EmptyMap /\ SelectedUuid /\ OwnerInv
    OBVIOUS
  <2>1. Garbage = Ref
    BY DEF Init, Garbage
  <2> QED BY <2>1 DEF Init, EmptyMap, SelectedUuid, OwnerInv, Storing
<1>2. TypeOK /\ OwnerInv => AckedUuidOwnsId
  <2> SUFFICES ASSUME TypeOK, OwnerInv, trouble \cap {"fault", "contested", "crash"} = {},
                      NEW u \in acked
               PROVE  /\ acked = {u}
                      /\ \/ db.uuid = u
                         \/ db = NoRow /\ \E t \in Task : pc[t] = "store" /\ req[t].uuid = u
    BY DEF AckedUuidOwnsId
  <2>1. u # NoVal
    BY DEF TypeOK
  <2>2. CASE db # NoRow
    BY <2>2 DEF OwnerInv
  <2>3. CASE db = NoRow
    <3>1. map # NoRef /\ acked = {heap[map].uuid} /\ heap[map].uuid = u
      BY <2>3 DEF OwnerInv
    <3>2. PICK t \in Task : pc[t] = "store" /\ ref[t] = map
      BY <2>1, <2>3, <3>1 DEF OwnerInv
    <3> QED BY <2>3, <3>1, <3>2 DEF OwnerInv, Storing
  <2> QED BY <2>2, <2>3
<1> QED BY <1>1, <1>2, EmptyMapHolds, SelectedUuidHolds, OwnerHolds, RegistryCorrect, PTL DEF Spec


-----------------------------------------------------------------------------
\* The part of a record, or of a registration, that the row keeps.
OnRow(p) == [uuid |-> p.uuid, pk |-> p.pk, ip |-> p.ip]

\* What makes MemoryIsStored inductive. There is one record and one task at most
\* is storing it; until it does, the record is ahead of the row by its request,
\* and it knows whether there is a row and that the row is of its uuid.
StoreInv ==
  map # NoRef /\ trouble \cap {"fault", "contested", "overlapped"} = {} =>
    /\ \A t \in Task : ref[t] \in {NoRef, map}
    /\ \A t \in Task : pc[t] = "write" => heap[map].uuid \in {NoVal, req[t].uuid}
    /\ \A t, u \in Task : Storing(t) /\ Storing(u) => t = u
    /\ \A t \in Task : pc[t] = "store" =>
         /\ OnRow(heap[map]) = OnRow(req[t])
         /\ heap[map].stored = (db # NoRow)
         /\ insert[t] = (db = NoRow)
         /\ db # NoRow => db.uuid = req[t].uuid
    /\ \A t \in Task : pc[t] = "guid" => OnRow(heap[map]) = db
    /\ (\A t \in Task : ~Storing(t)) => OnRow(heap[map]) = db /\ heap[map].stored = (db # NoRow)

LEMMA OnRowFacts ==
  /\ OnRow(Fresh) = NoRow /\ ~Fresh.stored
  /\ \A r \in Row : OnRow(Loaded(r)) = r /\ Loaded(r).stored = TRUE
<1>1. OnRow(Fresh) = NoRow /\ ~Fresh.stored
  BY DEF OnRow, Fresh, NoRow
<1>2. ASSUME NEW r \in Row
      PROVE  OnRow(Loaded(r)) = r /\ Loaded(r).stored = TRUE
  <2>1. /\ Loaded(r).uuid = r.uuid /\ Loaded(r).pk = r.pk /\ Loaded(r).ip = r.ip
        /\ Loaded(r).stored = TRUE
    BY DEF Loaded, Fresh
  <2>2. r = [uuid |-> r.uuid, pk |-> r.pk, ip |-> r.ip]
    BY DEF Row
  <2> QED BY <2>1, <2>2 DEF OnRow
<1> QED BY <1>1, <1>2

LEMMA StoreHolds ==
  ASSUME TypeOK, GuidHasRow, EmptyMap, StoreInv, [Next]_vars
  PROVE  StoreInv'
<1> SUFFICES ASSUME map' # NoRef, trouble' \cap {"fault", "contested", "overlapped"} = {}
             PROVE
    /\ \A t \in Task : ref'[t] \in {NoRef, map'}
    /\ \A t \in Task : pc'[t] = "write" => heap'[map'].uuid \in {NoVal, req'[t].uuid}
    /\ \A t, u \in Task : Storing(t)' /\ Storing(u)' => t = u
    /\ \A t \in Task : pc'[t] = "store" =>
         /\ OnRow(heap'[map']) = OnRow(req'[t])
         /\ heap'[map'].stored = (db' # NoRow)
         /\ insert'[t] = (db' = NoRow)
         /\ db' # NoRow => db'.uuid = req'[t].uuid
    /\ \A t \in Task : pc'[t] = "guid" => OnRow(heap'[map']) = db'
    /\ (\A t \in Task : ~Storing(t)') => OnRow(heap'[map']) = db' /\ heap'[map'].stored = (db' # NoRow)
  BY DEF StoreInv
<1>0. trouble \subseteq trouble'
  BY StepKinds, RestartDoes, TouchDoes, AdoptDoes, DefaultDoes, CheckDoes, WriteDoes, StoreDoes,
     StoreFailsDoes, NoteDoes DEF vars, history, Looks
<1>i. map # NoRef =>
    /\ \A t \in Task : ref[t] \in {NoRef, map}
    /\ \A t \in Task : pc[t] = "write" => heap[map].uuid \in {NoVal, req[t].uuid}
    /\ \A t, u \in Task : Storing(t) /\ Storing(u) => t = u
    /\ \A t \in Task : pc[t] = "store" =>
         /\ OnRow(heap[map]) = OnRow(req[t])
         /\ heap[map].stored = (db # NoRow)
         /\ insert[t] = (db = NoRow)
         /\ db # NoRow => db.uuid = req[t].uuid
    /\ \A t \in Task : pc[t] = "guid" => OnRow(heap[map]) = db
    /\ (\A t \in Task : ~Storing(t)) => OnRow(heap[map]) = db /\ heap[map].stored = (db # NoRow)
  BY <1>0 DEF StoreInv
<1>t. /\ map \in Ref \cup {NoRef} /\ NoRef \notin Ref
      /\ \A t \in Task : ref[t] \in Ref \cup {NoRef}
      /\ \A t \in Task : Storing(t) \/ pc[t] \in {"check", "write"} => ref[t] \in Ref
      /\ \A t \in Task : Storing(t) \/ pc[t] \in {"check", "write"} => map # NoRef
  BY DEF TypeOK, Storing, EmptyMap
<1>1. CASE UNCHANGED vars
  BY <1>1, <1>i DEF vars, Storing
<1>2. ASSUME NEW ip \in Ip, NEW port \in BOOLEAN, Touch(ip, port)
      PROVE  StoreInv'
  <2>1. map \in Ref
    BY <1>2, <1>t DEF Touch
  <2>2. OnRow(heap'[map]) = OnRow(heap[map]) /\ heap'[map].stored = heap[map].stored
    BY <1>2, <2>1, TouchDoes DEF OnRow
  <2> QED BY <1>2, <1>i, <1>t, <2>1, <2>2, TouchDoes DEF Storing, StoreInv
<1>3. CASE Restart
  BY <1>3, RestartDoes
<1>4. ASSUME NEW t \in Task, OthersKeep(t), Looks(t)
      PROVE  StoreInv'
  <2>1. /\ UNCHANGED <<map, heap, db, acked>>
        /\ ref'[t] \in {NoRef, ref[t], map} /\ ~Storing(t)' /\ pc'[t] # "write" /\ ~Storing(t)
    BY <1>4 DEF Looks, Returned, Took, Storing
  <2> QED BY <1>4, <2>1, <1>i DEF StoreInv, Storing, OthersKeep
<1>5. ASSUME NEW t \in Task, OthersKeep(t), Adopt(t)
      PROVE  StoreInv'
  <2>1. PICK r \in Garbage : /\ r \in Ref /\ map' = r /\ Took(t, r)
                             /\ heap' = [heap EXCEPT ![r] = Loaded(row[t])]
    BY <1>5, AdoptDoes
  <2>2. map = NoRef /\ pc[t] = "adopt" /\ row[t] \in Row /\ db' = db
    BY <1>5, AdoptDoes
  <2>3. row[t] = db
    BY <2>2 DEF EmptyMap
  <2>4. OnRow(heap'[r]) = db /\ heap'[r].stored = TRUE /\ db # NoRow
    BY <2>1, <2>2, <2>3, OnRowFacts, RowFacts DEF TypeOK
  <2>5. \A u \in Task : ref'[u] \in {NoRef, r} /\ ~Storing(u)' /\ pc'[u] # "write"
    BY <1>5, <2>1, <2>2, <1>t DEF EmptyMap, OthersKeep, Took, Returned, Storing
  <2> QED BY <2>1, <2>2, <2>4, <2>5 DEF StoreInv, Storing
<1>6. ASSUME NEW t \in Task, OthersKeep(t), Default(t)
      PROVE  StoreInv'
  <2>1. CASE map # NoRef
    <3>1. /\ UNCHANGED <<map, heap, db, acked>>
          /\ ref'[t] \in {NoRef, map} /\ ~Storing(t)' /\ pc'[t] # "write" /\ ~Storing(t)
      BY <1>6, <2>1, DefaultDoes DEF Took, Returned, Storing
    <3> QED BY <1>6, <3>1, <1>i DEF StoreInv, Storing, OthersKeep
  <2>2. CASE map = NoRef
    <3>1. PICK r \in Garbage : /\ r \in Ref /\ map' = r /\ Took(t, r)
                               /\ heap' = [heap EXCEPT ![r] = Fresh]
      BY <1>6, <2>2, DefaultDoes
    <3>2. db' = NoRow /\ db = NoRow
      BY <1>6, <2>2, <1>0, DefaultDoes DEF EmptyMap
    <3>3. OnRow(heap'[r]) = NoRow /\ heap'[r].stored = FALSE
      BY <3>1, OnRowFacts DEF TypeOK, Fresh
    <3>4. \A u \in Task : ref'[u] \in {NoRef, r} /\ ~Storing(u)' /\ pc'[u] # "write"
      BY <1>6, <2>2, <3>1, <1>t DEF EmptyMap, OthersKeep, Took, Returned, Storing
    <3> QED BY <3>1, <3>2, <3>3, <3>4 DEF StoreInv, Storing
  <2> QED BY <2>1, <2>2
<1>7. ASSUME NEW t \in Task, OthersKeep(t), Check(t)
      PROVE  StoreInv'
  <2>1. /\ UNCHANGED <<map, heap, db, trouble>> /\ pc[t] = "check" /\ ref[t] \in Ref
        /\ pc'[t] \in {"idle", "write"} /\ ref'[t] \in {NoRef, ref[t]}
        /\ pc'[t] = "write" => /\ ref'[t] = ref[t] /\ req'[t] = req[t]
                               /\ heap[ref[t]].uuid \in {NoVal, req[t].uuid}
    BY <1>7, CheckDoes DEF Returned
  <2>2. ref[t] = map
    BY <2>1, <1>i, <1>t
  <2> QED BY <1>7, <2>1, <2>2, <1>i DEF StoreInv, Storing, OthersKeep
<1>8. ASSUME NEW t \in Task, OthersKeep(t), Write(t)
      PROVE  StoreInv'
  <2> USE WriteDoes
  <2>1. /\ pc[t] = "write" /\ ref[t] \in Ref /\ req[t].uuid \in Uuid /\ UNCHANGED <<map, db>>
        /\ pc'[t] = "store" /\ ref'[t] = ref[t] /\ req'[t] = req[t]
        /\ insert'[t] = ~heap[ref[t]].stored
    BY <1>8
  <2>2. /\ \A u \in Task : pc[u] = "write" => req[u].uuid = req[t].uuid
        /\ ref[t] = map /\ \A u \in Task : ~Storing(u)
    BY <1>8
  <2>3. /\ heap'[map].uuid = req[t].uuid /\ OnRow(heap'[map]) = OnRow(req[t])
        /\ heap'[map].stored = heap[map].stored
    BY <1>8, <2>2 DEF OnRow
  <2> HIDE WriteDoes
  <2>4. OnRow(heap[map]) = db /\ heap[map].stored = (db # NoRow)
    BY <2>1, <2>2, <1>i
  <2>5. db # NoRow => db.uuid = req[t].uuid
    <3>1. db.uuid = heap[map].uuid
      BY <2>4 DEF OnRow
    <3> QED BY <3>1, <2>1, <2>2, <1>i, RowFacts
  <2>6. \A u \in Task : Storing(u)' => u = t
    BY <1>8, <2>2 DEF OthersKeep, Storing
  <2>7. \A u \in Task : pc'[u] = "write" => req'[u].uuid = req[t].uuid
    BY <1>8, <2>1, <2>2 DEF OthersKeep
  <2>8. insert'[t] = (db = NoRow)
    BY <2>1, <2>2, <2>4
  <2>9. \A u \in Task : ref'[u] \in {NoRef, map}
    BY <1>8, <2>1, <2>2, <1>i, <1>t DEF OthersKeep
  <2> QED BY <2>1, <2>2, <2>3, <2>4, <2>5, <2>6, <2>7, <2>8, <2>9 DEF StoreInv, Storing
<1>9. ASSUME NEW t \in Task, OthersKeep(t), Store(t)
      PROVE  StoreInv'
  <2> USE StoreDoes
  <2>1. /\ pc[t] = "store" /\ ref[t] \in Ref /\ UNCHANGED <<map, heap, trouble>>
        /\ ref'[t] \in {NoRef, ref[t]}
    BY <1>9 DEF Returned
  <2>2. /\ map # NoRef /\ OnRow(heap[map]) = OnRow(req[t]) /\ heap[map].stored = (db # NoRow)
        /\ insert[t] = (db = NoRow)
        /\ db # NoRow => db.uuid = req[t].uuid
    BY <2>1, <1>i, <1>t DEF Storing
  <2>3. \A u \in Task : u # t => ~Storing(u) /\ ~Storing(u)'
    BY <1>9, <2>1, <2>2, <1>i DEF OthersKeep, Storing
  <2>4. db' = OnRow(req[t]) /\ db' # NoRow
    <3>1. db' = OnRow(req[t])
      <4>1. CASE db = NoRow
        BY <1>9, <2>2, <4>1 DEF OnRow
      <4>2. CASE db # NoRow
        <5>1. db' = [uuid |-> db.uuid, pk |-> req[t].pk, ip |-> req[t].ip]
          BY <1>9, <2>2, <4>2
        <5> QED BY <2>2, <4>2, <5>1 DEF OnRow
      <4> QED BY <4>1, <4>2
    <3>2. req[t].uuid \in Uuid
      BY <1>9
    <3> QED BY <3>1, <3>2, RowFacts DEF OnRow
  <2>5. pc'[t] = "guid" \/ (pc'[t] = "idle" /\ heap[map].stored = TRUE)
    BY <1>9, <2>2 DEF Returned
  <2> HIDE StoreDoes
  <2>6. \A u \in Task : pc'[u] = "write" => heap[map].uuid \in {NoVal, req'[u].uuid}
    BY <1>9, <2>2, <2>5, <1>i DEF OthersKeep
  <2> QED BY <1>9, <2>1, <2>2, <2>3, <2>4, <2>5, <2>6, <1>i DEF StoreInv, Storing, OthersKeep
<1>10. ASSUME NEW t \in Task, StoreFails(t)
       PROVE  FALSE
  BY <1>10, StoreFailsDoes
<1>11. ASSUME NEW t \in Task, OthersKeep(t), NoteGuid(t)
       PROVE  StoreInv'
  <2>1. /\ pc[t] = "guid" /\ ref[t] \in Ref /\ UNCHANGED <<map, db, trouble>> /\ Returned(t)
        /\ \A r \in Ref : OnRow(heap'[r]) = OnRow(heap[r]) /\ heap'[r].uuid = heap[r].uuid
        /\ heap'[ref[t]].stored
    BY <1>11, NoteDoes DEF OnRow
  <2>2. map = ref[t] /\ OnRow(heap[map]) = db /\ db # NoRow
    BY <2>1, <1>i, <1>t DEF Storing, GuidHasRow
  <2>3. heap'[map].stored = TRUE
    BY <1>11, <2>1, <2>2 DEF NoteGuid, TypeOK, Peer
  <2>4. \A u \in Task : ~Storing(u)'
    BY <1>11, <2>1, <2>2, <1>i, <1>t DEF OthersKeep, Storing, Returned
  <2>5. \A u \in Task : ref'[u] \in {NoRef, map}
    BY <1>11, <2>1, <2>2, <1>i, <1>t DEF OthersKeep, Returned
  <2>6. \A u \in Task : pc'[u] = "write" => heap'[map].uuid \in {NoVal, req'[u].uuid}
    BY <1>11, <2>1, <2>2, <1>i, <1>t DEF OthersKeep, Returned
  <2> QED BY <2>1, <2>2, <2>3, <2>4, <2>5, <2>6 DEF StoreInv, Storing
<1> QED
  BY <1>1, <1>2, <1>3, <1>4, <1>5, <1>6, <1>7, <1>8, <1>9, <1>10, <1>11, StepKinds DEF StoreInv

\* What the server holds of an id is what it would load after a restart, once no
\* registration is being stored: only a failed statement, two uuids at once or
\* overlapping registrations can part them; a crash cannot.
THEOREM MemorySafe == Spec => []MemoryIsStored
<1>1. Init => EmptyMap /\ StoreInv
  BY DEF Init, EmptyMap, StoreInv
<1>2. StoreInv => MemoryIsStored
  BY DEF StoreInv, MemoryIsStored, OnRow
<1> QED BY <1>1, <1>2, EmptyMapHolds, StoreHolds, RegistryCorrect, PTL DEF Spec
=============================================================================
