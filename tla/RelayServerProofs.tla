------------------------- MODULE RelayServerProofs --------------------------
(***************************************************************************)
(* Theorems about RelayServer for any number of connections, tickets and   *)
(* uuids.                                                                  *)
(***************************************************************************)
EXTENDS RelayServer, TLAPS

USE DEF ticketVars, redeemVars, pairVars, Goto

\* Every task is at a place of make_pair_, holds a request once it left the
\* first, and PEERS and the relayed pairs hold connections.
THEOREM TypeCorrect == Spec => []TypeOK
<1>1. Init => TypeOK
  BY DEF Init, TypeOK, RT!Init, RT!TypeOK, Place
<1>2. TypeOK /\ [Next]_vars => TypeOK'
  <2> SUFFICES ASSUME TypeOK, [Next]_vars
               PROVE  TypeOK'
    OBVIOUS
  <2> USE DEF TypeOK, Place
  <2>1. CASE StoreMoves
    <3>1. ASSUME NEW k \in Ticket, NEW r \in RelayId, RT!Issue(k, r)
          PROVE  RT!TypeOK'
      BY <3>1 DEF RT!Issue, RT!TypeOK, RT!Grant
    <3>2. ASSUME RT!Lapse
          PROVE  RT!TypeOK'
      BY <3>2 DEF RT!Lapse, RT!TypeOK
    <3> QED BY <2>1, <3>1, <3>2 DEF StoreMoves
  <2> USE DEF RT!TypeOK
  <2>2. ASSUME NEW c \in Conn, NEW q \in Request, ReceiveRequest(c, q)
        PROVE  TypeOK'
    BY <2>2 DEF ReceiveRequest
  <2>3. ASSUME NEW c \in Conn, ConnectFails(c)
        PROVE  TypeOK'
    BY <2>3 DEF ConnectFails
  <2>4. ASSUME NEW c \in Conn, SendRedeem(c)
        PROVE  TypeOK'
    BY <2>4 DEF SendRedeem
  <2>5. ASSUME NEW c \in Conn, StoreRedeems(c)
        PROVE  TypeOK'
    BY <2>5 DEF StoreRedeems, RT!Admit, RT!Grant
  <2>6. ASSUME NEW c \in Conn, StoreRefuses(c)
        PROVE  TypeOK'
    BY <2>6 DEF StoreRefuses
  <2>7. ASSUME NEW c \in Conn, AnswerArrives(c)
        PROVE  TypeOK'
    BY <2>7 DEF AnswerArrives
  <2>8. ASSUME NEW c \in Conn, TimesOut(c)
        PROVE  TypeOK'
    BY <2>8 DEF TimesOut
  <2>9. ASSUME NEW c \in Conn, KeyMismatch(c)
        PROVE  TypeOK'
    BY <2>9 DEF KeyMismatch
  <2>10. ASSUME NEW c \in Conn, Lookup(c)
         PROVE  TypeOK'
    <3>1. req[c] \in Request /\ req[c].uuid \in RelayId
      BY <2>10 DEF Lookup, Request
    <3>2. relays' \subseteq [waiter : Conn, comer : Conn] /\ \A r \in relays' : req[r.comer] \in Request
      BY <2>10, <3>1 DEF Lookup
    <3>3. waiting' \in [RelayId -> Conn \cup {NoConn}] /\ raced' \subseteq RelayId
      BY <2>10, <3>1 DEF Lookup
    <3>4. pc' \in [Conn -> Place] /\ \A d \in Conn : pc'[d] # "new" => pc[d] # "new"
      BY <2>10 DEF Lookup
    <3> QED BY <2>10, <3>2, <3>3, <3>4 DEF Lookup
  <2>11. ASSUME NEW c \in Conn, Park(c)
         PROVE  TypeOK'
    BY <2>11 DEF Park, Request
  <2>12. ASSUME NEW c \in Conn, WakeUp(c)
         PROVE  TypeOK'
    BY <2>12 DEF WakeUp, Request
  <2>13. ASSUME NEW r \in relays, RelayEnds(r)
         PROVE  TypeOK'
    <3>1. r.comer \in Conn
      OBVIOUS
    <3> QED BY <2>13, <3>1 DEF RelayEnds
  <2>14. CASE Restart
    BY <2>14 DEF Restart
  <2>15. CASE UNCHANGED vars
    BY <2>15 DEF vars
  <2> QED
    BY <2>1, <2>2, <2>3, <2>4, <2>5, <2>6, <2>7, <2>8, <2>9, <2>10, <2>11, <2>12,
       <2>13, <2>14, <2>15 DEF Next, Redemption, Pairing
<1> QED BY <1>1, <1>2, PTL DEF Spec

-----------------------------------------------------------------------------
\* A connection on whose behalf the store has accepted a ticket.
Accepted(c) == c \in passed \/ net[c] = "ok"

GrantOf(c) == [ticket |-> req[c].ticket, relay |-> req[c].uuid]

\* The store never gives an admitted ticket back, and what it accepted for one
\* connection it accepted for no other.
AdmissionInv ==
  /\ admitted \subseteq issued
  /\ \A g \in admitted : g.ticket \notin live
  /\ \A c \in Conn : pc[c] = "new" => net[c] = "none" /\ c \notin passed
  /\ \A c \in Conn : Accepted(c) => GrantOf(c) \in admitted
  /\ \A c, d \in Conn :
       Accepted(c) /\ Accepted(d) /\ req[c].ticket = req[d].ticket => c = d

\* The places of the relay's tasks that touch neither the store nor a request
\* on the wire keep the invariant.
LEMMA LocalStepKeepsAdmission ==
  ASSUME TypeOK, AdmissionInv,
         UNCHANGED <<ticketVars, net, passed>>,
         req' = req,
         \A c \in Conn : pc'[c] = "new" => pc[c] = "new"
  PROVE  AdmissionInv'
BY DEF AdmissionInv, Accepted, GrantOf

LEMMA AdmissionHolds == Spec => []AdmissionInv
<1>1. Init => AdmissionInv
  BY DEF Init, RT!Init, AdmissionInv, Accepted
<1>2. TypeOK /\ AdmissionInv /\ [Next]_vars => AdmissionInv'
  <2> SUFFICES ASSUME TypeOK, AdmissionInv, [Next]_vars
               PROVE  AdmissionInv'
    OBVIOUS
  <2>0. pc \in [Conn -> Place] /\ net \in [Conn -> {"none", "request", "ok", "no"}]
    BY DEF TypeOK
  <2>1. ASSUME NEW k \in Ticket, NEW r \in RelayId, RT!Issue(k, r),
               UNCHANGED <<pc, req, redeemVars, pairVars>>
        PROVE  AdmissionInv'
    <3>1. \A g \in admitted : g.ticket # k
      BY <2>1 DEF RT!Issue, AdmissionInv
    <3>2. \A g \in admitted' : g.ticket \notin live'
      BY <2>1, <3>1 DEF RT!Issue, AdmissionInv
    <3> QED BY <2>1, <3>2 DEF RT!Issue, AdmissionInv, Accepted, GrantOf
  <2>2. ASSUME RT!Lapse, UNCHANGED <<pc, req, redeemVars, pairVars>>
        PROVE  AdmissionInv'
    BY <2>2 DEF RT!Lapse, AdmissionInv, Accepted, GrantOf
  <2>3. ASSUME NEW c \in Conn, NEW q \in Request, ReceiveRequest(c, q)
        PROVE  AdmissionInv'
    <3>1. ~Accepted(c)
      BY <2>3 DEF ReceiveRequest, AdmissionInv, Accepted
    <3>2. \A d \in Conn : d # c => req'[d] = req[d] /\ pc'[d] = pc[d]
      BY <2>3 DEF ReceiveRequest, TypeOK
    <3>3. pc'[c] # "new"
      BY <2>0, <2>3 DEF ReceiveRequest
    <3>4. UNCHANGED <<issued, live, admitted, net, passed>>
      BY <2>3 DEF ReceiveRequest
    <3> QED BY <3>1, <3>2, <3>3, <3>4 DEF AdmissionInv, Accepted, GrantOf
  <2>4. ASSUME NEW c \in Conn, ConnectFails(c)
        PROVE  AdmissionInv'
    BY <2>0, <2>4, LocalStepKeepsAdmission DEF ConnectFails
  <2>5. ASSUME NEW c \in Conn, SendRedeem(c)
        PROVE  AdmissionInv'
    BY <2>0, <2>5 DEF SendRedeem, AdmissionInv, Accepted, GrantOf
  <2>6. ASSUME NEW c \in Conn, StoreRedeems(c)
        PROVE  AdmissionInv'
    <3> DEFINE k == req[c].ticket
    <3>1. /\ k \in live /\ GrantOf(c) \in issued /\ live' = live \ {k}
          /\ admitted' = admitted \cup {GrantOf(c)}
          /\ UNCHANGED <<issued, pc, req, passed>>
      BY <2>6 DEF StoreRedeems, RT!Admit, GrantOf
    <3>2. net[c] = "request" /\ net' = [net EXCEPT ![c] = "ok"]
      BY <2>6 DEF StoreRedeems
    <3>3. \A d \in Conn : Accepted(d) => req[d].ticket # k
      <4>1. \A d \in Conn : GrantOf(d).ticket = req[d].ticket
        BY DEF GrantOf
      <4> QED BY <3>1, <4>1 DEF AdmissionInv
    <3>4. \A d \in Conn : Accepted(d)' <=> Accepted(d) \/ d = c
      BY <2>0, <3>1, <3>2 DEF Accepted
    <3>5. \A d \in Conn : GrantOf(d)' = GrantOf(d)
      BY <3>1 DEF GrantOf
    <3>6. \A g \in admitted' : g.ticket \notin live'
      BY <3>1 DEF AdmissionInv, GrantOf
    <3>7. \A d \in Conn : pc'[d] = "new" => net'[d] = "none" /\ d \notin passed'
      BY <2>0, <3>1, <3>2 DEF AdmissionInv
    <3>8. \A d \in Conn : Accepted(d)' => GrantOf(d)' \in admitted'
      BY <3>1, <3>4, <3>5 DEF AdmissionInv
    <3>9. \A d, e \in Conn :
            Accepted(d)' /\ Accepted(e)' /\ req'[d].ticket = req'[e].ticket => d = e
      BY <3>1, <3>3, <3>4 DEF AdmissionInv
    <3> QED BY <3>1, <3>6, <3>7, <3>8, <3>9 DEF AdmissionInv
  <2>7. ASSUME NEW c \in Conn, StoreRefuses(c)
        PROVE  AdmissionInv'
    BY <2>0, <2>7 DEF StoreRefuses, AdmissionInv, Accepted, GrantOf
  <2>8. ASSUME NEW c \in Conn, AnswerArrives(c)
        PROVE  AdmissionInv'
    <3>1. pc'[c] # "new" /\ \A d \in Conn : d # c => pc'[d] = pc[d]
      BY <2>0, <2>8 DEF AnswerArrives
    <3>2. \A d \in Conn : Accepted(d)' => Accepted(d)
      BY <2>0, <2>8 DEF AnswerArrives, Accepted
    <3>3. UNCHANGED <<issued, live, admitted, req>>
      BY <2>8 DEF AnswerArrives
    <3>4. \A d \in Conn : pc'[d] = "new" => net'[d] = "none" /\ d \notin passed'
      BY <2>0, <2>8, <3>1 DEF AnswerArrives, AdmissionInv
    <3> QED BY <3>2, <3>3, <3>4 DEF AdmissionInv, GrantOf
  <2>9. ASSUME NEW c \in Conn, TimesOut(c)
        PROVE  AdmissionInv'
    BY <2>0, <2>9, LocalStepKeepsAdmission DEF TimesOut
  <2>10. ASSUME NEW c \in Conn, Pairing(c)
         PROVE  AdmissionInv'
    BY <2>0, <2>10, LocalStepKeepsAdmission DEF Pairing, KeyMismatch, Lookup, Park, WakeUp
  <2>11. ASSUME NEW r \in relays, RelayEnds(r)
         PROVE  AdmissionInv'
    BY <2>0, <2>11, LocalStepKeepsAdmission DEF RelayEnds, TypeOK
  <2>12. CASE Restart
    BY <2>0, <2>12, LocalStepKeepsAdmission DEF Restart
  <2>13. CASE UNCHANGED vars
    BY <2>13, LocalStepKeepsAdmission DEF vars
  <2> QED
    BY <2>1, <2>2, <2>3, <2>4, <2>5, <2>6, <2>7, <2>8, <2>9, <2>10, <2>11, <2>12,
       <2>13 DEF Next, StoreMoves, Redemption
<1> QED BY <1>1, <1>2, TypeCorrect, PTL DEF Spec

\* A ticket admits one stream to the relay, however its redemptions are retried,
\* late or lost and however often the relay restarts (ticket.rs:73-101,
\* store.rs:230-237).
THEOREM OneStream == Spec => []OneStreamPerTicket
<1>1. TypeOK /\ AdmissionInv => OneStreamPerTicket
  BY DEF TypeOK, AdmissionInv, Accepted, OneStreamPerTicket
<1> QED BY <1>1, TypeCorrect, AdmissionHolds, PTL

\* To the relay, with its retries, late answers and restarts, the store stays what
\* AccountStore implements: every step is one of RelayTickets, or none
\* (ticket.rs:73-101).
THEOREM RelayUsesTickets == Spec => RT!Spec
<1>1. Init => RT!Init
  BY DEF Init
<1>2. TypeOK /\ AdmissionInv /\ [Next]_vars => [RT!Next]_(RT!tickets)
  <2> SUFFICES ASSUME TypeOK, AdmissionInv, [Next]_vars
               PROVE  RT!Next \/ UNCHANGED RT!tickets
    OBVIOUS
  <2>1. CASE StoreMoves
    BY <2>1 DEF StoreMoves, RT!Next
  <2>2. ASSUME NEW c \in Conn, StoreRedeems(c)
        PROVE  RT!Next
    <3>1. req[c] \in Request
      BY <2>2 DEF StoreRedeems, TypeOK, AdmissionInv
    <3> QED BY <2>2, <3>1 DEF StoreRedeems, RT!Next, Request
  <2> QED
    BY <2>1, <2>2
    DEF Next, vars, Redemption, Pairing, RT!tickets, ReceiveRequest, ConnectFails, SendRedeem,
        StoreRefuses, AnswerArrives, TimesOut, KeyMismatch, Lookup, Park, WakeUp, RelayEnds, Restart
<1> QED BY <1>1, <1>2, TypeCorrect, AdmissionHolds, PTL DEF Spec, RT!Spec

-----------------------------------------------------------------------------
\* The places after the ticket was accepted.
Past == {"granted", "park", "sleep", "relay"}

USE DEF Past

\* Who owns a stream: PEERS, one relayed pair, or the task itself.
PairInv ==
  /\ \A c \in Conn : pc[c] # "over" => (c \in passed <=> pc[c] \in Past)
  /\ \A c \in Conn, r \in relays : c \in Ends(r) => pc[c] \notin {"granted", "park"}
  /\ \A u \in RelayId : waiting[u] # NoConn =>
       /\ req[waiting[u]].uuid = u
       /\ pc[waiting[u]] = "sleep"
       /\ \A r \in relays : waiting[u] \notin Ends(r)
  /\ \A r \in relays :
       /\ Ends(r) \subseteq passed
       /\ r.waiter # r.comer
       /\ req[r.waiter].uuid = req[r.comer].uuid
  /\ \A r1, r2 \in relays : r1 # r2 => Ends(r1) \cap Ends(r2) = {}

\* Steps that leave PEERS and the pairs alone, and move one task that is no end
\* of a pair and does not wait in PEERS, keep the invariant.
LEMMA OwnStepKeepsPairs ==
  ASSUME TypeOK, PairInv, NEW c \in Conn,
         UNCHANGED <<waiting, relays>>,
         pc[c] \notin {"sleep", "relay", "over"},
         \A d \in Conn : d # c => /\ pc'[d] = pc[d] /\ req'[d] = req[d]
                                /\ (d \in passed' <=> d \in passed),
         pc'[c] \in {"attempt1", "attempt2", "asked", "over", "granted", "park"},
         pc'[c] # "over" => (c \in passed' <=> pc'[c] \in {"granted", "park"})
  PROVE  PairInv'
<1>1. \A r \in relays : c \notin Ends(r)
  <2> SUFFICES ASSUME NEW r \in relays, c \in Ends(r) PROVE FALSE
    OBVIOUS
  <2>1. c \in passed /\ pc[c] \notin {"granted", "park"}
    BY DEF PairInv
  <2> QED BY <2>1 DEF PairInv
<1>2. \A u \in RelayId : waiting[u] # c
  BY NoConnAssumption DEF PairInv
<1>3. \A r \in relays : r.waiter \in Conn /\ r.comer \in Conn
  BY DEF TypeOK
<1>4. \A u \in RelayId : waiting[u] \in Conn \cup {NoConn}
  BY DEF TypeOK
<1>5. \A d \in Conn : pc'[d] # "over" => (d \in passed' <=> pc'[d] \in Past)
  BY DEF PairInv
<1>6. \A d \in Conn, r \in relays' : d \in Ends(r) => pc'[d] \notin {"granted", "park"}
  BY <1>1 DEF PairInv
<1>7. \A u \in RelayId : waiting'[u] # NoConn =>
        /\ req'[waiting'[u]].uuid = u
        /\ pc'[waiting'[u]] = "sleep"
        /\ \A r \in relays' : waiting'[u] \notin Ends(r)
  BY <1>2, <1>4 DEF PairInv
<1>8. \A r \in relays' :
        /\ Ends(r) \subseteq passed'
        /\ r.waiter # r.comer
        /\ req'[r.waiter].uuid = req'[r.comer].uuid
  BY <1>1, <1>3 DEF PairInv, Ends
<1>9. \A r1, r2 \in relays' : r1 # r2 => Ends(r1) \cap Ends(r2) = {}
  BY DEF PairInv
<1> QED BY <1>5, <1>6, <1>7, <1>8, <1>9 DEF PairInv, Ends

LEMMA PairsHold == Spec => []PairInv
<1>1. Init => PairInv
  BY DEF Init, PairInv
<1>2. TypeOK /\ PairInv /\ [Next]_vars => PairInv'
  <2> SUFFICES ASSUME TypeOK, PairInv, [Next]_vars
               PROVE  PairInv'
    OBVIOUS
  <2>0. /\ pc \in [Conn -> Place]
        /\ waiting \in [RelayId -> Conn \cup {NoConn}]
        /\ \A r \in relays : r.waiter \in Conn /\ r.comer \in Conn
    BY DEF TypeOK
  <2>1. CASE UNCHANGED <<pc, req, passed, pairVars>>
    BY <2>1 DEF PairInv, Ends
  <2>2. ASSUME NEW c \in Conn, NEW q \in Request, ReceiveRequest(c, q)
        PROVE  PairInv'
    <3>1. c \notin passed /\ c \notin passed'
      BY <2>2 DEF ReceiveRequest, PairInv
    <3> QED BY <2>0, <2>2, <3>1, OwnStepKeepsPairs DEF ReceiveRequest, TypeOK
  <2>3. ASSUME NEW c \in Conn, ConnectFails(c)
        PROVE  PairInv'
    <3>1. c \notin passed /\ c \notin passed'
      BY <2>3 DEF ConnectFails, PairInv
    <3> QED BY <2>0, <2>3, <3>1, OwnStepKeepsPairs DEF ConnectFails
  <2>4. ASSUME NEW c \in Conn, SendRedeem(c)
        PROVE  PairInv'
    <3>1. c \notin passed /\ c \notin passed'
      BY <2>4 DEF SendRedeem, PairInv
    <3> QED BY <2>0, <2>4, <3>1, OwnStepKeepsPairs DEF SendRedeem
  <2>5. ASSUME NEW c \in Conn, StoreRedeems(c) \/ StoreRefuses(c)
        PROVE  PairInv'
    BY <2>1, <2>5 DEF StoreRedeems, StoreRefuses
  <2>6. ASSUME NEW c \in Conn, AnswerArrives(c)
        PROVE  PairInv'
    BY <2>0, <2>6, OwnStepKeepsPairs DEF AnswerArrives
  <2>7. ASSUME NEW c \in Conn, TimesOut(c)
        PROVE  PairInv'
    BY <2>0, <2>7, OwnStepKeepsPairs DEF TimesOut
  <2>8. ASSUME NEW c \in Conn, KeyMismatch(c)
        PROVE  PairInv'
    BY <2>0, <2>8, OwnStepKeepsPairs DEF KeyMismatch
  <2>9. ASSUME NEW c \in Conn, Lookup(c)
        PROVE  PairInv'
    <3> DEFINE u == req[c].uuid
               w == waiting[u]
               new == [waiter |-> w, comer |-> c]
    <3>1. pc[c] = "granted" /\ u \in RelayId
      BY <2>9 DEF Lookup, TypeOK, Request
    <3>2. c \in passed
      BY <3>1 DEF PairInv
    <3>3. CASE w = NoConn
      <4>1. pc' = [pc EXCEPT ![c] = "park"] /\ UNCHANGED <<waiting, relays, req, passed>>
        BY <2>9, <3>3 DEF Lookup
      <4> QED BY <2>0, <3>1, <3>2, <4>1, OwnStepKeepsPairs
    <3>4. CASE w # NoConn
      <4>1. /\ waiting' = [waiting EXCEPT ![u] = NoConn]
            /\ relays' = relays \cup {new}
            /\ pc' = [pc EXCEPT ![c] = "relay"]
            /\ UNCHANGED <<req, passed>>
        BY <2>9, <3>4 DEF Lookup
      <4>2. /\ w \in Conn /\ pc[w] = "sleep" /\ w # c /\ w \in passed
            /\ req[w].uuid = u
            /\ \A r \in relays : w \notin Ends(r) /\ c \notin Ends(r)
        BY <2>0, <3>1, <3>4 DEF PairInv
      <4>3. Ends(new) = {w, c} /\ new.waiter = w /\ new.comer = c
        BY DEF Ends
      <4> HIDE DEF w, new
      <4>4. \A d \in Conn : pc'[d] # "over" => (d \in passed' <=> pc'[d] \in Past)
        BY <2>0, <3>2, <4>1 DEF PairInv
      <4>5. \A d \in Conn, r \in relays' : d \in Ends(r) => pc'[d] \notin {"granted", "park"}
        BY <2>0, <4>1, <4>2, <4>3 DEF PairInv
      <4>6. \A v \in RelayId : waiting'[v] # NoConn =>
              /\ req'[waiting'[v]].uuid = v
              /\ pc'[waiting'[v]] = "sleep"
              /\ \A r \in relays' : waiting'[v] \notin Ends(r)
        <5> SUFFICES ASSUME NEW v \in RelayId, waiting'[v] # NoConn
                     PROVE  /\ req'[waiting'[v]].uuid = v
                            /\ pc'[waiting'[v]] = "sleep"
                            /\ \A r \in relays' : waiting'[v] \notin Ends(r)
          OBVIOUS
        <5>1. v # u /\ waiting'[v] = waiting[v]
          BY <2>0, <3>1, <4>1
        <5>2. waiting[v] # c /\ waiting[v] # w
          BY <3>1, <4>2, <5>1 DEF PairInv
        <5>3. waiting[v] \in Conn
          BY <2>0, <5>1
        <5> QED BY <2>0, <4>1, <4>3, <5>1, <5>2, <5>3 DEF PairInv
      <4>7. \A r \in relays' :
              /\ Ends(r) \subseteq passed'
              /\ r.waiter # r.comer
              /\ req'[r.waiter].uuid = req'[r.comer].uuid
        BY <3>2, <4>1, <4>2, <4>3 DEF PairInv
      <4>8. \A r1, r2 \in relays' : r1 # r2 => Ends(r1) \cap Ends(r2) = {}
        BY <4>1, <4>2, <4>3 DEF PairInv
      <4> QED BY <4>4, <4>5, <4>6, <4>7, <4>8 DEF PairInv, Ends
    <3> QED BY <3>3, <3>4
  <2>10. ASSUME NEW c \in Conn, Park(c)
         PROVE  PairInv'
    <3>1. /\ pc[c] = "park" /\ req[c].uuid \in RelayId
          /\ waiting' = [waiting EXCEPT ![req[c].uuid] = c]
          /\ pc' = [pc EXCEPT ![c] = "sleep"]
          /\ UNCHANGED <<req, passed, relays>>
      BY <2>10 DEF Park, TypeOK, Request
    <3>2. \A u \in RelayId : waiting[u] # c
      BY <2>0, <3>1, NoConnAssumption DEF PairInv
    <3>3. \A r \in relays : c \notin Ends(r)
      BY <3>1 DEF PairInv
    <3>4. \A d \in Conn : pc'[d] # "over" => (d \in passed' <=> pc'[d] \in Past)
      BY <2>0, <3>1 DEF PairInv
    <3>5. \A d \in Conn, r \in relays' : d \in Ends(r) => pc'[d] \notin {"granted", "park"}
      BY <2>0, <3>1, <3>3 DEF PairInv
    <3>6. \A v \in RelayId : waiting'[v] # NoConn =>
            /\ req'[waiting'[v]].uuid = v
            /\ pc'[waiting'[v]] = "sleep"
            /\ \A r \in relays' : waiting'[v] \notin Ends(r)
      BY <2>0, <3>1, <3>2, <3>3 DEF PairInv
    <3> QED BY <3>1, <3>4, <3>5, <3>6 DEF PairInv, Ends
  <2>11. ASSUME NEW c \in Conn, WakeUp(c)
         PROVE  PairInv'
    <3>1. /\ pc[c] = "sleep" /\ req[c].uuid \in RelayId
          /\ waiting' = [waiting EXCEPT ![req[c].uuid] = NoConn]
          /\ pc' = [pc EXCEPT ![c] = "over"]
          /\ UNCHANGED <<req, passed, relays>>
      BY <2>11 DEF WakeUp, TypeOK, Request
    <3>2. \A v \in RelayId : waiting'[v] # NoConn => waiting'[v] = waiting[v] /\ waiting[v] # c
      BY <2>0, <3>1 DEF PairInv
    <3>3. \A d \in Conn : pc'[d] # "over" => (d \in passed' <=> pc'[d] \in Past)
      BY <2>0, <3>1 DEF PairInv
    <3>4. \A d \in Conn, r \in relays' : d \in Ends(r) => pc'[d] \notin {"granted", "park"}
      BY <2>0, <3>1 DEF PairInv
    <3>5. \A v \in RelayId : waiting'[v] # NoConn =>
            /\ req'[waiting'[v]].uuid = v
            /\ pc'[waiting'[v]] = "sleep"
            /\ \A r \in relays' : waiting'[v] \notin Ends(r)
      BY <2>0, <3>1, <3>2 DEF PairInv
    <3> QED BY <3>1, <3>3, <3>4, <3>5 DEF PairInv, Ends
  <2>12. ASSUME NEW e \in relays, RelayEnds(e)
         PROVE  PairInv'
    <3>1. /\ relays' = relays \ {e}
          /\ pc' = [pc EXCEPT ![e.comer] = "over"]
          /\ UNCHANGED <<req, passed, waiting>>
          /\ e.comer \in Conn /\ e.comer \in passed /\ e.comer \in Ends(e)
      BY <2>0, <2>12 DEF RelayEnds, PairInv, Ends
    <3>2. \A u \in RelayId : waiting[u] # NoConn => waiting[u] # e.comer
      BY <3>1 DEF PairInv
    <3>3. \A d \in Conn : pc'[d] # "over" => (d \in passed' <=> pc'[d] \in Past)
      BY <2>0, <3>1 DEF PairInv
    <3>4. \A d \in Conn, r \in relays' : d \in Ends(r) => pc'[d] \notin {"granted", "park"}
      BY <2>0, <3>1 DEF PairInv
    <3>5. \A v \in RelayId : waiting'[v] # NoConn =>
            /\ req'[waiting'[v]].uuid = v
            /\ pc'[waiting'[v]] = "sleep"
            /\ \A r \in relays' : waiting'[v] \notin Ends(r)
      BY <2>0, <3>1, <3>2 DEF PairInv
    <3> QED BY <3>1, <3>3, <3>4, <3>5 DEF PairInv, Ends
  <2>13. CASE Restart
    <3>1. /\ relays' = {} /\ waiting' = [u \in RelayId |-> NoConn]
          /\ UNCHANGED <<req, passed>>
          /\ \A c \in Conn : pc'[c] = (IF pc[c] = "new" THEN "new" ELSE "over")
      BY <2>13 DEF Restart
    <3>2. \A d \in Conn : pc'[d] # "over" => (d \in passed' <=> pc'[d] \in Past)
      BY <3>1 DEF PairInv
    <3> QED BY <3>1, <3>2 DEF PairInv, Ends
  <2> QED
    BY <2>1, <2>2, <2>3, <2>4, <2>5, <2>6, <2>7, <2>8, <2>9, <2>10, <2>11, <2>12,
       <2>13 DEF Next, StoreMoves, Redemption, Pairing, vars
<1> QED BY <1>1, <1>2, TypeCorrect, PTL DEF Spec

\* A stream past the comparison of the licence key named it.
KeyInv ==
  /\ \A c \in Conn : pc[c] \in {"park", "sleep", "relay"} => req[c].key = TRUE
  /\ \A r \in relays : \A c \in Ends(r) : req[c].key = TRUE

LEMMA KeysHold == Spec => []KeyInv
<1>1. Init => KeyInv
  BY DEF Init, KeyInv
<1>2. TypeOK /\ PairInv /\ KeyInv /\ [Next]_vars => KeyInv'
  <2> SUFFICES ASSUME TypeOK, PairInv, KeyInv, [Next]_vars
               PROVE  KeyInv'
    OBVIOUS
  <2>0. /\ pc \in [Conn -> Place] /\ req \in [Conn -> Request \cup {NoRequest}]
        /\ \A r \in relays : r.waiter \in Conn /\ r.comer \in Conn
    BY DEF TypeOK
  \* A task that moves elsewhere with its request, and no new pair.
  <2>1. ASSUME req' = req, relays' \subseteq relays,
               \A c \in Conn : pc'[c] \in {"park", "sleep", "relay"} =>
                               pc[c] \in {"park", "sleep", "relay"} \/ req[c].key = TRUE
        PROVE  KeyInv'
    BY <2>1 DEF KeyInv, Ends
  <2>2. CASE UNCHANGED <<pc, req, relays>>
    BY <2>1, <2>2
  <2>3. ASSUME NEW c \in Conn, NEW q \in Request, ReceiveRequest(c, q)
        PROVE  KeyInv'
    <3>1. /\ pc[c] = "new" /\ pc' = [pc EXCEPT ![c] = "attempt1"]
          /\ req' = [req EXCEPT ![c] = q] /\ relays' = relays
      BY <2>3 DEF ReceiveRequest, Goto, pairVars
    <3>2. \A r \in relays : c \notin Ends(r) /\ Ends(r) \subseteq Conn
      BY <2>0, <3>1 DEF PairInv, Ends
    <3>3. \A d \in Conn : d # c => pc'[d] = pc[d] /\ req'[d] = req[d]
      BY <2>0, <3>1
    <3>4. pc'[c] = "attempt1"
      BY <2>0, <3>1
    <3>5. \A d \in Conn : pc'[d] \in {"park", "sleep", "relay"} => req'[d].key = TRUE
      BY <3>3, <3>4 DEF KeyInv
    <3>6. \A r \in relays' : \A d \in Ends(r) : req'[d].key = TRUE
      BY <3>1, <3>2, <3>3 DEF KeyInv
    <3> QED BY <3>5, <3>6 DEF KeyInv, Ends
  <2>4. ASSUME NEW c \in Conn, Redemption(c) \/ KeyMismatch(c) \/ Park(c) \/ WakeUp(c)
        PROVE  KeyInv'
    <3>1. req' = req /\ relays' = relays
      BY <2>4 DEF Redemption, ConnectFails, SendRedeem, StoreRedeems, StoreRefuses, AnswerArrives,
                  TimesOut, KeyMismatch, Park, WakeUp, pairVars
    <3>2. \A d \in Conn : pc'[d] \in {"park", "sleep", "relay"} =>
                           pc[d] \in {"park", "sleep", "relay"}
      BY <2>0, <2>4
         DEF Redemption, ConnectFails, SendRedeem, StoreRedeems, StoreRefuses, AnswerArrives,
             TimesOut, KeyMismatch, Park, WakeUp, Goto
    <3> QED BY <2>1, <3>1, <3>2
  <2>5. ASSUME NEW c \in Conn, Lookup(c)
        PROVE  KeyInv'
    <3> DEFINE w == waiting[req[c].uuid]
               new == [waiter |-> w, comer |-> c]
    <3>1. /\ req' = req /\ req[c].key = TRUE /\ req[c].uuid \in RelayId
          /\ (pc' = [pc EXCEPT ![c] = "park"] \/ pc' = [pc EXCEPT ![c] = "relay"])
      BY <2>5 DEF Lookup, TypeOK, Request, Goto
    <3>2. \A d \in Conn : pc'[d] \in {"park", "sleep", "relay"} => req'[d].key = TRUE
      BY <2>0, <3>1 DEF KeyInv
    <3>3. relays' = relays \/ (relays' = relays \cup {new} /\ w # NoConn)
      BY <2>5 DEF Lookup
    <3>4. w # NoConn => w \in Conn /\ pc[w] = "sleep"
      BY <3>1 DEF TypeOK, PairInv
    <3>5. w # NoConn => req[w].key = TRUE
      BY <3>4 DEF KeyInv
    <3>6. Ends(new) = {w, c}
      BY DEF Ends
    <3> HIDE DEF w, new
    <3>7. \A r \in relays' : \A d \in Ends(r) : req'[d].key = TRUE
      BY <3>1, <3>3, <3>5, <3>6 DEF KeyInv
    <3> QED BY <3>2, <3>7 DEF KeyInv, Ends
  <2>6. ASSUME NEW e \in relays, RelayEnds(e)
        PROVE  KeyInv'
    <3>1. req' = req /\ relays' \subseteq relays /\ pc' = [pc EXCEPT ![e.comer] = "over"]
      BY <2>6 DEF RelayEnds, Goto
    <3> QED BY <2>0, <2>1, <3>1
  <2>7. CASE Restart
    BY <2>1, <2>7 DEF Restart
  <2> QED
    BY <2>2, <2>3, <2>4, <2>5, <2>6, <2>7 DEF Next, StoreMoves, Pairing, vars, pairVars
<1> QED BY <1>1, <1>2, TypeCorrect, PairsHold, PTL DEF Spec

\* Two streams are joined only on two tickets, each accepted for the uuid both
\* ends asked for, and on the licence key, and no stream is in two pairs
\* (connection.rs:132-161).
THEOREM PairsOnTickets == Spec => []PairedOnBothTickets
<1>1. TypeOK /\ AdmissionInv /\ PairInv /\ KeyInv => PairedOnBothTickets
  <2> SUFFICES ASSUME TypeOK, AdmissionInv, PairInv, KeyInv
               PROVE  PairedOnBothTickets
    OBVIOUS
  <2>1. ASSUME NEW r \in relays
        PROVE  /\ r.waiter # r.comer
               /\ Ends(r) \subseteq passed
               /\ req[r.waiter].uuid = req[r.comer].uuid
               /\ req[r.waiter].ticket # req[r.comer].ticket
               /\ \A c \in Ends(r) :
                    /\ [ticket |-> req[c].ticket, relay |-> req[c].uuid] \in admitted
                    /\ req[c].key
    <3>1. Ends(r) \subseteq Conn /\ Ends(r) \subseteq passed /\ r.waiter # r.comer
          /\ req[r.waiter].uuid = req[r.comer].uuid
      BY DEF TypeOK, PairInv, Ends
    <3>2. req[r.waiter].ticket # req[r.comer].ticket
      BY <3>1 DEF AdmissionInv, Accepted, Ends
    <3>3. \A c \in Ends(r) :
            [ticket |-> req[c].ticket, relay |-> req[c].uuid] \in admitted
      BY <3>1 DEF AdmissionInv, Accepted, GrantOf
    <3>4. \A c \in Ends(r) : req[c].key
      BY DEF KeyInv
    <3> QED BY <3>1, <3>2, <3>3, <3>4
  <2> QED BY <2>1 DEF PairedOnBothTickets, PairInv
<1> QED BY <1>1, TypeCorrect, AdmissionHolds, PairsHold, KeysHold, PTL

-----------------------------------------------------------------------------
\* A task that may still ask the store has not asked it yet.
Early == {"new", "attempt1", "attempt2"}

AskedInv ==
  \A c \in Conn : asked[c] <= 1 /\ (pc[c] \in Early => asked[c] = 0)

\* A step that asks nobody and sends no task back to an attempt.
LEMMA NoAskKeepsAskedInv ==
  ASSUME TypeOK, AskedInv, UNCHANGED asked,
         \A c \in Conn : pc'[c] \in Early => pc[c] \in Early
  PROVE  AskedInv'
BY DEF AskedInv

\* A redemption goes to the store once at most, for any number of connections,
\* failed attempts, late answers and restarts (ticket.rs:78-98).
THEOREM AsksOnce == Spec => []AskedAtMostOnce
<1>1. Init => AskedInv
  BY DEF Init, AskedInv
<1>2. TypeOK /\ AskedInv /\ [Next]_vars => AskedInv'
  <2> SUFFICES ASSUME TypeOK, AskedInv, [Next]_vars
               PROVE  AskedInv'
    OBVIOUS
  <2>0. pc \in [Conn -> Place] /\ asked \in [Conn -> Nat]
    BY DEF TypeOK
  <2>1. CASE StoreMoves
    BY <2>1, NoAskKeepsAskedInv DEF StoreMoves
  <2>2. ASSUME NEW c \in Conn, NEW q \in Request, ReceiveRequest(c, q)
        PROVE  AskedInv'
    BY <2>0, <2>2, NoAskKeepsAskedInv DEF ReceiveRequest, Early
  <2>3. ASSUME NEW c \in Conn, SendRedeem(c)
        PROVE  AskedInv'
    BY <2>0, <2>3 DEF SendRedeem, AskedInv, Early
  <2>4. ASSUME NEW c \in Conn, ConnectFails(c)
        PROVE  AskedInv'
    BY <2>0, <2>4, NoAskKeepsAskedInv DEF ConnectFails, Early
  <2>5. ASSUME NEW c \in Conn, \/ StoreRedeems(c) \/ StoreRefuses(c)
                               \/ AnswerArrives(c) \/ TimesOut(c)
        PROVE  AskedInv'
    BY <2>0, <2>5, NoAskKeepsAskedInv
       DEF StoreRedeems, StoreRefuses, AnswerArrives, TimesOut, Early
  <2>6. ASSUME NEW c \in Conn, Pairing(c)
        PROVE  AskedInv'
    BY <2>0, <2>6, NoAskKeepsAskedInv DEF Pairing, KeyMismatch, Lookup, Park, WakeUp, Early
  <2>7. ASSUME NEW r \in relays, RelayEnds(r)
        PROVE  AskedInv'
    BY <2>0, <2>7, NoAskKeepsAskedInv DEF RelayEnds, Early
  <2>8. CASE Restart
    BY <2>0, <2>8, NoAskKeepsAskedInv DEF Restart, Early
  <2>9. CASE UNCHANGED vars
    BY <2>9, NoAskKeepsAskedInv DEF vars
  <2> QED BY <2>1, <2>2, <2>3, <2>4, <2>5, <2>6, <2>7, <2>8, <2>9 DEF Next, Redemption
<1>3. AskedInv => AskedAtMostOnce
  BY DEF AskedInv, AskedAtMostOnce
<1> QED BY <1>1, <1>2, <1>3, TypeCorrect, PTL DEF Spec
-----------------------------------------------------------------------------
\* Somebody else came for the uuid of d, passed, and has found its end or gone.
Served(d) ==
  \E e \in passed : /\ e # d /\ req[e].uuid = req[d].uuid
                    /\ pc[e] \in {"relay", "over"}

Excused(u) == u \in raced \/ ThreeCame(u)

\* Two tasks about to insert themselves under one uuid, or one about to replace
\* another, raced; a task that sleeps without its place was paired, raced, or
\* shares its uuid with two others.
PlaceInv ==
  /\ \A c, d \in Conn : c # d /\ pc[c] = "park" /\ pc[d] = "park"
                        /\ req[c].uuid = req[d].uuid => req[c].uuid \in raced
  /\ \A d \in Conn : pc[d] = "park" /\ waiting[req[d].uuid] # NoConn
                     => req[d].uuid \in raced
  /\ \A d \in Conn : pc[d] = "sleep" /\ waiting[req[d].uuid] # d
                     => Excused(req[d].uuid) \/ Served(d)

LEMMA ThreeMake ==
  ASSUME NEW u, NEW c \in passed, NEW d \in passed, NEW e \in passed,
         c # d, c # e, d # e,
         req[c].uuid = u, req[d].uuid = u, req[e].uuid = u
  PROVE  ThreeCame(u)
BY DEF ThreeCame

\* Who has passed is not forgotten, and keeps its request.
Remembers ==
  /\ passed \subseteq passed'
  /\ raced \subseteq raced'
  /\ \A c \in Conn : pc[c] # "new" => req'[c] = req[c]

LEMMA ExcuseStays ==
  ASSUME TypeOK, PairInv, Remembers, NEW u, Excused(u)
  PROVE  Excused(u)'
<1>1. \A c \in passed : c \in Conn /\ pc[c] # "new" /\ c \in passed' /\ req'[c] = req[c]
  BY DEF TypeOK, PairInv, Remembers
<1>2. CASE u \in raced
  BY <1>2 DEF Excused, Remembers
<1>3. CASE ThreeCame(u)
  <2>1. PICK c \in passed, d \in passed, e \in passed :
          /\ c # d /\ c # e /\ d # e
          /\ req[c].uuid = u /\ req[d].uuid = u /\ req[e].uuid = u
    BY <1>3 DEF ThreeCame
  <2>2. /\ c \in passed' /\ d \in passed' /\ e \in passed'
        /\ req'[c].uuid = u /\ req'[d].uuid = u /\ req'[e].uuid = u
    BY <1>1, <2>1
  <2> QED BY <2>1, <2>2 DEF Excused, ThreeCame
<1> QED BY <1>2, <1>3 DEF Excused

\* The end that serves another stays where it is, or ends.
LEMMA ServedStays ==
  ASSUME TypeOK, PairInv, Remembers, NEW d \in Conn, pc[d] # "new", Served(d),
         \A e \in Conn : pc[e] \in {"relay", "over"} => pc'[e] \in {"relay", "over"}
  PROVE  Served(d)'
<1>1. PICK e \in passed : e # d /\ req[e].uuid = req[d].uuid /\ pc[e] \in {"relay", "over"}
  BY DEF Served
<1>2. e \in Conn /\ pc[e] # "new" /\ e \in passed'
  BY <1>1 DEF TypeOK, Remembers
<1>3. req'[e] = req[e] /\ req'[d] = req[d]
  BY <1>2 DEF Remembers
<1> QED BY <1>1, <1>2, <1>3 DEF Served

\* Steps that leave PEERS alone and bring nobody to it keep the invariant.
LEMMA AsideKeepsPlaces ==
  ASSUME TypeOK, PairInv, PlaceInv, Remembers,
         waiting' = waiting,
         \A d \in Conn : pc'[d] \in {"park", "sleep"} => pc'[d] = pc[d],
         \A e \in Conn : pc[e] \in {"relay", "over"} => pc'[e] \in {"relay", "over"}
  PROVE  PlaceInv'
<1>1. \A d \in Conn : pc'[d] \in {"park", "sleep"} => pc[d] = pc'[d] /\ req'[d] = req[d]
  BY DEF Remembers
<1>2. \A c, d \in Conn : c # d /\ pc'[c] = "park" /\ pc'[d] = "park"
                         /\ req'[c].uuid = req'[d].uuid => req'[c].uuid \in raced'
  BY <1>1 DEF PlaceInv, Remembers
<1>3. \A d \in Conn : pc'[d] = "park" /\ waiting'[req'[d].uuid] # NoConn
                      => req'[d].uuid \in raced'
  BY <1>1 DEF PlaceInv, Remembers
<1>4. ASSUME NEW d \in Conn, pc'[d] = "sleep", waiting'[req'[d].uuid] # d
      PROVE  Excused(req[d].uuid)' \/ Served(d)'
  <2>1. pc[d] = "sleep" /\ pc[d] # "new" /\ req'[d] = req[d]
    BY <1>1, <1>4
  <2>2. Excused(req[d].uuid) \/ Served(d)
    BY <1>4, <2>1 DEF PlaceInv
  <2>3. CASE Excused(req[d].uuid)
    <3>1. PICK u : u = req[d].uuid
      OBVIOUS
    <3>2. Excused(u)'
      BY <2>3, <3>1, ExcuseStays
    <3> QED BY <2>1, <3>1, <3>2 DEF Excused, ThreeCame
  <2>4. CASE Served(d)
    BY <2>1, <2>4, ServedStays
  <2> QED BY <2>2, <2>3, <2>4
<1> QED BY <1>2, <1>3, <1>4 DEF PlaceInv

LEMMA NextRemembers ==
  ASSUME TypeOK, [Next]_vars
  PROVE  Remembers
<1>1. ASSUME NEW c \in Conn, NEW q \in Request, ReceiveRequest(c, q)
      PROVE  Remembers
  BY <1>1 DEF ReceiveRequest, Remembers, TypeOK
<1>2. ASSUME NEW c \in Conn, Redemption(c) \/ Pairing(c)
      PROVE  Remembers
  BY <1>2 DEF Redemption, ConnectFails, SendRedeem, StoreRedeems, StoreRefuses, AnswerArrives,
              TimesOut, Pairing, KeyMismatch, Lookup, Park, WakeUp, Remembers
<1>3. ASSUME NEW r \in relays, RelayEnds(r)
      PROVE  Remembers
  BY <1>3 DEF RelayEnds, Remembers
<1>4. CASE StoreMoves \/ Restart \/ UNCHANGED vars
  BY <1>4 DEF StoreMoves, Restart, vars, Remembers
<1> QED BY <1>1, <1>2, <1>3, <1>4 DEF Next

LEMMA AsideSteps ==
  ASSUME TypeOK, PairInv, [Next]_vars
  PROVE  \/ /\ waiting' = waiting
            /\ \A d \in Conn : pc'[d] \in {"park", "sleep"} => pc'[d] = pc[d]
            /\ \A e \in Conn : pc[e] \in {"relay", "over"} => pc'[e] \in {"relay", "over"}
         \/ \E c \in Conn : Lookup(c) \/ Park(c) \/ WakeUp(c)
         \/ Restart
<1> DEFINE Quiet == /\ waiting' = waiting
                    /\ \A d \in Conn : pc'[d] \in {"park", "sleep"} => pc'[d] = pc[d]
                    /\ \A e \in Conn : pc[e] \in {"relay", "over"} => pc'[e] \in {"relay", "over"}
<1>0. pc \in [Conn -> Place]
  BY DEF TypeOK
<1>1. ASSUME NEW c \in Conn, NEW q \in Request, ReceiveRequest(c, q)
      PROVE  Quiet
  BY <1>0, <1>1 DEF ReceiveRequest
<1>2. ASSUME NEW c \in Conn, Redemption(c) \/ KeyMismatch(c)
      PROVE  Quiet
  BY <1>0, <1>2 DEF Redemption, ConnectFails, SendRedeem, StoreRedeems, StoreRefuses,
                    AnswerArrives, TimesOut, KeyMismatch
<1>3. ASSUME NEW r \in relays, RelayEnds(r)
      PROVE  Quiet
  BY <1>0, <1>3 DEF RelayEnds, TypeOK
<1>4. CASE StoreMoves \/ UNCHANGED vars
  BY <1>4 DEF StoreMoves, vars
<1> QED BY <1>1, <1>2, <1>3, <1>4 DEF Next, Pairing

LEMMA LookupKeepsPlaces ==
  ASSUME TypeOK, PairInv, PlaceInv, Remembers, NEW c \in Conn, Lookup(c)
  PROVE  PlaceInv'
<1> DEFINE u == req[c].uuid
<1>0. /\ pc \in [Conn -> Place] /\ pc[c] = "granted" /\ c \in passed
      /\ waiting \in [RelayId -> Conn \cup {NoConn}]
      /\ u \in RelayId
      /\ passed' = passed /\ req' = req
      /\ \A d \in Conn : pc[d] \in {"park", "sleep"} => req[d].uuid \in RelayId
  BY DEF Lookup, TypeOK, PairInv, Request
<1>1. CASE waiting[u] # NoConn
  <2>1. /\ waiting' = [waiting EXCEPT ![u] = NoConn]
        /\ pc' = [pc EXCEPT ![c] = "relay"] /\ raced' = raced
    BY <1>1 DEF Lookup
  <2>2. \A d \in Conn : pc'[d] \in {"park", "sleep"} => pc'[d] = pc[d] /\ d # c
    BY <1>0, <2>1
  <2>3. \A a, b \in Conn : a # b /\ pc'[a] = "park" /\ pc'[b] = "park"
                           /\ req'[a].uuid = req'[b].uuid => req'[a].uuid \in raced'
    BY <1>0, <2>1, <2>2 DEF PlaceInv
  <2>4. \A d \in Conn : pc'[d] = "park" /\ waiting'[req'[d].uuid] # NoConn
                        => req'[d].uuid \in raced'
    BY <1>0, <2>1, <2>2 DEF PlaceInv
  <2>5. ASSUME NEW d \in Conn, pc'[d] = "sleep", waiting'[req'[d].uuid] # d
        PROVE  Excused(req[d].uuid)' \/ Served(d)'
    <3>1. CASE req[d].uuid = u
      <4>1. c \in passed' /\ c # d /\ req'[c].uuid = req'[d].uuid /\ pc'[c] = "relay"
        BY <1>0, <2>1, <2>2, <2>5, <3>1
      <4> QED BY <4>1 DEF Served
    <3>2. CASE req[d].uuid # u
      <4>1. pc[d] = "sleep" /\ waiting[req[d].uuid] # d
        BY <1>0, <2>1, <2>2, <2>5, <3>2
      <4>2. Excused(req[d].uuid) \/ Served(d)
        BY <4>1 DEF PlaceInv
      <4>3. \A e \in Conn : pc[e] \in {"relay", "over"} => pc'[e] \in {"relay", "over"}
        BY <1>0, <2>1
      <4>4. Served(d) => Served(d)'
        BY <4>1, <4>3, ServedStays
      <4>5. Excused(req[d].uuid) => Excused(req[d].uuid)'
        BY <1>0, <2>1 DEF Excused, ThreeCame
      <4> QED BY <4>2, <4>4, <4>5
    <3> QED BY <3>1, <3>2
  <2> QED BY <2>3, <2>4, <2>5 DEF PlaceInv
<1>2. CASE waiting[u] = NoConn
  <2>1. /\ waiting' = waiting /\ pc' = [pc EXCEPT ![c] = "park"]
        /\ raced' = IF \E d \in Conn : pc[d] = "park" /\ req[d].uuid = u
                      THEN raced \cup {u} ELSE raced
    BY <1>2 DEF Lookup
  <2>2. \A a, b \in Conn : a # b /\ pc'[a] = "park" /\ pc'[b] = "park"
                           /\ req'[a].uuid = req'[b].uuid => req'[a].uuid \in raced'
    <3> SUFFICES ASSUME NEW a \in Conn, NEW b \in Conn, a # b, pc'[a] = "park",
                        pc'[b] = "park", req[a].uuid = req[b].uuid
                 PROVE  req[a].uuid \in raced'
      BY <1>0
    <3>1. CASE a # c /\ b # c
      BY <1>0, <2>1, <3>1 DEF PlaceInv
    <3>2. CASE a = c
      <4>1. pc[b] = "park" /\ req[b].uuid = u
        BY <1>0, <2>1, <3>2
      <4> QED BY <2>1, <3>2, <4>1
    <3>3. CASE b = c
      <4>1. pc[a] = "park" /\ req[a].uuid = u
        BY <1>0, <2>1, <3>3
      <4> QED BY <2>1, <4>1
    <3> QED BY <3>1, <3>2, <3>3
  <2>3. \A d \in Conn : pc'[d] = "park" /\ waiting'[req'[d].uuid] # NoConn
                        => req'[d].uuid \in raced'
    <3> SUFFICES ASSUME NEW d \in Conn, pc'[d] = "park", waiting[req[d].uuid] # NoConn
                 PROVE  req[d].uuid \in raced'
      BY <1>0, <2>1
    <3>1. d # c /\ pc[d] = "park"
      BY <1>0, <1>2, <2>1
    <3> QED BY <2>1, <3>1 DEF PlaceInv
  <2>4. ASSUME NEW d \in Conn, pc'[d] = "sleep", waiting'[req'[d].uuid] # d
        PROVE  Excused(req[d].uuid)' \/ Served(d)'
    <3>1. pc[d] = "sleep" /\ waiting[req[d].uuid] # d
      BY <1>0, <2>1, <2>4
    <3>2. Excused(req[d].uuid) \/ Served(d)
      BY <3>1 DEF PlaceInv
    <3>3. \A e \in Conn : pc[e] \in {"relay", "over"} => pc'[e] \in {"relay", "over"}
      BY <1>0, <2>1
    <3>4. Served(d) => Served(d)'
      BY <3>1, <3>3, ServedStays
    <3>5. Excused(req[d].uuid) => Excused(req[d].uuid)'
      BY <1>0, <2>1 DEF Excused, ThreeCame
    <3> QED BY <3>2, <3>4, <3>5
  <2> QED BY <2>2, <2>3, <2>4 DEF PlaceInv
<1> QED BY <1>1, <1>2

\* What Park and WakeUp have in common: one task moves, one place changes.
LEMMA OthersKeepPlaces ==
  ASSUME TypeOK, PairInv, PlaceInv, Remembers, NEW c \in Conn,
         Park(c) \/ WakeUp(c),
         NEW d \in Conn, pc[d] = "sleep", d # c, waiting'[req'[d].uuid] # d
  PROVE  Excused(req[d].uuid)' \/ Served(d)'
<1>0. /\ pc \in [Conn -> Place] /\ pc[c] \in {"park", "sleep"} /\ c \in passed /\ d \in passed
      /\ waiting \in [RelayId -> Conn \cup {NoConn}]
      /\ req[c].uuid \in RelayId /\ req[d].uuid \in RelayId
      /\ passed' = passed /\ req' = req /\ raced' = raced
      /\ \A v \in RelayId \ {req[c].uuid} : waiting'[v] = waiting[v]
      /\ \A e \in Conn \ {c} : pc'[e] = pc[e]
  BY DEF Park, WakeUp, TypeOK, PairInv, Request
<1>1. \A u : Excused(u) => Excused(u)'
  BY <1>0 DEF Excused, ThreeCame
<1>2. Served(d) => Served(d)'
  BY <1>0, ServedStays
<1>3. CASE waiting[req[d].uuid] # d
  <2>1. Excused(req[d].uuid) \/ Served(d)
    BY <1>3 DEF PlaceInv
  <2>2. Excused(req[d].uuid) => Excused(req[d].uuid)'
    BY <1>0 DEF Excused, ThreeCame
  <2> QED BY <1>2, <2>1, <2>2
<1>4. CASE waiting[req[d].uuid] = d
  <2>1. req[c].uuid = req[d].uuid /\ waiting[req[c].uuid] = d
    BY <1>0, <1>4
  <2>2. CASE Park(c)
    <3>1. req[c].uuid \in raced
      BY <2>1, <2>2, NoConnAssumption DEF PlaceInv, Park
    <3> QED BY <1>0, <2>1, <3>1 DEF Excused
  <2>3. CASE WakeUp(c)
    <3>1. Excused(req[c].uuid) \/ Served(c)
      BY <2>1, <2>3 DEF PlaceInv, WakeUp
    <3>2. ASSUME Served(c)
          PROVE  ThreeCame(req[d].uuid)'
      <4>1. PICK e \in passed : e # c /\ req[e].uuid = req[c].uuid /\ pc[e] \in {"relay", "over"}
        BY <3>2 DEF Served
      <4>2. e # d
        BY <4>1
      <4> QED BY <1>0, <2>1, <4>1, <4>2 DEF ThreeCame
    <3>3. Excused(req[d].uuid) => Excused(req[d].uuid)'
      BY <1>0 DEF Excused, ThreeCame
    <3> QED BY <2>1, <3>1, <3>2, <3>3 DEF Excused
  <2> QED BY <2>2, <2>3
<1> QED BY <1>3, <1>4

LEMMA ParkKeepsPlaces ==
  ASSUME TypeOK, PairInv, PlaceInv, Remembers, NEW c \in Conn, Park(c) \/ WakeUp(c)
  PROVE  PlaceInv'
<1>0. /\ pc \in [Conn -> Place]
      /\ waiting \in [RelayId -> Conn \cup {NoConn}]
      /\ req[c].uuid \in RelayId
      /\ req' = req /\ raced' = raced
      /\ \A v \in RelayId \ {req[c].uuid} : waiting'[v] = waiting[v]
      /\ \A e \in Conn \ {c} : pc'[e] = pc[e]
      /\ pc'[c] \in {"sleep", "over"}
      /\ pc'[c] = "sleep" => pc[c] = "park" /\ waiting'[req[c].uuid] = c
      /\ pc'[c] = "over" => waiting'[req[c].uuid] = NoConn
  BY DEF Park, WakeUp, TypeOK, Request
<1>1. \A a, b \in Conn : a # b /\ pc'[a] = "park" /\ pc'[b] = "park"
                         /\ req'[a].uuid = req'[b].uuid => req'[a].uuid \in raced'
  BY <1>0 DEF PlaceInv
<1>2. \A d \in Conn : pc'[d] = "park" /\ waiting'[req'[d].uuid] # NoConn
                      => req'[d].uuid \in raced'
  <2> SUFFICES ASSUME NEW d \in Conn, pc'[d] = "park", waiting'[req[d].uuid] # NoConn
               PROVE  req[d].uuid \in raced
    BY <1>0
  <2>1. d # c /\ pc[d] = "park" /\ req[d].uuid \in RelayId
    BY <1>0 DEF TypeOK, Request
  <2>2. CASE req[d].uuid # req[c].uuid
    BY <1>0, <2>1, <2>2 DEF PlaceInv
  <2>3. CASE req[d].uuid = req[c].uuid
    <3>1. pc[c] = "park"
      BY <1>0, <2>3
    <3> QED BY <2>1, <2>3, <3>1 DEF PlaceInv
  <2> QED BY <2>2, <2>3
<1>3. ASSUME NEW d \in Conn, pc'[d] = "sleep", waiting'[req'[d].uuid] # d
      PROVE  Excused(req[d].uuid)' \/ Served(d)'
  <2>1. d # c /\ pc[d] = "sleep"
    BY <1>0, <1>3
  <2> QED BY <1>3, <2>1, OthersKeepPlaces
<1> QED BY <1>1, <1>2, <1>3 DEF PlaceInv

LEMMA PlacesHold == Spec => []PlaceInv
<1>1. Init => PlaceInv
  BY DEF Init, PlaceInv
<1>2. TypeOK /\ PairInv /\ PlaceInv /\ [Next]_vars => PlaceInv'
  <2> SUFFICES ASSUME TypeOK, PairInv, PlaceInv, [Next]_vars
               PROVE  PlaceInv'
    OBVIOUS
  <2>1. Remembers
    BY NextRemembers
  <2>2. ASSUME NEW c \in Conn, Lookup(c) \/ Park(c) \/ WakeUp(c)
        PROVE  PlaceInv'
    BY <2>1, <2>2, LookupKeepsPlaces, ParkKeepsPlaces
  <2>3. CASE Restart
    <3>1. \A d \in Conn : pc'[d] \in {"new", "over"}
      BY <2>3 DEF Restart
    <3> QED BY <3>1 DEF PlaceInv
  <2> QED BY <2>1, <2>2, <2>3, AsideSteps, AsideKeepsPlaces
<1> QED BY <1>1, <1>2, TypeCorrect, PairsHold, PTL DEF Spec

\* An end that waits loses its place before its time only if the two ends raced
\* each other to PEERS or a third connection used the uuid, for any number of
\* connections and restarts (connection.rs:141-164).
THEOREM PlaceKept == Spec => PlaceLostOnlyByRaceOrReuse
<1>1. TypeOK /\ PairInv /\ PlaceInv /\ PlaceInv' /\ [Next]_vars
        => [\A c \in Conn, u \in RelayId : Lost(c, u) => u \in raced \/ ThreeCame(u)]_vars
  <2> SUFFICES ASSUME TypeOK, PairInv, PlaceInv, [Next]_vars,
                      NEW c \in Conn, NEW u \in RelayId, Lost(c, u)
               PROVE  u \in raced \/ ThreeCame(u)
    OBVIOUS
  <2>1. /\ waiting[u] = c /\ waiting'[u] # c /\ pc'[c] = "sleep"
        /\ \A r \in relays' : r.waiter # c
    BY DEF Lost
  <2>2. c # NoConn /\ pc[c] = "sleep" /\ req[c].uuid = u /\ c \in passed
    BY <2>1, NoConnAssumption DEF PairInv
  <2>3. ~Restart
    BY <2>1 DEF Restart
  <2>4. PICK d \in Conn : Lookup(d) \/ Park(d) \/ WakeUp(d)
    BY <2>1, <2>3, AsideSteps
  <2>0. pc \in [Conn -> Place] /\ waiting \in [RelayId -> Conn \cup {NoConn}]
    BY DEF TypeOK
  <2>5. CASE Lookup(d)
    <3>1. \/ waiting' = waiting
          \/ /\ waiting' = [waiting EXCEPT ![req[d].uuid] = NoConn]
             /\ [waiter |-> waiting[req[d].uuid], comer |-> d] \in relays'
      BY <2>5 DEF Lookup
    <3>2. req[d].uuid # u
      BY <2>1, <3>1
    <3> QED BY <2>0, <2>1, <3>1, <3>2
  <2>6. CASE Park(d)
    <3>1. req[d].uuid = u /\ pc[d] = "park"
      BY <2>0, <2>1, <2>6 DEF Park
    <3> QED BY <2>1, <2>2, <3>1 DEF PlaceInv
  <2>7. CASE WakeUp(d)
    <3>1. req[d].uuid = u /\ pc[d] = "sleep"
      BY <2>0, <2>1, <2>7 DEF WakeUp
    <3>2. d # c /\ d \in passed
      BY <2>0, <2>1, <2>7, <3>1 DEF WakeUp, PairInv
    <3>3. Excused(u) \/ Served(d)
      BY <2>1, <3>1, <3>2 DEF PlaceInv
    <3>4. CASE Served(d)
      <4>1. PICK e \in passed : e # d /\ req[e].uuid = u /\ pc[e] \in {"relay", "over"}
        BY <3>1, <3>4 DEF Served
      <4>2. e # c
        BY <2>2, <4>1
      <4> QED BY <2>2, <3>1, <3>2, <4>1, <4>2, ThreeMake
    <3> QED BY <3>3, <3>4 DEF Excused
  <2> QED BY <2>4, <2>5, <2>6, <2>7
<1> QED BY <1>1, TypeCorrect, PairsHold, PlacesHold, PTL DEF Spec, PlaceLostOnlyByRaceOrReuse
=============================================================================
