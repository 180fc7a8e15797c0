----------------------------- MODULE RelayServers -----------------------------
(***************************************************************************)
(* hbbs: the list of relay servers it hands out (relay_servers). io_loop   *)
(* keeps it beside the list the operator configured (relay_servers0) and   *)
(* has the latter checked every 3 s in tasks of their own, which report    *)
(* the servers they could connect to. Reports and the commands of the      *)
(* console reach io_loop through one channel                               *)
(* (src/src/rendezvous_server/relay.rs, io.rs, console.rs).                *)
(*                                                                         *)
(* A list is the set of its servers: which of them get_relay_server picks  *)
(* is left open, and an operator names no server twice.                    *)
(***************************************************************************)
EXTENDS Naturals, Sequences, FiniteSets

CONSTANTS
  Server,
  Config,       \* lists the operator may give
  Up,           \* servers that are not down for ever
  Check,        \* checks that may run at a time
  MaxQueue,     \* bound on messages in the channel
  MaxCommands   \* bound on commands given

ASSUME ConfigAssumption == Config \subseteq SUBSET Server
ASSUME BoundAssumption == MaxQueue \in Nat /\ MaxCommands \in Nat

VARIABLES
  relay_servers0,   \* the list configured last
  relay_servers,    \* the list handed out
  always_use_relay, \* ALWAYS_USE_RELAY
  channel,          \* messages io_loop has not received
  probing,          \* the list each running check connects to
  commands,         \* number of commands given (bounds the model)
  epoch,            \* history: how many times the list was configured
  since,            \* history: the epoch in which each check began
  late              \* history: the list handed out is the report of a check
                    \* that began before the list was configured last

lists == <<relay_servers0, relay_servers>>
console == <<always_use_relay, commands>>
history == <<epoch, late>>
vars == <<lists, console, channel, probing, since, history>>

\* Data::RelayServers0 and Data::RelayServers.
Configure == [kind : {"configure"}, list : SUBSET Server]
Report == [kind : {"report"}, list : (SUBSET Server) \ {{}}, epoch : Nat]

TypeOK ==
  /\ relay_servers0 \in SUBSET Server /\ relay_servers \in SUBSET Server
  /\ always_use_relay \in BOOLEAN
  /\ channel \in Seq(Configure \cup Report)
  /\ probing \in [Check -> SUBSET Server]
  /\ commands \in Nat
  /\ epoch \in Nat /\ since \in [Check -> Nat] /\ late \in BOOLEAN

\* No check: one is only started with a list of two servers or more.
Idle == {}

\* The names of a list that resolve when it is parsed (get_servers).
Resolved(list) == SUBSET list

\* start_with_bind: parse_relay_servers of -r / RELAY-SERVERS.
Init ==
  /\ \E given \in Config : relay_servers0 \in Resolved(given)
  /\ relay_servers = relay_servers0
  /\ always_use_relay \in BOOLEAN
  /\ channel = <<>>
  /\ probing = [k \in Check |-> Idle]
  /\ commands = 0
  /\ epoch = 0 /\ since = [k \in Check |-> 0] /\ late = FALSE

Send(message) ==
  /\ Len(channel) < MaxQueue
  /\ channel' = Append(channel, message)

-----------------------------------------------------------------------------
(* The console: a task per command. *)

Command ==
  /\ commands < MaxCommands
  /\ commands' = commands + 1
  /\ UNCHANGED <<lists, probing, since, history>>

\* relay-servers <list>
SetRelayServers(list) ==
  /\ Command
  /\ Send([kind |-> "configure", list |-> list])
  /\ UNCHANGED always_use_relay

\* always-use-relay Y|N: the argument is also sent as a list of relay servers,
\* and names none.
AlwaysUseRelay(on) ==
  /\ Command
  /\ always_use_relay' = on
  /\ Send([kind |-> "configure", list |-> {}])

-----------------------------------------------------------------------------
(* io_loop and the checks it starts. *)

\* Mutant: the tick checks the servers that passed the last check.
TickOfHandedOut(k) ==
  /\ probing[k] = Idle
  /\ Cardinality(relay_servers) > 1
  /\ probing' = [probing EXCEPT ![k] = relay_servers]
  /\ since' = [since EXCEPT ![k] = epoch]
  /\ UNCHANGED <<lists, console, channel, history>>

\* Mutant: the tick looks at the length of the list handed out.
TickByHandedOut(k) ==
  /\ probing[k] = Idle
  /\ Cardinality(relay_servers) > 1
  /\ probing' = [probing EXCEPT ![k] = relay_servers0]
  /\ since' = [since EXCEPT ![k] = epoch]
  /\ UNCHANGED <<lists, console, channel, history>>

\* timer_check_relay: a check of a copy of the configured list is spawned.
Tick(k) ==
  /\ probing[k] = Idle
  /\ Cardinality(relay_servers0) > 1
  /\ probing' = [probing EXCEPT ![k] = relay_servers0]
  /\ since' = [since EXCEPT ![k] = epoch]
  /\ UNCHANGED <<lists, console, channel, history>>

\* Mutant: a check that reached no server reports that, too.
CheckEndsEmpty(k, reached) ==
  /\ probing[k] # Idle
  /\ reached \subseteq probing[k]
  /\ probing' = [probing EXCEPT ![k] = Idle]
  /\ since' = [since EXCEPT ![k] = 0]
  /\ Send([kind |-> "report", list |-> reached, epoch |-> since[k]])
  /\ UNCHANGED <<lists, console, history>>

\* check_relay_servers: every connection was made, failed or timed out. A check
\* that reached no server reports nothing.
CheckEnds(k, reached) ==
  /\ probing[k] # Idle
  /\ reached \subseteq probing[k]
  /\ probing' = [probing EXCEPT ![k] = Idle]
  /\ since' = [since EXCEPT ![k] = 0]
  /\ IF reached = {} THEN UNCHANGED channel
     ELSE Send([kind |-> "report", list |-> reached, epoch |-> since[k]])
  /\ UNCHANGED <<lists, console, history>>

\* Mutant: the new list is configured, the old one handed out until a check.
ParseConfiguredOnly(list) ==
  /\ relay_servers0' = list
  /\ epoch' = epoch + 1 /\ late' = FALSE
  /\ UNCHANGED relay_servers

\* parse_relay_servers
Parse(list) ==
  /\ relay_servers0' = list /\ relay_servers' = list
  /\ epoch' = epoch + 1 /\ late' = FALSE

\* The report replaces the list handed out, whatever was configured meanwhile.
TakeReport(message) ==
  /\ relay_servers' = message.list
  /\ late' = (message.epoch # epoch)
  /\ UNCHANGED <<relay_servers0, epoch>>

\* rx.recv()
Receive ==
  /\ channel # <<>>
  /\ channel' = Tail(channel)
  /\ LET message == Head(channel) IN
     IF message.kind = "report" THEN TakeReport(message)
     ELSE \E list \in Resolved(message.list) : Parse(list)
  /\ UNCHANGED <<console, probing, since>>

Next ==
  \/ \E list \in Config : SetRelayServers(list)
  \/ \E on \in BOOLEAN : AlwaysUseRelay(on)
  \/ \E k \in Check : Tick(k) \/ \E reached \in SUBSET Server : CheckEnds(k, reached)
  \/ Receive

Reach(s) ==
  \E k \in Check, reached \in SUBSET Server : s \in reached /\ CheckEnds(k, reached)

\* The timer and the channel are branches of one select!, which picks among the
\* ready ones at random; a connection attempt ends within CHECK_RELAY_TIMEOUT; a
\* server in Up is reached again and again if it is tried again and again.
Fairness ==
  /\ WF_vars(Receive)
  /\ WF_vars(\E k \in Check : Tick(k))
  /\ \A k \in Check : WF_vars(\E reached \in SUBSET Server : CheckEnds(k, reached))
  /\ \A s \in Up : SF_vars(Reach(s))

Spec == Init /\ [][Next]_vars
FairSpec == Spec /\ Fairness

-----------------------------------------------------------------------------
(* Properties *)

\* When every relay server is down hbbs goes on handing out the last ones that
\* were up: no check, of whatever list, leaves it without any (relay.rs:73-76).
CheckNeverEmpties == relay_servers = {} => relay_servers0 = {}

\* hbbs hands out a server that is not in the configured list only on the report
\* of a check that was running, or whose report was waiting, when the list was
\* configured (io.rs:22-36, relay.rs:34-38).
StaleOnlyByLateReport == relay_servers \subseteq relay_servers0 \/ late

\* A list of two servers or more one of which is up ends what such a report
\* undid: the next checks bring back servers of that list (io.rs:22-30).
StaleListEnds ==
  Cardinality(relay_servers0) > 1 /\ relay_servers0 \cap Up # {}
    ~> \/ relay_servers \subseteq relay_servers0
       \/ Cardinality(relay_servers0) <= 1 \/ relay_servers0 \cap Up = {}

\* A server that was found down is handed out again once it is up, since checks
\* are of the configured list (io.rs:23-24).
UpServerReturns ==
  \A s \in Up : s \in relay_servers0 /\ Cardinality(relay_servers0) > 1
    ~> s \in relay_servers \/ s \notin relay_servers0 \/ Cardinality(relay_servers0) <= 1
=============================================================================
