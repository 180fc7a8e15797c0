------------------------------ MODULE RelayStream ------------------------------
(***************************************************************************)
(* hbbr: the task that relays a pair of streams (relay() and the end of    *)
(* make_pair_ in src/src/relay_server/connection.rs), the lists of         *)
(* addresses the console changes (console.rs) and the table of USAGE.      *)
(*                                                                         *)
(* The task selects among data of either end and a timer; whatever it      *)
(* selected it finishes, the limiter and the send to the other end         *)
(* included, and then measures. Rates and byte counts are left out.        *)
(*                                                                         *)
(* An IPv4 host has two addresses: its own, and ::ffff:a.b.c.d, by which   *)
(* the default listener, of IPv6, reports it. The lists are of strings.    *)
(* BLOCKLIST is asked for the host's own address when any connection is    *)
(* accepted, and relay() asks both lists for the address of the end that   *)
(* came second as it was reported. The end that waits was accepted alike,  *)
(* and is not asked for again.                                             *)
(*                                                                         *)
(* Time is whole seconds, and a second passes only when no task can run:   *)
(* a send may take any time, the program itself takes none.                *)
(***************************************************************************)
EXTENDS Integers, FiniteSets

CONSTANTS
  Stream,     \* pairs that are relayed at a time
  Ip,         \* hosts
  Off,        \* no address: the pair does not exist
  IdleMax,    \* 30 s
  Period,     \* 3 s, of the timer
  MaxLate     \* bound on how late the timer is

\* What to_string() writes: the address of a host, plain or mapped.
Address == [ip : Ip, mapped : BOOLEAN]

ASSUME OffAssumption == Off \notin Address
ASSUME KeyAssumption == Stream \cap Address = {}
ASSUME TimeAssumption == IdleMax \in Nat /\ Period \in Nat \ {0} /\ MaxLate \in Nat

VARIABLES
  blocklist, blacklist,  \* BLOCKLIST, BLACKLIST, as they were typed
  usage,     \* keys of USAGE
  at,        \* where the task of each pair is
  ip,        \* addr.ip() of the end that comes second
  key,       \* id: its address and port
  blacked,   \* the pair is limited as its address is in BLACKLIST
  idle,      \* seconds since last_recv_time
  since,     \* whole seconds since tm
  due,       \* seconds until the timer ticks
  pending,   \* an end has sent what the task has not received
  waited,    \* history: it has waited for a second
  sending,   \* history: for how many seconds the task forwarded last
  onBlock,   \* history: for how many seconds in select the address has been in
  onBlack    \* BLOCKLIST, BLACKLIST

lists == <<blocklist, blacklist>>
who == <<ip, key>>
task == <<blacked, idle, since, due>>
history == <<waited, sending, onBlock, onBlack>>
vars == <<lists, usage, at, who, task, pending, history>>

Place == {"over", "accepted", "select", "forward", "measure", "timeout", "ended"}

Paired(s) == at[s] \notin {"over", "accepted"}

\* A WebSocket end behind a proxy has port 0: its key is its address. The key
\* of any other is its own.
Key == Stream \cup Address

TypeOK ==
  /\ blocklist \subseteq Address /\ blacklist \subseteq Address
  /\ usage \subseteq Key
  /\ at \in [Stream -> Place]
  /\ ip \in [Stream -> Address \cup {Off}]
  /\ key \in [Stream -> Key \cup {Off}]
  /\ \A s \in Stream : /\ at[s] # "over" => ip[s] \in Address
                       /\ Paired(s) => key[s] \in {s, ip[s]}
  /\ blacked \in [Stream -> BOOLEAN]
  /\ idle \in [Stream -> Nat] /\ since \in [Stream -> 0 .. 1]
  /\ due \in [Stream -> Int]
  /\ pending \in [Stream -> BOOLEAN]
  /\ waited \in [Stream -> BOOLEAN] /\ sending \in [Stream -> Nat]
  /\ onBlock \in [Stream -> Nat] /\ onBlack \in [Stream -> Nat]

Init ==
  /\ blocklist \in SUBSET Address /\ blacklist \in SUBSET Address  \* blocklist.txt, blacklist.txt
  /\ usage = {}
  /\ at = [s \in Stream |-> "over"]
  /\ ip = [s \in Stream |-> Off] /\ key = [s \in Stream |-> Off]
  /\ blacked = [s \in Stream |-> FALSE]
  /\ idle = [s \in Stream |-> 0] /\ since = [s \in Stream |-> 0]
  /\ due = [s \in Stream |-> 0]
  /\ pending = [s \in Stream |-> FALSE]
  /\ waited = [s \in Stream |-> FALSE] /\ sending = [s \in Stream |-> 0]
  /\ onBlock = [s \in Stream |-> 0] /\ onBlack = [s \in Stream |-> 0]

Goto(s, place) == at' = [at EXCEPT ![s] = place]

-----------------------------------------------------------------------------
(* The ends, and the console. *)

\* Data, or the end of a stream, reaches the relay.
Arrive(s) ==
  /\ at[s] \in {"select", "forward"} /\ ~pending[s]
  /\ pending' = [pending EXCEPT ![s] = TRUE]
  /\ waited' = [waited EXCEPT ![s] = FALSE]
  /\ UNCHANGED <<lists, usage, at, who, task, sending, onBlock, onBlack>>

\* blocklist-add, blocklist-remove, blacklist-add, blacklist-remove, of some
\* addresses or all; an address that leaves a list has been in it for no time.
List(addresses) ==
  /\ \/ /\ blocklist' \in {blocklist \cup addresses, blocklist \ addresses}
        /\ UNCHANGED blacklist
     \/ /\ blacklist' \in {blacklist \cup addresses, blacklist \ addresses}
        /\ UNCHANGED blocklist
  /\ onBlock' = [s \in Stream |-> IF ip[s] \in blocklist' THEN onBlock[s] ELSE 0]
  /\ onBlack' = [s \in Stream |-> IF ip[s] \in blacklist' THEN onBlack[s] ELSE 0]
  /\ UNCHANGED <<usage, at, who, task, pending, waited, sending>>

-----------------------------------------------------------------------------
(* handle_connection, make_pair, make_pair_ and relay *)

\* try_into_v4
TryIntoV4(address) == [address EXCEPT !.mapped = FALSE]

\* A connection from an address as the listener reports it.
Accept(s, address) ==
  /\ at[s] = "over"
  /\ TryIntoV4(address) \notin blocklist
  /\ Goto(s, "accepted")
  /\ ip' = [ip EXCEPT ![s] = address]
  /\ UNCHANGED <<lists, usage, key, task, pending, history>>

\* It sends no request in time, its ticket or key is refused, or it is the
\* first of its uuid and waits (RelayServer).
Leave(s) ==
  /\ at[s] = "accepted"
  /\ Goto(s, "over")
  /\ ip' = [ip EXCEPT ![s] = Off]
  /\ UNCHANGED <<lists, usage, key, task, pending, history>>

\* It finds the first end; its address may be in a list by now. The first tick
\* of an interval is at once.
PairAs(s, address, id) ==
  /\ at[s] = "accepted"
  /\ Goto(s, "select")
  /\ ip' = [ip EXCEPT ![s] = address]
  /\ key' = [key EXCEPT ![s] = id]
  /\ usage' = usage \cup {id}
  /\ UNCHANGED <<lists, task, pending, history>>

Pair(s) == PairAs(s, ip[s], s)

\* A WebSocket end whose proxy names the host it speaks for, in X-Real-IP.
PairProxied(s, address) == ~address.mapped /\ PairAs(s, address, address)

\* A mutant: last_recv_time is that of one of the two ends.
ReceiveUnnoted(s) ==
  /\ at[s] = "select" /\ pending[s]
  /\ Goto(s, "forward")
  /\ idle' \in {idle, [idle EXCEPT ![s] = 0]}
  /\ pending' = [pending EXCEPT ![s] = FALSE]
  /\ waited' = [waited EXCEPT ![s] = FALSE] /\ sending' = [sending EXCEPT ![s] = 0]
  /\ UNCHANGED <<lists, usage, who, blacked, since, due, onBlock, onBlack>>

\* recv() of either end: the data goes through the limiters and to the other.
Receive(s) ==
  /\ at[s] = "select" /\ pending[s]
  /\ Goto(s, "forward")
  /\ idle' = [idle EXCEPT ![s] = 0]
  /\ pending' = [pending EXCEPT ![s] = FALSE]
  /\ waited' = [waited EXCEPT ![s] = FALSE] /\ sending' = [sending EXCEPT ![s] = 0]
  /\ UNCHANGED <<lists, usage, who, blacked, since, due, onBlock, onBlack>>

Forwarded(s) ==
  /\ at[s] = "forward"
  /\ Goto(s, "measure")
  /\ UNCHANGED <<lists, usage, who, task, pending, history>>

\* An end is closed, or the other cannot be sent to.
Ends(s) ==
  /\ (at[s] = "select" /\ pending[s]) \/ at[s] = "forward"
  /\ Goto(s, "ended")
  /\ UNCHANGED <<lists, usage, who, task, pending, history>>

\* A mutant: the timer ticks half as often.
TickRarely(s) ==
  /\ at[s] = "select" /\ due[s] <= 0
  /\ Goto(s, IF idle[s] > IdleMax THEN "timeout" ELSE "measure")
  /\ due' = [due EXCEPT ![s] = @ + 2 * Period]
  /\ UNCHANGED <<lists, usage, who, blacked, idle, since, pending, history>>

\* An interval that is late ticks until it is not.
Tick(s) ==
  /\ at[s] = "select" /\ due[s] <= 0
  /\ Goto(s, IF idle[s] > IdleMax THEN "timeout" ELSE "measure")
  /\ due' = [due EXCEPT ![s] = @ + Period]
  /\ UNCHANGED <<lists, usage, who, blacked, idle, since, pending, history>>

\* A mutant: the lists are looked up when something was forwarded only.
MeasureTraffic(s) ==
  /\ at[s] = "measure"
  /\ IF idle[s] > 0
     THEN Goto(s, "select") /\ UNCHANGED <<usage, blacked, since>>
     ELSE /\ Goto(s, IF ip[s] \in blocklist THEN "ended" ELSE "select")
          /\ usage' = usage \cup {key[s]}
          /\ blacked' = [blacked EXCEPT ![s] = ip[s] \in blacklist]
          /\ since' = [since EXCEPT ![s] = 0]
  /\ UNCHANGED <<lists, who, idle, due, pending, history>>

\* Once in a second at most, whatever was selected. The address is looked up
\* as it was reported.
Measure(s) ==
  /\ at[s] = "measure"
  /\ IF since[s] = 0
     THEN Goto(s, "select") /\ UNCHANGED <<usage, blacked, since>>
     ELSE IF ip[s] \in blocklist
     THEN Goto(s, "ended") /\ UNCHANGED <<usage, blacked, since>>
     ELSE /\ Goto(s, "select")
          /\ usage' = usage \cup {key[s]}
          /\ blacked' = [blacked EXCEPT ![s] = ip[s] \in blacklist]
          /\ since' = [since EXCEPT ![s] = 0]
  /\ UNCHANGED <<lists, who, idle, due, pending, history>>

\* What the task kept is gone with it.
Reset(s) ==
  /\ ip' = [ip EXCEPT ![s] = Off] /\ key' = [key EXCEPT ![s] = Off]
  /\ blacked' = [blacked EXCEPT ![s] = FALSE]
  /\ idle' = [idle EXCEPT ![s] = 0] /\ since' = [since EXCEPT ![s] = 0]
  /\ due' = [due EXCEPT ![s] = 0]
  /\ pending' = [pending EXCEPT ![s] = FALSE]
  /\ waited' = [waited EXCEPT ![s] = FALSE] /\ sending' = [sending EXCEPT ![s] = 0]
  /\ onBlock' = [onBlock EXCEPT ![s] = 0] /\ onBlack' = [onBlack EXCEPT ![s] = 0]

\* A mutant: a stream that timed out leaves its entry.
RemoveUsageUnlessTimeout(s) ==
  /\ at[s] \in {"ended", "timeout"}
  /\ Goto(s, "over")
  /\ usage' = IF at[s] = "ended" THEN usage \ {key[s]} ELSE usage
  /\ Reset(s)
  /\ UNCHANGED lists

RemoveUsage(s) ==
  /\ at[s] \in {"ended", "timeout"}
  /\ Goto(s, "over")
  /\ usage' = usage \ {key[s]}
  /\ Reset(s)
  /\ UNCHANGED lists

-----------------------------------------------------------------------------

\* The task of s can run.
Ready(s) ==
  \/ at[s] \in {"measure", "timeout", "ended"}
  \/ at[s] = "select" /\ (pending[s] \/ due[s] <= 0)

Selecting(s) == at[s] = "select"
AtLeast(a, b) == IF a >= b THEN a ELSE b
AtMost(a, b) == IF a <= b THEN a ELSE b

\* Numbers of seconds past which nothing changes.
OldAge == IdleMax + Period + 1
LongSending == IdleMax + 1
LongListed == Period + 1

Second ==
  /\ \A s \in Stream : ~Ready(s)
  /\ idle' = [s \in Stream |-> IF Paired(s) THEN AtMost(idle[s] + 1, OldAge) ELSE idle[s]]
  /\ since' = [s \in Stream |-> IF Paired(s) THEN 1 ELSE since[s]]
  /\ due' = [s \in Stream |-> IF Paired(s) THEN AtLeast(due[s] - 1, -MaxLate) ELSE due[s]]
  /\ waited' = pending
  /\ sending' = [s \in Stream |-> IF at[s] = "forward" THEN AtMost(sending[s] + 1, LongSending)
                                  ELSE sending[s]]
  /\ onBlock' = [s \in Stream |-> IF Selecting(s) /\ ip[s] \in blocklist
                                 THEN AtMost(onBlock[s] + 1, LongListed) ELSE onBlock[s]]
  /\ onBlack' = [s \in Stream |-> IF Selecting(s) /\ ip[s] \in blacklist
                                 THEN AtMost(onBlack[s] + 1, LongListed) ELSE onBlack[s]]
  /\ UNCHANGED <<lists, usage, at, who, blacked, pending>>

Next ==
  \/ \E s \in Stream :
       \/ Arrive(s) \/ Receive(s) \/ Forwarded(s) \/ Ends(s)
       \/ Tick(s) \/ Measure(s) \/ RemoveUsage(s)
       \/ Leave(s) \/ Pair(s)
       \/ \E address \in Address : Accept(s, address) \/ PairProxied(s, address)
  \/ \E addresses \in SUBSET Address : List(addresses)
  \/ Second

Spec == Init /\ [][Next]_vars

-----------------------------------------------------------------------------
(* Safety. *)

\* A pair is ended as idle only if no data of either end has waited for a
\* second, unless its last send took longer than the idle time: then the timer
\* and the data are ready together, and either may be selected
\* (connection.rs:190-236).
TimeoutOnlyIfQuiet ==
  \A s \in Stream : at[s] = "timeout" =>
    idle[s] > IdleMax /\ (pending[s] /\ waited[s] => sending[s] > IdleMax)

\* A pair that waits for events does so for one period of the timer beyond the
\* idle time at most (connection.rs:232-236).
IdleEnds ==
  [][\A s \in Stream : Selecting(s) /\ Selecting(s)' /\ idle'[s] > idle[s]
                         => idle'[s] <= IdleMax + Period]_vars

\* An address put into a list while it is relayed is cut off or limited after
\* one period of the timer at most, sends not counted: what is looked up once
\* in a second is looked up at some tick (connection.rs:239-246). The list must
\* have it as the listener reports it: an IPv4 host of plain TCP on the default
\* listener is found by its mapped address alone.
ListsTakeEffect ==
  \A s \in Stream : Selecting(s) =>
    /\ onBlock[s] <= Period
    /\ onBlack[s] <= Period \/ blacked[s]

\* An entry of USAGE has a pair that will remove it; a pair without one has
\* lost it to another of the same proxied address (connection.rs:146-158).
UsageOfStreams ==
  /\ \A k \in usage : \E s \in Stream : Paired(s) /\ key[s] = k
  /\ \A s \in Stream : Paired(s) /\ key[s] \notin usage => key[s] \in Address

\* What environment-variables.md:91-100 says of the lists, which "can also be
\* edited live": the host of a listed address is refused or limited, by the
\* next lookup of a pair that is relayed already (connection.rs:241-246).
ListedHostsAreLimited ==
  [][\A s \in Stream : since[s] = 1 /\ since'[s] = 0 /\ Selecting(s)'
       => /\ TryIntoV4(ip[s]) \notin blocklist
          /\ TryIntoV4(ip[s]) \in blacklist => blacked'[s]]_vars
=============================================================================
