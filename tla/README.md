# A TLA+ specification of openuu-server

openuu-server is a rendezvous and relay server for remote desktop clients. Three
programs share this repository: **hbbs** (rendezvous: peers register, controllers
ask for them), **hbbr** (relay: joins the two ends of a stream) and
**openuu-account** (accounts, sessions, relay tickets, wake on LAN, audit).
This directory models the parts of it in which several tasks, processes or
messages interleave, checks the models with TLC on small instances and proves
the main properties with TLAPS for every value of the constants.

Paths below are relative to the repository (`src/...` is the Rust crate).

## 1. Inventory

| Component | State it keeps | Operations | Talks to | Hard part | Module |
| --- | --- | --- | --- | --- | --- |
| Account store (`src/account/store.rs`, `mod.rs`, `api.rs`, `internal.rs`, `src/account_main.rs`) | tables `accounts`, `account_sessions`, `relay_tickets` | login, logout, ticket, redeem; create, passwd, disable, enable, delete | called by HTTP clients, hbbs (`authorized`, `peer_ticket`), hbbr (`redeem_ticket`), the operator's command line, a process of its own | operations of several statements without a transaction; three processes on one file; expiry | `AccountStore`, abstract `RelayTickets` |
| Wake on LAN (`src/account/wol.rs`) | tables `wol_devices`, `wol_jobs` | poll, status, wake | account store, deleted with the account | lease once, expiry, a deletion in between | `Wol` |
| Ticket redemption and pairing (`src/relay_server/ticket.rs`, `connection.rs`) | `PEERS`, one task per connection, the redemption on the wire | redeem (in process or HTTP), look up, wait 30 s, relay | account store, the two ends of a stream | lost and late answers, retry, remove-then-insert, timers | `RelayServer` |
| Relayed stream (`connection.rs` `relay`, `src/relay_server/console.rs`) | `USAGE`, `BLOCKLIST`, `BLACKLIST`, counters, limiters | forward, measure, time out | the two ends, the console | idle timeout against blocked sends, changes of the lists | `RelayStream` |
| TCP rendezvous connections (`src/rendezvous_server/tcp.rs`, `tcp_register.rs`, `io.rs`, `punch.rs`) | the writing half (`Sink`) of each connection: owned by its task, in `tcp_punch` or in `tcp_peers` | register, punch hole request and answers, relay request and answer, NAT test, push to a peer, clean-up | registry, account store, `io_loop` through a channel | a sink is moved out of the map during a send; shared WebSocket addresses | `TcpPeers` |
| Punch hole routing, punch sessions (`punch.rs`, `tcp.rs`, `sessions.rs`, `get_relay_server`) | `tcp_punch`, `PunchSessions`, `ALWAYS_USE_RELAY` | requests of controllers, pushes, answers of peers, tickets for relays a peer starts | registry, connections, account store | answers find their controller by an address alone; two ends told about one relay at two moments | `Rendezvous` |
| Peer registry (`src/peer.rs`, `src/database.rs`, `src/rendezvous_server/udp.rs`) | `PeerMap` (record per id), table `peer` | RegisterPk, RegisterPeer (heartbeat), lookup | UDP loop, one task per TCP connection | check-then-act over several locks, cache against database, dropped errors, restart | `PeerRegistry` |
| Relay list (`relay.rs`, `io.rs`, `console.rs`) | `relay_servers`, `relay_servers0`, round robin counter, one clone per connection | periodic check, console | `io_loop` channel | stale check results, stale clones | `RelayServers` |
| Rate limits (`relay.rs`, `udp.rs`, `punch.rs`, `console.rs`, `api.rs`, `audit.rs`) | `IP_BLOCKER`, `reg_pk`, `attempts`, `audit_rate`, `PUNCH_REQS` | registration, login, audit, log of requests, console | registry, account API | windows, caps, read-modify-write, unbounded log | `RateLimits` |
| Connection audit (`audit.rs`) | one table | one INSERT | account store | only the limit | `RateLimits` |
| UDP dispatcher (`udp.rs` `handle_udp`) | serial and server list | dispatch, configuration update from loopback | registry | - | heartbeats and registrations in `PeerRegistry` |
| Secure TCP handshake (`secure.rs`, `io.rs`) | offer, encryption of each direction | offer, accept, fall back | connections | order of offer, first message, replies | not modelled |
| Online query (`punch.rs`) | none | bitmap of states | registry | packing | not modelled |
| HTTP directory | none | constant answers | account store | - | not modelled |
| Consoles, start-up, socket restart, arguments, key files, `src/utils.rs` | flags, sockets | print, set, open | the operator | input and output, but for the commands named above | not modelled |
| `ui/`, `docker*/`, `systemd/`, `kubernetes/`, `scripts/`, `debian/`, `rcd/` | - | a desktop program that starts services; packaging | the operating system | none of the server's protocol | not modelled |

What makes each of the modelled components correct:

- **Account store**: a revoked session or ticket is never usable again; a ticket
  admits one stream, for the relay id it was issued for.
- **Wake on LAN**: a wake is handed to one helper once; no row and no wake of an
  account reaches the next account of its name.
- **Redemption and pairing**: a stream is admitted only by a ticket of its own;
  only streams of one uuid are joined; a valid ticket is not wasted by a retry; an
  end that waits is not forgotten before its time, and not for ever.
- **Relayed stream**: a pair is ended when it is idle and not before; an address put
  into a list is cut off or limited soon; `USAGE` does not grow.
- **TCP connections**: while a connection is open its sink can be found; when it is
  closed nothing of it stays behind; a registered one is not closed by mistake.
- **Routing and sessions**: whoever asks can be answered; both ends go to one relay
  they can reach; a ticket is charged to the account that asked.
- **Registry**: an id belongs to the uuid that was told OK; memory and database
  agree; pushes go to the registered IP.
- **Relay list**: while servers are configured one is handed out; servers that are not
  in the configured list are handed out only on an old check's report, and not for
  longer than the next checks take; a server that comes up is handed out again.
- **Rate limits**: what passes in a window is bounded whatever the timing; nobody is
  refused without a cause; the log holds no repeated requests.

## 2. Modules

Each module is a state machine with one action per statement, lock or message;
what happens between two of them may interleave with everybody else. Variables
marked *history* in a module change no guard: they record what properties need.

### `RelayTickets` (abstract) and `AccountStore`

`RelayTickets` is what the rest of the system relies on: `Issue`, `Admit`, `Lapse`
on a set of tickets. `AccountStore` is the database: a table is a set of rows, every
SQL statement an action. `login()` is `LoginVerify` (SELECT and bcrypt), `LoginPurge`,
`LoginInsert`; `ticket()` is `TicketCheck`, `TicketPurge`, `TicketInsert`; `redeem()`
is the one DELETE `Redeem`; `revoke_user()` is `RevokeTickets`, `RevokeSessions`, and
`passwd`, `disable`, `delete` call it before or after their own statement as in the
code, `delete` with `DeleteJobs` and `DeleteDevices` in between, whose rows are those
of `Wol`. `AdminFails` and `DropRequest` stop a command or a request between two
statements. The clock is `now`; expiry tests use the code's `<=` and `>`. A digest is
identified with its token, a random token is one never used before. Names and
passwords are model values; the limit on logins is in `RateLimits`.

### `Wol`

Extends `AccountStore`: its sessions, accounts, commands and clock are used as they
are, and `WolNext` interleaves its actions with the statements of this module.
`poll()` is `PollAuthorize`, `Register` (UPSERT), `Lease` (DELETE ... RETURNING),
`AnswerPoll` (which leaves out what has expired); `wake()` is `WakeAuthorize`,
`FindTarget`, `FindHelper`, `Queue`. `DeleteJobRows` and `DeleteDeviceRows` give the
two statements of `delete_user()` their effect. `DropWolRequest` ends a request
between two statements. The history `era` counts how often the rows of a name were
deleted, and `raced` marks a row written on an authorization that had lapsed, or
while a delete command was at work: the exceptions the properties name.

### `RelayServer`

One task per connection: `ReceiveRequest`, then the redemption over the network
(`ConnectFails` with its single retry, `SendRedeem`, `StoreRedeems` or
`StoreRefuses` at the account service, `AnswerArrives` or `TimesOut`), then
`make_pair_`: `KeyMismatch`, `Lookup` (remove from `PEERS`), `Park` (insert),
`WakeUp` (the 30 s are over; remove whatever is there), `RelayEnds`. `Restart` kills
the relay; redemptions on the wire go on. The store is `RelayTickets`, instantiated
on the variables `issued`, `live`, `admitted` and composed with the relay on
`Admit` (`RelayUsesTickets`); `AccountStore` is shown to implement it (`TicketsRefine`),
so the relay's properties hold over the database too. Time is abstracted: a timer may fire at any moment.

### `RelayStream`

The task of a pair is at `select`, at `forward` (limiter and `send_raw`, of any
length) or at `measure`; `Pair` is what precedes (entry of `USAGE`, both intervals),
`RemoveUsage` what follows in `make_pair_`, `List` the console commands that change
the lists. A host has two addresses, its own and the IPv4-mapped one by which the
dual-stack listener reports it over plain TCP. `Accept` asks `BLOCKLIST` for the
address after `TryIntoV4`, for every connection; `Measure` looks up, in both lists, the
address of the end that came second as it was reported (`Pair`) or as its proxy named
it (`PairProxied`). The first end passed `Accept` and its address is not asked for
again: it is a connection that did `Leave`. Time is whole seconds: `due` is the timer, `idle` the time since data came, `since`
the second in which the task measures once. A second passes only when no task can
run. `waited`, `sending`, `onBlock`, `onBlack` are history. Rates, byte counts, the
limiters' delays and the downgrade by volume are left out.

### `TcpPeers`

`own`, `tcp_punch`, `tcp_peers` say where each connection's sink is. `Handle` has one
action per message of `handle_tcp`; what a handler still has to send is a short
program `todo` of answers (`send_to_tcp`, `send_to_tcp_sync`) and pushes
(`send_to_tcp_peer`), run by `FindAnswerSink`, `TakePeerSink` (a placeholder `Closed`
stays in the map) and `PutBack`. `io_loop` (`Loop`) pushes to any address at any
time through `Deliver`. `StopReading`, `DropPunch`, `Forget` are the end of a
connection. `AddrOf` gives the key of each connection; WebSocket clients of one IP
share a key (`ip:0`), as behind the reverse proxy the code expects.

### `Rendezvous`

An introduction from end to end. A controller opens a connection and asks
(`PunchHoleRequest`, `RequestRelay`; an unauthorized request closes it); `TakeIn`
hands its sink over to `tcp_punch` the first time. `Route` is
`handle_punch_hole_request`: it refuses, or pushes the request to the address the
peer registered from, with the relay and the forced NAT type that the mask, the list
and `always-use-relay` make of it. The peer answers as often as it likes
(`PeerAnswers`), or relays on its own (`PeerRelays`, `MintTicket`, `Forward`: the
lookup of the session, the ticket, the answer with the relay rewritten). A push is
lost with `Lose`; `Restart` forgets connections, sessions and handlers, not what is on
its way. `asks`, `told` and `minted` are history.

It stands beside `TcpPeers`, `PeerRegistry` and `RelayServers` rather than on top of
them: a send is one step (its interleavings are `TcpPeers`), the wrong key, the
unknown and the silent peer are one free refusal (what a record says is
`PeerRegistry`), the relay list is fixed (`RelayServers`), and the account store
mints or does not (`AccountStore`). Controllers do not register on the connection
they ask on; `TcpPeers` has that case. `handle_punch_hole_request` also logs the
request; the log is in `RateLimits`.

### `PeerRegistry`

One id. `map` is the entry of `PeerMap` (a pointer into `heap`, since tasks keep
pointers to records that `get` may replace), `db` the row. `register_pk_result` is
`Get`, `Select`, `Adopt`, `Default`, `Check`, `Refuse`, `Write`, `Store`, `NoteGuid`;
a lookup (`get`) shares the first ones; `Touch` is a heartbeat. `SelectFails` and
`StoreFails` are failing statements, as often as `MaxFaults` allows. The limits on
registrations may refuse any registration (`Refuse`). The history variable `trouble`
records that something happened that the properties name as an exception.

### `RelayServers`

`relay_servers0` is the configured list and `relay_servers` the one handed out. `Tick`
is the timer's branch of `io_loop`, which spawns a check of a copy of the configured
list (two servers or more); `CheckEnds` is the end of the check, with whatever servers
it reached; `Receive` takes the next message of the channel, a report (`TakeReport`)
or a list to configure (`Parse`). `SetRelayServers` and `AlwaysUseRelay` are the two
console commands that send one. A name that does not resolve is left out of a parsed
list. `epoch`, `since` and `late` are history: they say whether the list handed out is
the report of a check that began before the list was configured. A list is the set of
its servers; the copies that connections keep, which nothing changes, are left out.

### `RateLimits`

Four limits that share only the clock, in whole seconds as the code's `as_secs()`.
`check_ip_blocker` is one lock: `FirstOfAddress`, `NextOfAddress`, `KnownId`,
`RefuseNewId`; a refusal that changes nothing is no step. `reg_pk` is a field of the
record a registration is given, and the record may be replaced in the map meanwhile: a
task that did not find the id in memory (`Find`, `Seek`) inserts the record it loaded
whatever is there by then (`Adopt`), or a new one if nothing is (`Default`). The count
is `ReadCount` and `WriteCount` on the record of the task, since the code takes two
locks. Whether there is a row is free here (`PeerRegistry`). `Sweep` and `Remove` are
the console's `ip-blocker`. `Attempt` and `RefuseByCap` are logins and audit records,
which share one shape (`api.rs`, `audit.rs`). `LogPunch` is the log of punch hole
requests with its look at the last 30 entries, `ClearPunches` the console's
`punch-requests -`. A restart, which clears every counter, is not modelled. `IP_CHANGES` is only printed and
left out. `admitted`, `burst`, `counted`, `passed`, `tried`, `answer` are history.

### Composition

    AccountStore  ==implements==>  RelayTickets  ==instantiated in==>  RelayServer
    AccountStore  <==extended by==  Wol
    RelayServer, then RelayStream: a pair that was made is relayed
    Rendezvous: introductions; TcpPeers, PeerRegistry, RelayServers, RateLimits: the
    parts of hbbs it calls, each in the detail Rendezvous leaves out

## 3. Model checking

| Run | Checks | Instance | Result |
| --- | --- | --- | --- |
| `AccountStore` | `OnlyRacesOutliveRevocation`, `ImplementsRelayTickets` | 1 name, 2 passwords, 2 tokens, 1 ticket, 2 relay ids, 1 login, 1 ticket request and 1 command at a time, clock to 2 | holds, 675 thousand states |
| `AccountPasswdRace` | `PasswdRevokesSessions` | 1 login, 1 command | violated, see 5 |
| `Wol` | `WolTypeOK`, `LeasedOnce`, `RowsOutliveAccountOnlyByRace`, `JobHasHelper`, `WakesStayInAccount` | 1 account deleted and created again, 2 devices, 2 requests, 2 tokens, clock to 2 | holds, 2.1 million states |
| `RelayServer` | `OneStreamPerTicket`, `AskedAtMostOnce`, `PairedOnBothTickets`, `PlaceLostOnlyByRaceOrReuse`, `WaitingEnds` | 3 connections, 2 tickets, 1 uuid, fair | holds, 542 thousand states |
| `RelayStream` | `TimeoutOnlyIfQuiet`, `IdleEnds`, `ListsTakeEffect`, `UsageOfStreams` | 2 connections of one host, by either form of its address, idle time 4, timer every 2, at most 3 late | holds, 246 thousand states |
| `RelayListsMissHost` | `ListedHostsAreLimited` | 1 connection | violated, see 5 |
| `TcpPeers` | `NothingOutlivesConnections`, `PlaceholderHasHolder`, `SinkNotLost`, `KeepsRegistered` | 1 TCP and 2 WebSocket connections, the latter with one key | holds, 623 thousand states |
| `TcpPeersPutBack` | `PutBackUnlessForgotten` | 2 WebSocket connections, one key | violated, see 5 |
| `Rendezvous` | `TypeOK`, `TicketOfAsker`, `SameRelay`, `RelayReachable`, `AnswerIsUnderWay` | 2 controllers of one address and two accounts, 2 peers, 3 masks, 2 relays (one on hbbs's host), 2 requests, one tick | holds, 3.7 million states |
| `PeerRegistry` | `GuidHasRow`, `MemoryIsStored`, `AckedUuidOwnsId`, `AddrIsRegisteredIp` | 2 tasks, 2 uuids, 2 keys, 1 IP and loopback, 1 failing statement | holds, 731 thousand states |
| `RelayServers` | `CheckNeverEmpties`, `StaleOnlyByLateReport`, `StaleListEnds`, `UpServerReturns` | 3 servers, 1 not down for ever, 3 lists, 2 checks at a time, 2 commands, 2 messages, fair | holds, 89 thousand states |
| `RateLimits` | `TypeOK`, `BurstBounded`, `IdsBounded`, `PerIdBounded`, `AttemptsBounded`, `RefusedForCause`, `PunchLogDedupes` | 1 address with 4 ids, or 1 id with 2 tasks and their records, or 3 addresses with room for 2, or a log of 4 entries with a tail of 2 | holds, 161 thousand states |

The comment above each property says what it states and of which lines. The type
invariant of a module whose run does not list it is a theorem (section 4).

**Why the bounds are enough.** One login, one ticket request and one command at a time
on one name, each begun again and again, give every order of the statements of two
operations; names share no row. `SessionTTL` and `TicketTTL` are 2 and 1 with a clock
of 2: every expiry can be before, at and after every statement, and a ticket expires
before its session. In `Wol` two requests, one delete command and a second life of the
account (`OneRecreation`) are what the properties speak of; the run starts in a
reachable state (`SleeperInit`: logged in, the sleeper polled once and silent since)
so that a wake needs no long prelude. Three connections of one uuid are the two ends
and the retry or the stranger that the properties of the relay are about; other uuids
share nothing. With two tickets, each good for one stream, the third exception of
`PlaceLostOnlyByRaceOrReuse` (three streams of one uuid) is not reached: an instance
with three tickets has 5.4 million states and holds as well, and the theorem covers
every number. In `RelayStream` pairs share `USAGE` and the lists only, so
`OneGrowsOld` lets two run side by side for two seconds with empty lists, which is
enough to insert and remove their entries in every order, and one as long as it likes
with any lists; the idle time is two periods of the timer, and sends may be longer
than it. In `TcpPeers` a key of one connection
and a key of two, with a task each and `io_loop`, give two overlapping sends to one
address and a close in between. In `Rendezvous` two requests from one address, in
either order, of two accounts and for one or two peers, are what a confusion of
controllers takes; each pushed request may be answered any number of times and relayed
once; a mask may hold neither end, one or both, and the list has a relay on hbbs's
host and one elsewhere; with `Ttl` 1 and one tick a session can be fresh or over at
every lookup. In `PeerRegistry` two tasks need at most two records, since a task that
adds one finds the map empty or replaces the entry; `CONSTRAINT OneTrouble` stops at
the second kind of trouble: `MemoryIsStored` and `AckedUuidOwnsId` each name three of
the four kinds as exceptions, so with two kinds they say nothing, and every invariant
of the run is proved without the constraint. In `RelayServers` a check
takes 3 s at most and one begins every 3 s, so two overlap; two commands and lists
that share a server let a report of either old list arrive after either new one, and
two messages hold a report and a command, or two reports, while another check runs.
In `RateLimits` the four limits share nothing but the clock, so `OneLimiter` looks at
one of them at a time, and of the first either at one address with many ids or at one
id with two tasks: two records of the id are all that two tasks can make, and one
replacement is what it takes to reset a count. Limits are 1 or 2, so that every boundary is passed within the
instance, and its clock runs three seconds, more than any of its windows. Every bound
is a constant or a constraint named in the cfg file. Deadlock is not checked: requests
stop when the tokens, tickets, connections or the clock of the instance are used up;
the code's own tasks are blocked by nothing but sends and sleeps.

**Symmetry** is used for model values that the module only compares, in runs without
liveness properties.

**Fairness.** `RelayServer!FairSpec` has weak fairness of each task's own steps from
`KeyMismatch` to `WakeUp`: tokio runs a task that can run, and a sleep of 30 s ends.
Nothing is assumed of clients, the account service or the network.
`RelayServers!FairSpec` has weak fairness of the timer, of the channel and of the end
of each check: `select!` picks among its ready branches at random, and a connection
attempt has a timeout. A send of `io_loop` that blocks for ever would break this
assumption (hazard at `io.rs:33`). Of the network it assumes (strong fairness)
only that a server in `Up` that is tried again and again is reached again and again.

## 4. Proofs

The `*Proofs` modules hold for every number of connections, tasks, requests, tokens
and tickets, every limit and duration and every sharing of addresses. Assumptions are
those named in the modules: `TimeAssumption` (lifetimes and periods are positive),
`LimitAssumption`, `WolAssumption`, `MaxFaultsAssumption`, `ConfigAssumption`,
`BoundAssumption` (constants are of their types), `StartAssumption` (hbbs starts later
than any window is long after the time its records begin with), `FiniteAssumption`
(finitely many addresses, to count them), `AddrOfAssumption`, `AddrAssumption` (who has
an address has one of `Addr`), `MaskAssumption` (a mask is tested on the IP, so
addresses of one IP are in it together), `RelayAssumption` (the list of relays names
hosts as clients outside see them, so hbbs's address inside the mask is not in it, nor
is the empty name), and `NoneAssumption`, `NoConnAssumption`,
`LoopAssumption`, `EntryAssumption`, `NoRefAssumption`, `NoValAssumption`,
`MarkAssumption`, `OffAssumption`, `KeyAssumption` (markers are not values). TLC
evaluates them in the runs of each module.

| Theorem | States | Argument |
| --- | --- | --- |
| `AccountProofs!TypeCorrect` | `TypeOK` | inductive |
| `AccountProofs!RevocationSafe` | `OnlyRacesOutliveRevocation` | `RevocationInv` adds `DeletePastSessions`: a session under a delete command that is past its DELETE of sessions is one that raced. Without it the deletion of the account row would leave a session nobody accounts for |
| `AccountProofs!TicketsRefine` | `ImplementsRelayTickets` | `KeyInv` (tickets and tokens are unique and on record) makes every statement an `Issue`, an `Admit`, a `Lapse` or a stutter; `ShrinkLapses` covers all that only removes sessions or tickets or advances the clock |
| `AccountProofs!TicketsSingleUse` | `RT!SingleUse`, `RT!NoRevival` | from `TicketsRefine` and the steps of `RelayTickets` |
| `AccountProofs!WolTypeCorrect` | `WolTypeOK` | with `ChosenIsDevice`: a helper that was chosen is a device |
| `AccountProofs!WolLeasedOnce` | `LeasedOnce` | `SerialInv`: serials are below `queued` and unique in the table; `LeaseInv` ties what polls hold to what is queued and handed |
| `AccountProofs!WolRowsSafe` | `RowsOutliveAccountOnlyByRace`, `JobHasHelper`, `WakesStayInAccount` | `RowsInv` with `WipedInv` (what a delete command past its statement left has raced), `ChosenInv` (the helper a wake has chosen is another device, whose row stays until its owner's rows are deleted), and `LeasedEra` (what a poll leased was asked for by the account it polls for, or is raced or late) |
| `RelayServerProofs!TypeCorrect` | `TypeOK` | inductive |
| `RelayServerProofs!OneStream` | `OneStreamPerTicket` | `AdmissionInv`: an admitted ticket is no longer live, and two connections whose redemption succeeded, answered or not yet, hold different tickets |
| `RelayServerProofs!RelayUsesTickets` | the relay's `RT!Spec` | every step is one of the store's or leaves its variables; a redemption on the wire has a request (`AdmissionInv`) |
| `RelayServerProofs!PairsOnTickets` | `PairedOnBothTickets` | `PairInv` ties `PEERS` and the pairs to the places of the tasks: who waits sleeps under its own uuid, is in no pair, and has passed; `KeyInv`: who is past the comparison of the licence key has the right one |
| `RelayServerProofs!AsksOnce` | `AskedAtMostOnce` | `AskedInv`: a task at one of its two attempts has not asked the store |
| `RelayServerProofs!PlaceKept` | `PlaceLostOnlyByRaceOrReuse` | an action property, from `PairInv` and `PlaceInv`: while a uuid is neither raced nor used by a third stream, who sleeps is the one in `PEERS`, and whoever is about to park has found nobody there. Then an insert replaces nobody and a task that wakes removes only itself |
| `RelayStreamProofs!TypeCorrect` | `TypeOK` | inductive |
| `RelayStreamProofs!UsageSafe` | `UsageOfStreams` | inductive with the types: a key is the pair's own or a proxied address |
| `RelayStreamProofs!TimeSafe` | `TimeoutOnlyIfQuiet /\ ListsTakeEffect` | `TimeInv`, one part per clock: what `idle`, `due` and `since` say of what waits, of the last send and of the time in each list |
| `RelayStreamProofs!IdleSafe` | `IdleEnds` | an action property, from `TimeInv` |
| `TcpPeersProofs!TypeCorrect` | `TypeOK` | inductive; programs are sequences of sends |
| `TcpPeersProofs!PlaceholdersHeld` | `PlaceholderHasHolder` | only `TakePeerSink` makes a placeholder, only `PutBack` ends a hold |
| `TcpPeersProofs!MapsShrink` | `NothingOutlivesConnections` | `PunchHome` (a sink in `tcp_punch` is at its own address, not owned, its connection open) and `PeersOpen` (an entry has an open connection of its address) |
| `TcpPeersProofs!SinkKept` | `SinkNotLost` | `PunchHome`, `PeersHome`, `HeldHome`: a sink is only ever under, or on its way back to, its own address |
| `TcpPeersProofs!RegisteredKept` | `KeepsRegistered` | an action property, from `EntryKept`: while an address belongs to one connection, a registered one is in `tcp_peers` or its sink is in the hands of a send that left a placeholder, so `is_tcp_peer` finds something |
| `PeerRegistryProofs!RegistryCorrect` | `TypeOK /\ GuidHasRow` | the two are inductive together only: an update keeps `db` a row because a guid means that there is one |
| `PeerRegistryProofs!AddrSafe` | `AddrIsRegisteredIp` | from `RegistryCorrect`: the test of a heartbeat compares with an address that is itself registered or loopback |
| `PeerRegistryProofs!OwnerSafe` | `AckedUuidOwnsId` | `OwnerInv`: once there is a row, every record a pointer leads to is of its uuid, before that there is one record; who compared meets its own uuid or none. With `EmptyMap` (while the map has no record no task has one, and who makes one knows the row) and `SelectedUuid` (a row that was read still names the owner) |
| `PeerRegistryProofs!MemorySafe` | `MemoryIsStored` | `StoreInv`: without overlapping registrations one task stores at a time, and until it has, the record is ahead of the row by exactly its request |
| `RelayServersProofs!TypeCorrect` | `TypeOK` | inductive |
| `RelayServersProofs!ListSafe` | `CheckNeverEmpties /\ StaleOnlyByLateReport` | `ListInv`: a check or a waiting report of the present epoch is of the configured list (`ChecksOfEpoch`, `ReportsOfEpoch`) |
| `RendezvousProofs!TypeCorrect` | `TypeOK` | with `RoutingAsk` (a connection in the handler made a request nothing was done about yet), `JobPushed` (a task has a push that arrived) and `Unused` |
| `RendezvousProofs!TicketsOfAskers` | `TicketOfAsker` | `SessionsOfAsks`: a session in the map is that of the last request for a punch hole of the address for the peer; `TicketInv` carries what was found to the moment the ticket is minted |
| `RendezvousProofs!RelaysReachable` | `RelayReachable` | `PunchHome` (a sink waits under its own address) and `PushReach`: a peer that was sent to the address inside the mask and is not made to relay answers a controller inside it. `PushReach` rests on `MaskAssumption`: one IP, hence `same_intranet`, means one side of the mask |
| `RendezvousProofs!RelaysAgree` | `SameRelay` | `PunchHome` and the cases of `PassedOn` |
| `RendezvousProofs!AnswersUnderWay` | `AnswerIsUnderWay` | `WaitInv`: a sink that was handed over stays under its address until it is used (`EntryWaits`), because on TCP one connection of an address is open at a time (`OneOpen`) and on WebSocket the property excludes those who share; and out of the handler a request of it is with the peer or the task of its answer (`RequestHeld`), for whatever ends that task uses the sink |
| `RateLimitsProofs!TypeCorrect` | `TypeOK`, with the cap on the table of attempts | inductive; cardinalities by the library's theorems |
| `RateLimitsProofs!AddressBounded` | `BurstBounded /\ IdsBounded` | `BurstInv`: the count of the entry, which may be more, is that of the burst but for the first; `IdsInv`: the ids of the last day are those of the entry and at most 301 others and one |
| `RateLimitsProofs!IdBounded` | `PerIdBounded` | `CountInv`: unless two registrations of a record overlap or a lookup replaces it, `reg_pk` of the record in the map, or what the one in flight will write to it, is what the history counts; `TimesInv`: no count is later than the last read; `FirstInv`: before an id has a record there is no count of it |
| `RateLimitsProofs!AttemptsLimited` | `AttemptsBounded /\ RefusedForCause` | `WindowInv`: the passes of the present window are as many as its count, the first at its beginning; those of the last minute before it do not include a first one |
| `RateLimitsProofs!PunchesDedupe` | `PunchLogDedupes` | `PunchInv`: the log is in the order of time, so the latest entry of a pair in the tail (`LatestExists`, by the well-foundedness of finite sets) is the youngest |

The number in each limit is tight where it matters to an operator: the code lets an
address pass 32 times in a burst and with 603 ids in a day, and 19 logins in a minute,
more than the 30, 300 and 10 in the code suggest, and TLC reaches each of these.

Every safety property that a run checks is thus a theorem. `SingleUse` and `NoRevival` of
`RelayTickets` are no property of a run: they say what the refinement, which is one, buys. Only model-checked are the
liveness properties `WaitingEnds`, `StaleListEnds` and `UpServerReturns`, since liveness
under fairness is beyond the installed provers, and the three properties that section 5
shows to be violated. Each inductive invariant was first checked by TLC on the instance
of its module's run.

## 5. Where the code and its documentation disagree

Three runs check what a comment or a document says and find a behaviour of the code
that differs; the counterexamples are short.

1. `PasswdRevokesSessions`: `docs/operations.md` says that `passwd` revokes the
   account's sessions. A login that read the old hash before the command inserts its
   session after it. `OnlyRacesOutliveRevocation` states, and TLAPS proves, that
   this and a command that failed halfway are the only ways.
2. `PutBackUnlessForgotten`: the comment of `send_to_tcp_peer` says that a sink is put
   back unless the connection was forgotten or the address registered again. Two
   sends and two connections of one address make it put a dead sink into the other
   send's placeholder. Addresses must be shared, as WebSocket clients' are.
3. `ListedHostsAreLimited`: `docs/environment-variables.md` says that `blacklist.txt`
   lists IPs that are bandwidth-limited, `blocklist.txt` IPs that are refused, and that
   both can be edited live. A new connection is checked by its address after
   `try_into_v4`, but `relay()` looks up the address as reported: an IPv4 host of plain
   TCP on the default listener is `::ffff:a.b.c.d` there, so a listed `a.b.c.d` is never
   limited, nor cut off when it is put into the blocklist during a stream.
   `ListsTakeEffect` states, and TLAPS proves, what does hold: an address that is
   listed in the form the listener reports takes effect within a period of the timer.

Other behaviours show up as the exceptions that passing properties name:

- `delete` leaves a session row in the same race as `passwd` (unusable unless the name
  is created again before it expires), and wake-on-LAN rows of a request that was
  authorized before it, although `docs/operations.md` says that it also deletes them
  (`raced` in `RowsOutliveAccountOnlyByRace`);
- the result of `update_pk` is dropped (`udp.rs:224`), so that a failed insert is
  answered OK although the comment of `register_pk_result` says that the key is stored
  (an exception of `MemoryIsStored`); two registrations of a new id with two uuids
  that overlap are both told OK (`contested` in `AckedUuidOwnsId`);
- when the relay list is replaced by one of a single server while a check runs, the
  report of that check puts the old servers back for good, since lists of one server
  are not checked (`StaleListEnds` asks for two);
- once a pair is relayed, hbbr's lists are consulted only for the end that came second,
  by its socket's or proxy's address (`ListsTakeEffect` speaks of that address); at
  `accept` the blocklist is asked for every connection, by its socket's address;
- `always-use-relay Y` on the console of hbbs also sends `Y` as a new relay list
  (`console.rs:142`): the name does not resolve, and the configured list is empty until
  it is configured again (`AlwaysUseRelay` in `RelayServers`). The properties of the
  list speak of what is configured, by whatever command, and do not object;
- a lookup of an id that is not in memory may replace the record a registration was
  given, and its `reg_pk` with it: more than three registrations then pass within
  their window (`raced` in `PerIdBounded`, also for registrations that overlap);
- WebSocket clients of one IP have one address: they take each other's place in
  `tcp_punch` (`Shares` in `AnswerIsUnderWay`), and a ticket may be charged to another
  of them that asked for the same peer later (`TicketOfAsker` says "or of a later
  request for the same peer from the same address");
- with a mask, an end inside it is told hbbs's own host as the relay even if the list
  names relays elsewhere, and the other end may be told one of those (`SameRelay`).

## 6. Not modelled

Where an action is coarser than the code and no property depends on it: a heartbeat
(`PeerRegistry!Touch`) looks the record up in the map and locks it in one step;
`AccountStore!Redeem` reads the clock with its statement, not just before it; and
`Rendezvous!PeerAnswers` takes a `RelayResponse` without a uuid to name no relay server
either, as clients send it (hbbs would rewrite one that is named, as in `Forward`).

The components marked so above; the cryptography; what a message says beyond its
address, uuid, ticket, key and relay; the bytes relayed, their rates and the downgrade
by volume; what clients do with an answer; a restart of openuu-account, which loses
only its counters. A reader should not conclude anything about them from these runs.
Hazards without a property are listed in `PROJECT.json` with the reason.

## 7. Plan

Done: `RelayTickets`, `AccountStore`, `Wol`, `RelayServer`, `RelayStream`, `TcpPeers`,
`Rendezvous`, `PeerRegistry`, `RelayServers`, `RateLimits`, with proofs of every safety
property. What would come next:

1. `Rendezvous` composed with `TcpPeers`, so that a controller may also register on
   the connection it asks on.
2. The secure handshake, as the order of offer, first message and replies; the online
   query as a pure function.
3. The downgrade and the limiters of `RelayStream`.
