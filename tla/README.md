# A TLA+ model of remote-docker-agent

This directory holds specifications of the concurrent and fault-tolerant parts
of this repository, the TLC configurations that check them on small instances,
and proofs of their main invariants for every instance, checked by TLAPS.
Paths below are relative to the repository; lines are those of the commit the
model was written from. `PROJECT.json` lists, for each definition, the lines it
translates, and for each property a change to the code that would break it.

Contents: [the system](#1-the-system) · [hazards](#2-what-is-hard-here) ·
[modules](#3-the-modules) · [runs](#4-the-runs) · [fairness](#5-fairness) ·
[proofs](#6-proofs) · [disagreements](#7-where-code-and-text-disagree) ·
[left out](#8-what-is-not-modelled) · [plan](#9-plan)

## 1. The system

`tsctl start` runs a daemon on the developer's machine. It listens on a TCP
address, forwards the Docker API to a remote engine, and watches the requests go
by: a container's published ports become mutagen *forwarding* sessions, its bind
mounts mutagen *synchronization* sessions. The remote side is reached through a
connector and a guest agent, over which mutagen's own agents run.

    docker CLI --> DockerAPIProxy --(TLS / SSH)--> Docker engine
                     |        |
        PortForwardManager  FileSyncManager  --> mutagen session managers
                                                   | ts-tunnel protocol handlers
                                                   v
                                    tsctl host-exec --> connector --> guest --> agent

| component | state | operations | interacts with |
|---|---|---|---|
| Docker API proxy (`pkg/docker-proxy`) | accept loop, open connections, `wg`, goroutines of start/stop/remove/wait requests | accept, create, start, stop, remove, wait, upgrade; boot scan; Close | both managers, by calls; the engine, by HTTP |
| port-forward and file-sync managers (`mutagen-bridge`) | two maps (by request, by container) behind one mutex each | Store…Start/End/ForContainer, Setup…, Teardown…, TeardownAll, ListSessions | mutagen, by calls made while the mutex is held |
| daemon lock, start, stop (`pkg/daemon`, `pkg/tsctl`) | `daemon.pid` and its lock, the terminate file, a watcher goroutine | start, stop, release | each other, through the two files |
| auth commands (`pkg/tsctl/auth`) | `auth.json` | login, switch-org, logout, background refresh | each other, through the file; the identity provider |
| guest agent (`pkg/guest`) | process registry: two maps behind a mutex | run a command, shut down | host-exec, by an upgraded connection |
| stream relays (`pkg/utils/copy.go`, proxy, connector, host-exec, guest) | two copying goroutines per connection | copy, half-close, return | chained to each other |
| ts-tunnel protocol handlers (`pkg/ts-tunnel/*-protocol`) | a dialing goroutine per Connect | Connect, cancel | mutagen's session controllers |
| host-exec (`pkg/tsctl/host_exec.go`) | one process per dial | connect, ask, copy, exit | the protocol handler that started it; connector or guest |
| connector (`pkg/connector`) | accept loop, `wg`, pool of database connections | accept, authorize, route, Stop | clients, guests, PostgreSQL |
| id labels, URLs, TLS and SSH set-up, directories | none | codecs and I/O | |

What makes each correct:

* **managers**: no session without an entry a later teardown finds it by; a job
  that holds the mutex owns its containers' entries; nothing is forgotten
  silently.
* **proxy**: a running container has the sessions it asked for, a stopped one
  has none, however the goroutines of its requests overtake each other; the boot
  scan restores that after a crash; Close ends and leaves no session behind;
  request entries are given back.
* **daemon lock**: one daemon serves; the file names it; it ends when, and only
  when, a stop meant it.
* **auth**: tokens and organization belong together; the last login or logout
  stands; refreshed tokens are not replaced by spent ones; the file can be read.
* **guest**: shutdown ends, and leaves no process of its own running; handlers
  give back what they registered.
* **relays**: nothing written is missing before the end of a stream; the end of
  a stream gets through; relays return.
* **protocol handlers and host-exec**: a cancelled Connect leaves no stream open,
  no process running, and no connection open in the guest.
* **connector**: nobody is routed whom the tables did not let in, or to where the
  host is not; nothing is routed once Stop has begun; Stop ends, and tells the
  truth about how.

## 2. What is hard here

The code is tested by hand, and what is hard to test in it is almost all
concurrency: goroutines started per answered request that take two mutexes in
turn; checks made against the engine before a mutex is taken; a process boundary
(crash, restart) between two mutagen calls; files shared without a lock;
half-closed streams. `PROJECT.json` lists each hazard with its line and the
properties that cover it, or why none does yet.

## 3. The modules

| module | models | used by |
|---|---|---|
| `SessionLedger` | abstract: what a session manager promises | `BridgeManager` (refinement) |
| `BridgeManager` | one session manager: maps, mutex, mutagen calls | `DockerProxy`, twice; `MCBridgeManager` |
| `DockerProxy` | the proxy over two managers and the engine | `MCDockerProxy` |
| `DaemonLock` | start, stop and their two files | |
| `AuthStore` | auth commands, the refresh goroutine, `auth.json` | |
| `StreamRelay` | a chain of relaying hops | `MCStreamRelay` |
| `TunnelDial` | Connect and its goroutine | `HostExec` |
| `GuestRegistry` | guest handlers and shutdown | `HostExec` |
| `HostExec` | calls of Connect end to end: the two above and the process between | |
| `Connector` | accept loop, handlers and queries, Stop | `MCConnector` |
| `*Proofs` | theorems about the module they are named after; those about `TunnelDial` and `GuestRegistry` are in `HostExecProofs` | |
| `ProxySessionProofs` | theorems about sessions in `DockerProxy`; which thread may be where, on which they rest, is shown in `DockerProxyProofs` | |

Definitions commented as "a variant the runs must reject" are not part of any
specification: each is an operation with a plausible mistake, kept to show that
a property notices it.

### SessionLedger and BridgeManager

Port-forward and file-sync managers have the same structure, so one module
serves for both; its `Items` are port bindings or host paths. `pending` is
`m.containers`, `stored` is `m.containerPorts` / `m.containerMounts`, `live` is
mutagen's own list, counted by label and item, which outlives the daemon because
mutagen saves sessions to disk. The mutex is `job`: a setup or teardown holds it
from its first step to its last, and the mutagen calls between are separate
steps, since the other operations and a restart may come between them (`Restart`
is the daemon's death and the new daemon's empty maps). `stray` is a history
variable: the containers whose sessions were left behind knowingly, by a failed
Terminate, which the code only logs, or by a restart.

`SessionLedger` says what that amounts to: a container is unknown, tracked or
closing; sessions are opened for tracked ones only; a container leaves tracking
only through a closing phase that ends its sessions or records it as stray.
`Phase` is the refinement mapping.

### DockerProxy

A *thread* is a request, the setup goroutine the boot scan starts for a
container, the boot scan itself, the accept loop, or the closer (the main
goroutine in `Close`). `pc[t]` says what it does next. The handler of a
request's connection, while it is about this request, and the goroutine it
starts for it never run at the same time on the same data, so they share a
thread: the request leaves `wg` when the handler is through with it, and the
thread goes on as the goroutine. The handler then either returns (`Returns`) or
goes round its loop to `http.ReadRequest` (`Through`): such handlers are counted
in `between`, Close waits for them too, and the next request on one of their
connections takes its place (`ReadNext`). Which connection it was is not kept:
what a handler does with a request does not depend on the requests before it.
Each acquisition of a manager's mutex and each exchange with Docker is one step;
what lies between two of them is local.

| label | code |
|---|---|
| `mounts`, `sending`, `created`/`refused`, `endFS` | `handleContainerCreateRequest`, the exchange, `handleContainerCreateResponse` |
| `check`, `setupPF` … `settingFS` | `setupSessionsIfRunning` |
| `unknown` | the answer to a wait that named no container, its deferred teardown to come |
| `resolve`, `tearPF` … `tearingFS` | `teardownForContainer` |
| `removing` | between `handleContainerOperation`, which resolves names, and the answer |
| `waiting`, `inspect` | the wait's answer being copied, the deferred `isContainerStopped` |
| `accept`, `add`, `stale` | the accept loop in `Accept`; between `Accept` and `wg.Add`; between its look at `stopCh` and `p.listener` |
| `accepted` | a connection that was accepted and is not counted by `wg` yet |
| `list`, `listPF`, `listFS`, `sweep`, `storePF`, `storeFS` | `syncWithRunningContainers` |
| `up`, `draining`, `exit`, `died` | before `Close`, `wg.Wait`, after `TeardownAll`, after a panic |

The engine is external: `docker` gives each container's state, `Target` what an
id or name designates now. A name is free again when its container is removed.
`Fault` covers exchanges and mutagen calls that fail, each handled the way the
code handles it: isContainerRunning false, isContainerStopped false, a failed
ListSessions an empty list, a failed Terminate logged.

The accept loop matters where Close meets it. A connection accepted as Close
begins is counted when Close may have stopped waiting; the loop may have seen
`stopCh` open and read `p.listener` after Close set it to nil, which panics. A
panic in any goroutine ends the process (`Dies`): nothing recovers.

Which clients there are is a parameter: each of the `Environments` says which
kinds of requests and irregularities it `allows`, how many `requests` there are
and how often (`most`) containers restart or exit, exchanges fail and the daemon
crashes. `env` holds the one a behaviour is in and what it has used up, so one
run explores several. An environment is regular (creates, starts by id, stops,
removes, waits by id) unless it adds an irregularity: starts by name
("startByName"), waits by a short id or a hexadecimal name ("waitByName"), waits
answered for a container not started ("waitUnstarted"), connections that carry
another request after an answer ("keepalive"), or whose first request comes later
than they, so that Close may begin before they are counted ("late"), Close
("close"), also during the boot scan ("closeDuringBoot"),
clients that know a container before its create was answered ("early"), clients
during the boot scan ("duringBoot"), containers that exit while nobody waits for
them ("unattended"). A property names what it does not hold under with `Without`
(irregularities) and `NoneOf` (what the environment has done), because there the
code does not keep it; section 7 says what happens instead.

`Rank` only names requests: of two with different ranks the lower comes first,
which is how `Recovery`, where liveness rules symmetry out, avoids checking
every renaming of the same behaviour; with equal ranks the requests are
interchangeable and symmetric.

### DaemonLock

A daemon is its pid; pids are not reused. A file is the sequence of pids written
to it: the lock file is opened for appending by mutagen's locker (external; the
code's Truncate on release and Write on acquire fit that reading), so after a
kill the next pid lands behind the old one. `Truncate` and `Unlock` are two
steps in the order of `Release`. os.WriteFile on the terminate file is an open
that truncates and a write; `linked` says whether the writer's descriptor is
still on the file of that name, because the daemon removes the file. `watch` is
the watcher goroutine: events, the comparison with its own pid, the
notification. The proxy's Close is the single step `Closed`, assumed to return
(`DockerProxy` is about whether it does).

### AuthStore

A login is named by the command that did it, its tokens by how often they were
refreshed, an organization by the user it was offered to: what the properties
tell apart. `last` is the last login or logout. `os.WriteFile` is again two steps
with descriptors (`open`), since two writers can leave a mixture and a third
process can find an empty file.
`rpc` is the goroutine of `refreshTokenAsync`; it dies with its process (`Ends`).
The identity provider is external: a refresh may succeed or fail, and each
refresh makes the next generation of tokens. `overlap` is a history variable: it
says that some command was started while another one ran, and lets `LastStands`
be stated for the sequences of commands in which it holds.

### StreamRelay

A chain of hops between a user and a command, each with two io.Copy goroutines;
the hops differ in what they do when one of these ends. `chain` holds their kinds
and is chosen at the start among `Chains`. Five occur in the system: docker attach
from the proxy to the engine, directly and through the connector; host-exec to a
guest, over TLS and over plain TCP; and host-exec through the connector, which
speaks TLS. The proxy's and host-exec's hop can only be the first
(`ChainsAssumption`). host-exec copies nothing before it has read the guest's 101
(`asking`), and it reads that through a bufio.Reader which it then drops: over
plain TCP any part of what has arrived by then may have gone into the reader, and
is counted in `missed`. Over TLS a read ends with the record of the answer, which
the guest flushes by itself. Pipes hold `Cap` units and know whether they were
closed by their writer or abandoned by their reader. The content of the stream is
a count: the properties are about prefixes.

### TunnelDial

Both protocol handlers have the same Connect; a call has a main part and a
dialing goroutine, an unbuffered channel between them, and a context either may
find done. Both selects are free to take either ready branch.

### GuestRegistry

A handler, its process and its connection share a name. The handler's steps are
those of `runCommand`; the registry's mutex is held by TerminateAll from its
first line to its last (`MuFree`). The waiter goroutine ranges over the map
itself: after the timeout it does so without the mutex, and a handler that
removes its entry meanwhile ends the program, as Go's maps do (`MapRace`).
`victims` is a history variable: what was registered when TerminateAll took the
mutex.

### HostExec

A call of Connect starts a `tsctl host-exec` process, which connects, sends its
request and copies; the guest's handler, process and connection are named by the
call. `exec` follows the process: `connecting`, `asking`, `copying`, `exited`,
and `left` when it is gone while its request is still on its way, so that the
guest may yet take it. A dial succeeds only when the agent behind all this has
answered the handshake. Closing a stream ends the process, and the guest learns
of that through its connection. Other clients of the same guest are `Others`;
they register, end and are terminated alike. What either part does alone is a
step of its own module, conjoined with the rest unchanged.

### Connector

A connection and its handler share a name. A handler asks up to three questions
of the tables: the host's row, to authorize; the teams the row listed; the row
again, for the address. Each is a query of its own, holding one of `PoolSize`
pooled connections, and others change the tables at any time (`ChangeHost`,
`ChangeTeam`). Who a certificate names and what a row says are constants.
`Ends` is every way for a handler to give up: a handshake, query, read, dial or
relay that fails or ends, or a context that is done. Stop cancels, closes the
listener, waits for `wg` or for 30 seconds, and closes the pool, which waits for
queries under way; then the process is gone. `rowsSince` and `teamsSince` are
history: what the tables said since a handler's handshake; `late` are the
handlers that still had a query to begin when Stop began.

## 4. The runs

`pass` runs finish without an error; the four `violation` runs exhibit one
disagreement each (section 7). Deadlock is checked only for `MCBridgeManager`:
elsewhere the system may stop, when every request was made.

| run | what it lets happen | shows |
|---|---|---|
| `MCBridgeManager` | two containers of two items, any operation in any order, failures, restarts | a job owns its containers' entries; sessions are tracked; the manager implements `SessionLedger` |
| `Lifecycle` | one container, four environments: five requests and Close (`Orderly`); three clients that hurry, and a fault (`Hurried`); a crash, a restart, a connection accepted as Close begins, and Close (`Crashing`); several requests on a connection, waits by name, an exit nobody sees, a fault and Close (`KeepAlive`) | sessions follow the container's state, entries are given back, one sync per mount, Close leaves nothing; both managers are driven only as `BridgeManager` allows |
| `Recovery` | a crash and an exit somebody waits for, with four requests (`Recovering`), or three, on connections that are late or carry several, and Close at any point (`Shutting`); fair | the boot scan sweeps what is stopped and serves what runs; the end of an awaited container ends its sessions; no goroutine starves; Close ends unless all it waits for waits itself |
| `Daemon` | two daemons, killed or not, two stops at any time; fair | the last pid in the file is the serving daemon's; no daemon ends on another's stop; a stop that names one daemon ends it |
| `Auth` | three commands, overlapping or not, with refreshes | tokens and organization always belong together; without overlap the last login or logout stands |
| `Relays` | the five chains that occur; fair | no output of host-exec is lost but what came with the 101 over plain TCP, no prefix of the input is taken for all of it, hops return once both ends are done (an attached one with either), the guest passes the end of the output on while input stays open |
| `HostExec` | a call, another client, cancellation, failures and a shutdown at any point; fair | no stream without an owner; cancelling lets go of everything up to the guest; shutdown ends, and ends what was registered; handlers give entries back |
| `Connector` | connections of users of two organizations to one host, one pooled connection, two changes of the tables, Stop at any point; fair | nobody is routed whom the tables did not let in, to an address the host did not have, or to another organization's unless the host moved meanwhile; nothing is routed late; "closed gracefully" is true; Stop ends |
| `StartAgain` | a stopped container is started again | refutes `RunningIsServed` |
| `CloseDies` | Close while the accept loop goes round | refutes `CloseIsGraceful` |
| `RefreshOverwrites` | a login during a refresh | refutes `RefreshesItsOwn` |
| `AttachTruncated` | the user of an attached connection closes its input | refutes `OutputComplete` |

**Bounds.** Two containers of two items are enough for a manager because a job
works on one container (or all) and treats its items alike; `MaxSessions` makes a
duplicate visible (2), and leaves room for the duplicates that `Hurried` clients
cause (4 in `Lifecycle`). In the proxy, three to five requests let every pair of
start, stop, remove and wait overlap after a create. One container is used,
because a step concerns one container and what keeps two apart is
`JobOwnsEntries`, which is proved for any number of them; one port and one mount
suffice to tell "first manager done, second not yet". Restarts, exits, faults and
crashes are at most one in an environment, and zero where its question excludes
them: each acts through one occurrence. Two daemons and two stops give a
predecessor and a successor, and a stop that interferes with another. Three auth
commands are a login, a switch and a login or logout against it; `MaxGen = 1` is
the one refresh that makes tokens old. Three units of data through pipes of two
make every buffer of a chain of three hops fill and drain. In `HostExec` a call
and another client of the guest are two handlers, enough for one to be registered
while the other is not; calls share nothing but the guest. In `Connector` two
connections compete for one pooled connection, and two changes can each fall
between two queries of one handler. Symmetry (requests, and the containers and
items of the manager) is used only for invariants and step properties, never with
liveness.

Some properties hold in a run only because of what its environment leaves out,
and the property says so. `RunningIsServed` needs clients that start by id, no
restart of a container, no wait answered early; `StoppedIsClean` needs the exit
to be requested or waited for, by full id; `SingleSync` and `CloseLeavesNothing`
need a boot scan that is over, and `SingleSync` one whose ListSessions did not
fail after a crash. `WaitCleansUp` and `ListedHasSession` promise nothing once a
call to mutagen or the engine has failed, or a start overlapped the boot scan.
`CloseLeavesNothing` also leaves out environments that are both "late" and
"keepalive" (section 7), and `ExecOutputComplete` counts in what a plain
connection has missed. `RunningIsServed` and `StoppedIsClean` are stated of
containers with distinct names (`DistinctNames`). `CloseLeavesNothing` does hold
although Close waits neither for setup goroutines nor for a connection accepted
too late that carries one request, because TeardownAll deletes the entries they
would need. `StopEndsDaemon` needs a file that names one daemon, a daemon that
watches, and no second stop between its open and its write; `LastStands` needs
commands that do not overlap.

## 5. Fairness

Weak fairness, of the steps of each goroutine separately, and only where the
code is about to do something by itself: goroutines are scheduled, mutexes are
handed on, mutagen and Docker answer or fail. Weak fairness suffices for the
mutexes because a Go mutex in starvation mode is handed to the longest waiter
and, in the runs with liveness, only finitely many holders compete. Nothing is
assumed of clients, users, containers, processes (which may ignore SIGINT),
crashes, or cancellations. In `Recovery` the crash is bounded, and what must
happen may happen in the next daemon. In `StreamRelay` the user reads what it is
sent and the command reads its input; a command ends only if the run says it does
so at the end of its input. In `DaemonLock` the proxy's Close returns, and a stop
that opened the terminate file writes it. In `Connector` a query ends, because
the code gives each 30 seconds, and Stop's wait does for the same reason; clients
and backends owe nothing. In `HostExec` a dial ends, which is an assumption about
mutagen (its handshake fails when the process is gone), and a process that
connects or asks is answered or fails; an agent may run on though its client is
gone.

## 6. Proofs

For every value of the constants that the named assumptions admit, TLAPS checks:

| theorem | says | inductive invariant |
|---|---|---|
| `BridgeManagerProofs!TypeCorrect` | the manager's type invariant | itself |
| `…!EntriesOwned` | `Spec => []JobOwnsEntries` | `TypeOK /\ JobOwnsEntries /\ SessionsTracked` |
| `…!AllTracked` | `Spec => []SessionsTracked` | the same |
| `…!Refinement` | `Spec => Ledger!Spec` under `Phase` | the same, before and after a step |
| `DockerProxyProofs!PortsOnlyManaged` | `Spec => PF!Spec` | `Placed` |
| `…!MountsOnlyManaged` | `Spec => FS!Spec` | `Placed` |
| `…!Released` | `Spec => []PendingReleased` | `Placed /\ EnvOK /\ PendingOwed` |
| `…!ProxyTracks` | `Spec => []` of both managers' `JobOwnsEntries`, `SessionsTracked` | the managers' |
| `…!TypeCorrect` | the proxy's type invariant | `Placed`, the managers' `TypeOK`, `RestOK`, `Within` |
| `ProxySessionProofs!NothingLeft` | `Spec => []CloseLeavesNothing` | `CloseInv`, see below |
| `…!OneSync` | `Spec => []SingleSync` | `SyncInv` and `CloseInv` |
| `…!AllClean` | `Spec => []StoppedIsClean` | `ServeInv`, `SyncInv` and `CloseInv`, see below |
| `…!AllServed` | `Spec => [](NoneOf({"restarts"}) => RunningIsServed)` | the same |
| `…!MutexesHeld` | a mutex is taken exactly when one thread is at work with its manager | `Holders`, `SyncInv` and `CloseInv` |
| `DaemonLockProofs!ServingNamed` | `Spec => []ServingIsNamed` | `IInv`, see below |
| `…!ToldNamed` | `Spec => []ToldByName` | the same |
| `AuthStoreProofs!OneUser` | `Spec => []OrgOfUser` | `IInv`, see below |
| `…!LastKept` | `Spec => []LastStands` | `IInv` and `Serial` |
| `StreamRelayProofs!InputWhole` | `Spec => []InputComplete` | `IInv`, see below |
| `…!OutputWhole` | `Spec => []ExecOutputComplete` | the same |
| `HostExecProofs!Owned` | `Spec => []StreamOwned` | `TypeOK` of the tunnel, and `StreamOwned` |
| `…!VictimsGone` | `Spec => []VictimsEnd` | `GuestInv` |
| `ConnectorProofs!GracefulIsQuiet` | `Spec => []GracefulMeansQuiet` | `Counted` |
| `…!NoneRoutedLate` | `Spec => []LateAreRefused` | `LateInv` |
| `…!Allowed` | `Spec => []RoutedAsAllowed` | `RouteInv` |

*Manager.* `SessionsTracked` alone is not inductive: a setup about to create a
session must know its container still has an entry, which is what
`JobOwnsEntries` says (`job.todo \subseteq stored[c]`), and that follows from
every operation on the maps needing the mutex. Assumptions: the empty id is no
container, `MaxSessions > 0`. The refinement maps each operation to one ledger
action; storing a request's entry and starting a setup are stutters.

*Proxy.* That a step of the proxy is a step of each manager, or none, needs that
a thread about to call a manager has a container to call it with (`Given`): a
request has looked it up, and one whose name did not resolve went home. `Placed`
is that with the types of `pc`, `arg` and the scan's list. With these two
theorems what is proved of `BridgeManager` holds of both managers in the proxy,
however its goroutines overlap: `ProxyTracks` takes the theorems of
`BridgeManagerProofs` over through an INSTANCE with the proxy's variables.
`PendingOwed` follows an entry from the request to the answer: a pending entry
is that of a handler that is yet to give it up, unless an exchange was lost.

*Sessions in the proxy.* `CloseLeavesNothing` is true for reasons that are
spread over the code, and `CloseInv` names them: the accept loop holds at most
one connection that it has not counted (`Accepting`); every other handler is in
`wg`, or counted in `between` (`Counted`), so when Close has found both empty at
most one connection can still come, and none unless connections are late, in
which case it carries one request; the thread between a manager's begin and end
is the one whose container the job names (`PortsHeld`, `MountsHeld`); a
container is created before anybody sets it up (`Existing`). TeardownAll then
leaves no entry from which anybody could set up (`NoEntries`), and so no session
(`NoSessions`). Each group of steps is summarised by an effect (`RequestEffect`,
`ManagerEffect`, `BootEffect`), from which the preservation lemmas go on. For
`SingleSync`, `SyncInv` says that until the boot scan and its goroutines are
through no request gets further than an open connection (`Scanning`); that
nobody sets a container up, and it has no sync, before its first start
(`AfterStart`); and then, under the property's own conditions, that there is one
setup per container (`Alone`) and what it is yet to create is not there
(`Fresh`). The condition on faults and crashes is needed at one step: a
ListSessions that fails is harmless in the first daemon, where nothing was set
up yet.

*Daemon lock.* `ServingIsNamed` needs `HolderHolds`: exactly the daemons between
`Acquire` and `Unlock` hold the lock, so that the one that truncates the file is
the one whose pid is last in it. `ToldByName` needs that whatever the terminate
file contains was read by some stop (`TerminateWasRead`), and so was what a
watcher found in it (`ToldWasRead`).

*Auth store.* `OrgOfUser` is about the file, but what is written was in
somebody's memory before: the invariant adds that both the command's and the
goroutine's data are `Own` (`MemoryOwn`), and that both are there whenever they
are about to be written (`Loaded`). The refresh is the delicate one: it pairs
tokens it got with an organization it read, which is right because it compared
their logins first. For `LastStands`, `Serial` says that while no two commands
have overlapped every command but one has not begun or has ended with its
goroutine, and that what that one may still write is of the last login
(`HoldsLast`).

*Relays.* How many units passed each point of the chain is no variable of the
model: the invariant says that there are counts `f` (up) and `g` (down) with
which every pipe holds what went in and did not come out, from what was sent at
one end to what was got at the other; what a plain client has missed counts as
come past it, and `MissedPlain` says that nobody else misses anything. A sum
over the chain would need induction; a function that exists needs none.
`InputEnds` says, of a command that still runs, that a pipe has ended, or was
given up, or a copier has stopped, only where all of the input has come through
(`AllIn`); `OutputEnds` says the same downwards of chains without an attached
connection. `OutputKept` links the directions: a hop gives its output pipe up
only when it returns. That nothing is missing before a point where nothing is
missing follows from the counts, which only fall along the chain.

*Host-exec and guest.* `VictimsEnd` is about the end of the shutdown; `Progress`
follows it through its phases (while the mutex is held the registry is what it
was; what the waiter is through with is dead), and `Started` says that a
registered handler has a process and a connection that do not come back to life.
Both invariants are shown of the composition, whose steps are steps of the two
parts.

*Connector.* Each of the three goes with the type invariant. `Counted`: every
handler at work is in `wg`, and the accept loop is, as long as it runs or holds a
connection it has not counted, so `wg` is empty only when nothing is to come.
`LateInv`: a late handler is not routed and has no query for the address under
way, and after Cancel none begins. `RouteInv`: what a handler concluded from an
answer holds of some entry of its history, and goes on to hold because histories
only grow. What it takes from two answers may be of two entries; where all have
one organization, that of the entry which let the user in is that of the other.

Only model-checked: the liveness properties, since fairness and ENABLED are out of
the prover's reach. They are `EveryThreadFinishes`, `WaitCleansUp`,
`ListedHasSession`, `ShutdownCompletes`, `StopEndsDaemon`, `AllHopsReturn`,
`OutputEndPassedOn`, `CancelCleansUp`, `ShutdownEnds`, `HandlerEnds`,
`CancelReachesGuest` and `StopEnds`. Every safety invariant and step property of
the passing runs is stated by a theorem.

## 7. Where code and text disagree

Four statements of the repository are refuted by a run each; the counterexample
is a sequence of legal steps.

| run | statement | what happens |
|---|---|---|
| `StartAgain` | README.md:275: forwards are created at container start | the stop deleted the bindings; the container's next start finds none and sets nothing up |
| `CloseDies` | proxy.go:511: "Close gracefully shuts down the proxy" | the accept loop reads `p.listener` (proxy.go:133) without synchronization with `p.listener = nil` (proxy.go:517); if it finds nil it panics, and the process ends with sessions left |
| `RefreshOverwrites` | command-switch-org.go:162: "prevent overwriting newer auth" | a login between the refresh's comparison and its write is lost |
| `AttachTruncated` | README.md:119: attach is proxied transparently | a client that closes its input first loses the rest of the output |

The models show further limits of the code, which no run is devoted to: they are
what the conditions of the properties leave out. For those of the proxy the
irregularity or bound is given in parentheses: with it in an environment of
`Lifecycle` or `Recovery`, and out of the property's `Without` or `NoneOf`, TLC
shows them.

* `docker start NAME` does not match containerStartPattern: no sessions
  ("startByName").
* `docker wait` with a short id tears nothing down, since the deferred teardown
  takes what the client wrote for a full id (proxy.go:226); with an odd number of
  digits compressContainerID panics (container-id.go:13) and ends the daemon,
  also when there is no such container and the wait is answered with an error
  ("waitByName").
* A start whose answer is lost sets nothing up, though the container runs
  (proxy.go:194-198; `faults`).
* A connection counted after Close's wg.Wait (proxy.go:145) and kept alive
  (proxy.go:262) may create a container and then start it when the port manager's
  TeardownAll is over: its forwards are left to the next boot scan ("late" with
  "keepalive", `CloseLeavesNothing`).
* A wait answered before the container's start tears down the bindings the start
  needs ("waitUnstarted"); one answered on an exit may tear down what a restart
  between isContainerStopped and the teardown has set up (`exits`, `restarts`).
* A container that ends by itself, with nobody waiting, keeps its sessions, and
  gets a second sync of the same path when it is started again ("unattended",
  `exits`, `restarts`).
* The name of a stop is resolved after the answer, when it may designate another
  container (two containers of one name).
* A start during the boot scan may set a container up beside the scan's own
  goroutine, and create its syncs twice ("duringBoot", `SingleSync`); that
  goroutine may also set up what TeardownAll has torn down ("closeDuringBoot",
  `CloseLeavesNothing`). A crash between two sessions of a container: the scan
  takes one session for all. A ListSessions of the scan that fails after a crash
  hides what is set up, and a second sync is created (`faults` with `crashes`,
  `SingleSync`).
* Close waits without limit for a handler whose client or container takes its
  time: `HeldUp` in `ShutdownCompletes`.
* A killed daemon's pid stays in front of its successor's, and a stop reads
  neither; a stop between the writing of the pid and the watcher, or one whose
  file a second stop overwrites, is lost.
* A refresh and a selection of the same command may each write back what the
  other has replaced; the end of the process between truncation and write leaves
  a file that cannot be parsed.
* host-exec to a guest over plain TCP loses the output that came with the 101,
  since it is read through a bufio.Reader (host_exec.go:149-150) and the rest
  copied from the connection (host_exec.go:168): `OutputComplete` fails on the
  chain <<"plain", "server">>.
* The guest does not pass the end of the input on to the command, and the
  connector passes on neither end: a command that reads to the end of its input
  waits until its client is gone, and the connector's relay (http_router.go:91)
  stays as long as one of its sides is silent. Attached through it, a user who
  hangs up leaves the relay waiting for the engine, and one who does not is not
  told that the output has ended.
* A process started and not yet registered when the guest shuts down survives it.
  A handler that gives its entry back while the waiter still ranges over the map
  ends the guest on the spot (`MapRace`), in the middle of server.Shutdown.
* The connector reads the host's row twice: a user may be let in by one version
  of it and sent to the address of another (`RoutedAsAllowed` asks that each
  held since the handshake, not both at once). If the host moves from one
  organization to another in between, a user of the first reaches it at the
  address it has in the second (or the other way round), where
  pkg/connector/README.md:203 says that users can only access hosts in their own
  organization. An address that cannot be split is logged, and the connector's
  own machine dialed (`Backend`, proxy.go:190). Stop ends the process under
  relays that take longer than 30 seconds.

## 8. What is not modelled

* Data: bodies, headers, ignore lists, URLs, permissions, endpoints; the choice
  of commands the guest allows; token formats; certificates and SQL. Ids are
  names. The label codec (`container-id.go`) is modelled by what it does to an id
  (full ones come back as they were, others find nothing or panic): it is
  hexadecimal and base64 of the library and a replacement of three characters.
* Which answers keep a connection open (`shouldCloseConnection`): an environment
  leaves that to choice, or rules it out. A connection that is kept and never used
  again only makes Close wait.
* Two containers of one name: `DockerProxy` allows them, but no run has them, and
  the two properties that a stop by name can break leave them out.
* Unsynchronized memory: `p.tlsConfig`, which every dial of every connection
  handler reads and may replace (proxy.go:270-272).
* I/O without state of its own: SSH, TLS, configuration of the connector, remote
  mount directories (best effort), agent transport, command line splitting
  (third-party), entry points.

## 9. Plan

Most important behaviour first. Done, each with its run and its proofs:
`SessionLedger` and `BridgeManager`; `DockerProxy`, with the accept loop;
`DaemonLock`; `AuthStore`; `StreamRelay`; `TunnelDial`, `GuestRegistry` and
`HostExec` over them; `Connector`.

What is left:

1. Two containers of one name, for the name of a stop that moves on.
2. The label codec against its inverse, for ids of every length.
