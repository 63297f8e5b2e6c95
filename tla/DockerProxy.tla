----------------------------- MODULE DockerProxy -----------------------------
(***************************************************************************)
(* The Docker API proxy (pkg/docker-proxy): connection handlers that watch *)
(* create, start, stop, remove and wait requests go by, the goroutines     *)
(* they leave behind, the boot scan of running containers, Close, and a    *)
(* crash of the daemon; over the remote Docker engine and two instances of *)
(* BridgeManager, PF for port forwards and FS for file syncs.              *)
(*                                                                         *)
(* A thread is a request (the handler of its connection, as long as it is  *)
(* about this request, then the goroutine the handler started), the setup  *)
(* goroutine the boot scan starts for a container (named by it), the boot  *)
(* scan, or the closer.  pc[t] names the next thing t does; every          *)
(* acquisition of a manager's mutex and every exchange with Docker is a    *)
(* step of its own.                                                        *)
(***************************************************************************)
EXTENDS Naturals, FiniteSets

CONSTANTS
  Containers,  (* full container ids, each created at most once            *)
  Requests,    (* the requests of all clients, on connections of their own *)
               (* or one after the other on the same                       *)
  Rank,        (* of two requests with different ranks, the lower comes    *)
               (* first: names for requests, not a restriction             *)
  Names,       (* container names and short ids                            *)
  NameOf,      (* the name a container is created with                     *)
  Ports,       (* port bindings a create asks for                          *)
  Mounts,      (* host paths a create asks to bind                         *)
  Boot,        (* the thread of syncWithRunningContainers                  *)
  Closer,      (* the main goroutine, once it calls Close                  *)
  None,        (* the empty container id                                   *)
  Listener,    (* the goroutine of ListenAndServe                          *)
  Environments,(* what clients and the network may do, see below           *)
  MaxSessions  (* bound: sessions with one label and item                  *)

ASSUME NamesAssumption ==
  /\ NameOf \in [Containers -> Names]
  /\ Containers \cap Names = {} /\ None \notin Containers \cup Names
ASSUME SessionsAssumption == MaxSessions \in Nat \ {0}
ASSUME ThreadsAssumption ==
  /\ Rank \in [Requests -> Nat]
  /\ Requests \cap Containers = {}
  /\ {Boot, Closer, Listener} \cap (Requests \cup Containers) = {}
  /\ Cardinality({Boot, Closer, Listener}) = 3

(* An environment allows these kinds of requests, and irregularities: starts *)
(* by name; waits by name or short id; waits that ask for "not-running" of a *)
(* container never started (docker run asks for the next exit); connections  *)
(* that are kept alive after an answer; connections whose first request      *)
(* comes later than they, so that Close may begin before they are counted;   *)
(* Close; clients that address a container before its create was answered;   *)
(* requests, or Close, during the boot scan; and containers that exit while  *)
(* nobody waits for them.  It bounds the requests, the starts of a container *)
(* that had exited, the containers that exit by themselves, the lost         *)
(* exchanges and failed mutagen calls, and the crashes of the daemon.        *)
RequestKinds == {"create", "start", "stop", "remove", "wait"}
Irregularities ==
  {"startByName", "waitByName", "waitUnstarted", "keepalive", "late", "close", "early",
   "duringBoot", "closeDuringBoot", "unattended"}
Bounds == {"restarts", "exits", "faults", "crashes"}
ASSUME EnvironmentsAssumption ==
  \A e \in Environments :
    /\ e.allows \subseteq RequestKinds \cup Irregularities
    /\ e.requests \in Nat /\ e.most \in [Bounds -> Nat]

VARIABLES
  docker,      (* the remote engine: the state of each container           *)
  pc, arg,     (* what each thread does next, and the container it acts on *)
  ref,         (* the id or name a request used                            *)
  wg,          (* the requests whose connection handlers Close waits for   *)
  between,     (* the handlers it waits for that are between two requests  *)
  snap, old,   (* the boot scan's lists: running containers, containers    *)
               (* that had sessions and are still to be looked at          *)
  env,         (* the environment, and how much of its bounds was used     *)
  pfPending, pfStored, pfLive, pfJob, pfStray,
  fsPending, fsStored, fsLive, fsJob, fsStray

PF == INSTANCE BridgeManager WITH
        Items <- Ports, NoContainer <- None, pending <- pfPending,
        stored <- pfStored, live <- pfLive, job <- pfJob, stray <- pfStray
FS == INSTANCE BridgeManager WITH
        Items <- Mounts, NoContainer <- None, pending <- fsPending,
        stored <- fsStored, live <- fsLive, job <- fsJob, stray <- fsStray

pfVars == <<pfPending, pfStored, pfLive, pfJob, pfStray>>
fsVars == <<fsPending, fsStored, fsLive, fsJob, fsStray>>
managers == <<pfVars, fsVars>>
scan == <<snap, old>>
vars == <<docker, pc, arg, ref, wg, between, scan, env, managers>>

Threads == Requests \cup Containers \cup {Boot, Closer, Listener}
Labels ==
  {"idle", "open", "done",
   "mounts", "sending", "created", "refused", "endFS",            \* create
   "check", "resolve", "removing", "waiting", "inspect", "unknown", \* the others
   "storePF", "storeFS", "setupPF", "settingPF", "setupFS", "settingFS",
   "tearPF", "tearingPF", "tearFS", "tearingFS",
   "list", "listPF", "listFS", "sweep",                           \* boot scan
   "up", "draining", "exit", "died",                              \* closer
   "accept", "add", "stale",                                      \* listener
   "accepted"}                               \* a connection wg does not count

TypeOK ==
  /\ docker \in [Containers -> {"absent", "created", "running", "exited", "gone"}]
  /\ pc \in [Threads -> Labels]
  /\ arg \in [Threads -> Containers \cup {None}]
  /\ ref \in [Requests -> Containers \cup Names \cup {None}]
  /\ wg \subseteq Requests /\ between \in Nat
  /\ snap \subseteq Containers /\ old \subseteq Containers
  /\ env \in [world : Environments, used : [Bounds -> Nat]]
  /\ \A b \in Bounds : env.used[b] <= env.world.most[b]
  /\ PF!TypeOK /\ FS!TypeOK

(* Where a thread is when the daemon has started: NewProxy starts the scan.  *)
Starts(t) ==
  CASE t = Boot -> "list" [] t = Closer -> "up" [] t = Listener -> "accept"
    [] OTHER -> "idle"

Init ==
  /\ docker = [c \in Containers |-> "absent"]
  /\ pc = [t \in Threads |-> Starts(t)]
  /\ arg = [t \in Threads |-> None]
  /\ ref = [r \in Requests |-> None]
  /\ wg = {} /\ between = 0 /\ snap = {} /\ old = {}
  /\ env \in [world : Environments, used : {[b \in Bounds |-> 0]}]
  /\ PF!Init /\ FS!Init

-----------------------------------------------------------------------------
(* Helpers.                                                                  *)

Step(t, from, to) == pc[t] = from /\ pc' = [pc EXCEPT ![t] = to]

Allowed == env.world.allows
Use(bound) ==
  /\ env.used[bound] < env.world.most[bound]
  /\ env' = [env EXCEPT !.used[bound] = @ + 1]

(* A dial, an exchange with Docker or a mutagen call that fails.             *)
Fault == Use("faults")

(* A choice of the environment that costs a fault when it is a failure.      *)
MayFail(failed) == IF failed THEN Fault ELSE UNCHANGED env

Exists(c) == docker[c] \in {"created", "running", "exited"}

(* The container an id or name designates now; None is "no such container".  *)
Target(x) ==
  LET found == {c \in Containers : Exists(c) /\ x \in {c, NameOf[c]}}
  IN IF found = {} THEN None ELSE CHOOSE c \in found : TRUE

(* The client of r may send a request: it has a connection, or the listener  *)
(* still accepts one.                                                        *)
BootFinished == pc[Boot] = "done" /\ \A c \in Containers : pc[c] \in {"idle", "done"}
IsNext(r) ==
  /\ pc[r] = "idle"
  /\ Cardinality({q \in Requests : pc[q] # "idle"}) < env.world.requests
  /\ \A q \in Requests : Rank[q] < Rank[r] => pc[q] # "idle"
Accepts(r) == IsNext(r) /\ pc[Listener] = "accept"
CanSend(r, kind) ==
  /\ kind \in Allowed
  /\ pc[r] = "open" \/ Accepts(r)
  /\ "duringBoot" \in Allowed \/ BootFinished

(* Clients know a container from the answer to its create.                   *)
Known(c) ==
  \/ "early" \in Allowed
  \/ \A r \in Requests : ~(arg[r] = c /\ pc[r] \in {"created", "endFS"})

(* The container stopped: the wait requests on it are answered.              *)
Answered(p, c) ==
  [t \in Threads |-> IF p[t] = "waiting" /\ arg[t] = c THEN "inspect" ELSE p[t]]

(* The handler's function returns, and says Done; ...                        *)
Returns(r) == wg' = wg \ {r} /\ UNCHANGED between

(* ... or, with the answer written, goes back to http.ReadRequest on a       *)
(* connection that is kept alive.                                            *)
Through(r) ==
  \/ Returns(r)
  \/ "keepalive" \in Allowed /\ wg' = wg \ {r} /\ between' = between + 1

(* The next request comes on it, or the client goes: see HangUp.  (One that  *)
(* is kept and not used delays Close, and does nothing else.)                *)
ReadNext(r) ==
  /\ between > 0 /\ IsNext(r)
  /\ pc' = [pc EXCEPT ![r] = "open"]
  /\ wg' = wg \cup {r} /\ between' = between - 1
  /\ UNCHANGED <<docker, arg, ref, scan, env, managers>>

(* ListenAndServe accepts a connection, and only then counts it and starts   *)
(* its handler.  (Requests of other connections arrive with them counted.)   *)
Connect(r) ==
  /\ "late" \in Allowed /\ Accepts(r)
  /\ pc' = [pc EXCEPT ![r] = "accepted", ![Listener] = "add"]
  /\ UNCHANGED <<docker, arg, ref, wg, between, scan, env, managers>>

(* A variant the runs must reject: the handler is not counted.               *)
UncountedAdd(r) ==
  /\ pc[r] = "accepted"
  /\ pc' = [pc EXCEPT ![r] = "open",
                      ![Listener] = IF pc[Closer] = "up" THEN "accept" ELSE "done"]
  /\ UNCHANGED <<docker, arg, ref, wg, between, scan, env, managers>>

(* wg.Add, whether or not Close waits already; the loop ends when it sees    *)
(* that Close was called.  The connection is open: handleConnection reads.   *)
Add(r) ==
  /\ pc[r] = "accepted"
  /\ pc' = [pc EXCEPT ![r] = "open",
                      ![Listener] = IF pc[Closer] = "up" THEN "accept" ELSE "done"]
  /\ wg' = wg \cup {r}
  /\ UNCHANGED <<docker, arg, ref, between, scan, env, managers>>

HangUp(r) ==
  /\ Step(r, "open", "done")
  /\ Returns(r)
  /\ UNCHANGED <<docker, arg, ref, scan, env, managers>>

-----------------------------------------------------------------------------
(* POST /containers/create                                                   *)

(* handleContainerCreateRequest records the bindings before it forwards the  *)
(* request: first the ports ...                                              *)
CreatePorts(r) ==
  /\ CanSend(r, "create")
  /\ pc' = [pc EXCEPT ![r] = "mounts"]
  /\ wg' = wg \cup {r}
  /\ PF!StoreStart(r, Ports)
  /\ UNCHANGED <<docker, arg, ref, between, scan, env, fsVars>>

(* ... then the mounts; the directories it makes on the remote host are not  *)
(* tracked here.                                                             *)
CreateMounts(r) ==
  /\ Step(r, "mounts", "sending")
  /\ FS!StoreStart(r, Mounts)
  /\ UNCHANGED <<docker, arg, ref, wg, between, scan, env, pfVars>>

(* A variant the runs must reject: the container is kept by its name.        *)
NamedCreateSend(r) ==
  /\ pc[r] = "sending"
  /\ \E c \in Containers :
       /\ docker[c] = "absent" /\ Target(NameOf[c]) = None
       /\ docker' = [docker EXCEPT ![c] = "created"]
       /\ arg' = [arg EXCEPT ![r] = NameOf[c]]
       /\ pc' = [pc EXCEPT ![r] = "created"]
  /\ UNCHANGED <<ref, wg, between, scan, env, managers>>

(* Docker creates a container, if its name is free, or refuses.              *)
CreateSend(r) ==
  /\ pc[r] = "sending"
  /\ \/ \E c \in Containers :
          /\ docker[c] = "absent" /\ Target(NameOf[c]) = None
          /\ docker' = [docker EXCEPT ![c] = "created"]
          /\ arg' = [arg EXCEPT ![r] = c]
          /\ pc' = [pc EXCEPT ![r] = "created"]
     \/ /\ pc' = [pc EXCEPT ![r] = "refused"]
        /\ UNCHANGED <<docker, arg>>
  /\ UNCHANGED <<ref, wg, between, scan, env, managers>>

(* The connection to Docker breaks before the answer is read: the handler    *)
(* returns without telling the managers.                                     *)
CreateLost(r) ==
  /\ \E from \in {"sending", "created", "refused"} : Step(r, from, "done")
  /\ Fault
  /\ Returns(r)
  /\ UNCHANGED <<docker, arg, ref, scan, managers>>

(* The answer's body cannot be read or parsed: the handler goes on as if the *)
(* create had been refused.                                                  *)
AnswerUnread(r) ==
  /\ Step(r, "created", "refused")
  /\ Fault
  /\ arg' = [arg EXCEPT ![r] = None]
  /\ UNCHANGED <<docker, ref, wg, between, scan, managers>>

(* Variants the runs must reject: moving the entries without the mutexes,    *)
(* and a handler that never says Done.                                       *)
UnlockedCreatedPorts(r) ==
  /\ \E from \in {"created", "refused"} : Step(r, from, "endFS")
  /\ pfStored' = IF arg[r] = None THEN pfStored
                  ELSE [pfStored EXCEPT ![arg[r]] = pfPending[r]]
  /\ pfPending' = [pfPending EXCEPT ![r] = {}]
  /\ UNCHANGED <<pfLive, pfJob, pfStray>>
  /\ UNCHANGED <<docker, arg, ref, wg, between, scan, env, fsVars>>
UnlockedCreatedMounts(r) ==
  /\ Step(r, "endFS", "done")
  /\ fsStored' = IF arg[r] = None THEN fsStored
                  ELSE [fsStored EXCEPT ![arg[r]] = fsPending[r]]
  /\ fsPending' = [fsPending EXCEPT ![r] = {}]
  /\ Through(r)
  /\ UNCHANGED <<fsLive, fsJob, fsStray>>
  /\ UNCHANGED <<docker, arg, ref, scan, env, pfVars>>
UndoneCreatedMounts(r) ==
  /\ Step(r, "endFS", "done")
  /\ FS!StoreEnd(r, arg[r])
  /\ UNCHANGED <<docker, arg, ref, wg, between, scan, env, pfVars>>

(* handleContainerCreateResponse moves the entries to the new container.     *)
CreatedPorts(r) ==
  /\ \E from \in {"created", "refused"} : Step(r, from, "endFS")
  /\ PF!StoreEnd(r, arg[r])
  /\ UNCHANGED <<docker, arg, ref, wg, between, scan, env, fsVars>>

CreatedMounts(r) ==
  /\ Step(r, "endFS", "done")
  /\ FS!StoreEnd(r, arg[r])
  /\ Through(r)
  /\ UNCHANGED <<docker, arg, ref, scan, env, pfVars>>

-----------------------------------------------------------------------------
(* POST /containers/{id}/start                                               *)

(* Docker starts the container.  Only a hexadecimal id reaches               *)
(* setupSessionsIfRunning; a name does not match containerStartPattern, and  *)
(* a short id is looked up in the managers' maps, which hold full ids.  When *)
(* the answer is lost the handler returns.  (Then the start costs a fault,   *)
(* and does not count as a restart.)                                         *)
Start(r, x) ==
  LET c == Target(x)
  IN /\ CanSend(r, "start")
     /\ x \in Containers \/ "startByName" \in Allowed
     /\ c # None /\ Known(c) /\ docker[c] # "running"
     /\ docker' = [docker EXCEPT ![c] = "running"]
     /\ arg' = [arg EXCEPT ![r] = c]
     /\ ref' = [ref EXCEPT ![r] = x]
     /\ \/ /\ IF docker[c] = "exited" THEN Use("restarts") ELSE UNCHANGED env
           /\ pc' = [pc EXCEPT ![r] = IF x = c THEN "check" ELSE "done"]
           /\ Through(r)
        \/ /\ Fault
           /\ pc' = [pc EXCEPT ![r] = "done"]
           /\ Returns(r)
     /\ UNCHANGED <<scan, managers>>

(* isContainerRunning: a failed exchange counts as "not running".            *)
CheckRunning(r) ==
  /\ \E lost \in BOOLEAN :
       /\ MayFail(lost)
       /\ Step(r, "check",
               IF ~lost /\ docker[arg[r]] = "running" THEN "setupPF" ELSE "done")
  /\ UNCHANGED <<docker, arg, ref, wg, between, scan, managers>>

-----------------------------------------------------------------------------
(* POST /containers/{id}/stop                                                *)

(* Docker stops the container; the handler starts teardownForContainer with  *)
(* the id or name it saw, unless the answer is lost.  (arg is a history      *)
(* variable until a name is resolved: the code has only the name.)           *)
Stop(r, x) ==
  LET c == Target(x)
  IN /\ CanSend(r, "stop")
     /\ c # None /\ Known(c) /\ docker[c] = "running"
     /\ docker' = [docker EXCEPT ![c] = "exited"]
     /\ arg' = [arg EXCEPT ![r] = c]
     /\ ref' = [ref EXCEPT ![r] = x]
     /\ \E lost \in BOOLEAN :
          /\ MayFail(lost)
          /\ pc' = [Answered(pc, c) EXCEPT ![r] =
                      IF lost THEN "done" ELSE IF x = c THEN "tearPF" ELSE "resolve"]
          /\ IF lost THEN Returns(r) ELSE Through(r)
     /\ UNCHANGED <<scan, managers>>

(* getContainerID asks Docker what the name means by now.                    *)
Resolve(r) ==
  /\ pc[r] = "resolve"
  /\ \E lost \in BOOLEAN :
       LET c == IF lost THEN None ELSE Target(ref[r])
       IN /\ MayFail(lost)
          /\ arg' = [arg EXCEPT ![r] = c]
          /\ pc' = [pc EXCEPT ![r] = IF c = None THEN "done" ELSE "tearPF"]
  /\ UNCHANGED <<docker, ref, wg, between, scan, managers>>

-----------------------------------------------------------------------------
(* DELETE /containers/{id}                                                   *)

(* handleContainerOperation resolves a name before the request is sent.      *)
Remove(r, x) ==
  /\ CanSend(r, "remove")
  /\ Target(x) # None /\ Known(Target(x))
  /\ \E lost \in BOOLEAN :
       /\ MayFail(lost)
       /\ lost => x \in Names
       /\ arg' = [arg EXCEPT ![r] = IF lost THEN None ELSE Target(x)]
  /\ ref' = [ref EXCEPT ![r] = x]
  /\ pc' = [pc EXCEPT ![r] = "removing"]
  /\ wg' = wg \cup {r}
  /\ UNCHANGED <<docker, between, scan, managers>>

(* Docker removes what the request names, if it still exists; the answer     *)
(* starts a teardown of the container that was cached.                       *)
RemoveSend(r) ==
  LET c == Target(ref[r])
  IN /\ pc[r] = "removing"
     /\ c # None
     /\ docker' = [docker EXCEPT ![c] = "gone"]
     /\ \E lost \in BOOLEAN :
          /\ MayFail(lost)
          /\ pc' = [Answered(pc, c) EXCEPT ![r] =
                      IF lost \/ arg[r] = None THEN "done" ELSE "tearPF"]
          /\ IF lost THEN Returns(r) ELSE Through(r)
     /\ UNCHANGED <<arg, ref, scan, managers>>

(* Docker answers that it does not exist, or is running and was not forced.  *)
RemoveRefused(r) ==
  /\ Step(r, "removing", "done")
  /\ Target(ref[r]) # None => docker[Target(ref[r])] = "running"
  /\ Through(r)
  /\ UNCHANGED <<docker, arg, ref, scan, env, managers>>

-----------------------------------------------------------------------------
(* POST /containers/{id}/wait, by id, or by a short id or a name that reads  *)
(* as a hexadecimal number                                                   *)

(* The handler copies the answer to the client, which ends when the          *)
(* container stops: at once when the client asked for "not-running" and it   *)
(* is not running.                                                           *)
Wait(r, x) ==
  LET c == IF x \in Containers THEN x ELSE Target(x)
  IN /\ CanSend(r, "wait")
     /\ x \in Containers \/ "waitByName" \in Allowed
     /\ c # None /\ docker[c] # "absent" /\ Known(c)
     /\ \/ /\ Exists(c)
           /\ pc' = [pc EXCEPT ![r] = "waiting"]
        \/ /\ docker[c] # "running"
           /\ docker[c] = "created" => "waitUnstarted" \in Allowed
           /\ pc' = [pc EXCEPT ![r] = "inspect"]
     /\ arg' = [arg EXCEPT ![r] = c]
     /\ ref' = [ref EXCEPT ![r] = x]
     /\ wg' = wg \cup {r}
     /\ UNCHANGED <<docker, between, scan, env, managers>>

(* There is no such container: the answer says so, and ends at once; its     *)
(* deferred teardown is registered all the same.                             *)
WaitUnknown(r, x) ==
  /\ CanSend(r, "wait") /\ "waitByName" \in Allowed
  /\ x \in Names /\ Target(x) = None
  /\ pc' = [pc EXCEPT ![r] = "unknown"]
  /\ ref' = [ref EXCEPT ![r] = x]
  /\ wg' = wg \cup {r}
  /\ UNCHANGED <<docker, arg, between, scan, env, managers>>

(* The client went away: writing the answer fails and the handler returns    *)
(* before it registers the deferred teardown.                                *)
WaitBroken(r) ==
  /\ Step(r, "waiting", "done")
  /\ Fault
  /\ Returns(r)
  /\ UNCHANGED <<docker, arg, ref, scan, managers>>

Running(x) == Target(x) # None /\ docker[Target(x)] = "running"

(* A variant the runs must reject: the check is inverted.                    *)
InvertedInspect(r) ==
  /\ Step(r, "inspect", IF Running(ref[r]) THEN "tearPF" ELSE "done")
  /\ wg' = IF Running(ref[r]) THEN wg ELSE wg \ {r}
  /\ UNCHANGED <<docker, arg, ref, between, scan, env, managers>>

(* The deferred teardown asks isContainerStopped first; a failed exchange    *)
(* counts as "still running", a container that is gone as stopped.  It goes  *)
(* by what the client wrote: the managers have nothing under a short id, and *)
(* the teardowns find nothing ...                                            *)
Inspect(r) ==
  /\ \E lost \in BOOLEAN :
       LET teardown == ~lost /\ ~Running(ref[r]) /\ ref[r] \in Containers
       IN /\ MayFail(lost)
          /\ Step(r, "inspect", IF teardown THEN "tearPF" ELSE "done")
          /\ wg' = IF teardown THEN wg ELSE wg \ {r}
  /\ UNCHANGED <<docker, arg, ref, between, scan, managers>>

InspectUnknown(r) ==
  /\ Step(r, "unknown", "done")
  /\ Returns(r)
  /\ UNCHANGED <<docker, arg, ref, scan, env, managers>>

(* A panic in any goroutine ends the process, and every other with it.       *)
Dies ==
  /\ pc' = [t \in Threads |-> IF t = Closer THEN "died" ELSE "done"]
  /\ wg' = {} /\ between' = 0
  /\ PF!Restart /\ FS!Restart
  /\ UNCHANGED <<docker, arg, ref, scan, env>>

(* ... or, if it has an odd number of digits, compressContainerID panics.    *)
InspectPanics(r) ==
  /\ pc[r] \in {"inspect", "unknown"} /\ ref[r] \in Names /\ ~Running(ref[r])
  /\ Dies

(* A container's main process ends by itself.                                *)
ContainerExits(c) ==
  /\ docker[c] = "running"
  /\ "unattended" \in Allowed \/ \E r \in wg : pc[r] = "waiting" /\ arg[r] = c
  /\ Use("exits")
  /\ docker' = [docker EXCEPT ![c] = "exited"]
  /\ pc' = Answered(pc, c)
  /\ UNCHANGED <<arg, ref, wg, between, scan, managers>>

-----------------------------------------------------------------------------
(* setupSessionsIfRunning and storeContainerBindingsAndSetupSessions: the    *)
(* port forwards, then the file syncs.                                       *)

SetupPFBegin(t) ==
  /\ Step(t, "setupPF", "settingPF")
  /\ PF!SetupBegin(arg[t])
  /\ UNCHANGED <<docker, arg, ref, wg, between, scan, env, fsVars>>

SetupPFItem(t) ==
  /\ pc[t] = "settingPF"
  /\ \E i \in Ports : \/ PF!SetupItem(i) /\ UNCHANGED env
                      \/ PF!SetupItemFails(i) /\ Fault
  /\ UNCHANGED <<docker, pc, arg, ref, wg, between, scan, fsVars>>

(* A variant the runs must reject: it returns after the forwards.            *)
EarlySetupPFEnd(t) ==
  /\ Step(t, "settingPF", "done")
  /\ PF!SetupEnd
  /\ UNCHANGED <<docker, arg, ref, wg, between, scan, env, fsVars>>

SetupPFEnd(t) ==
  /\ Step(t, "settingPF", "setupFS")
  /\ PF!SetupEnd
  /\ UNCHANGED <<docker, arg, ref, wg, between, scan, env, fsVars>>

SetupFSBegin(t) ==
  /\ Step(t, "setupFS", "settingFS")
  /\ FS!SetupBegin(arg[t])
  /\ UNCHANGED <<docker, arg, ref, wg, between, scan, env, pfVars>>

SetupFSItem(t) ==
  /\ pc[t] = "settingFS"
  /\ \E i \in Mounts : \/ FS!SetupItem(i) /\ UNCHANGED env
                       \/ FS!SetupItemFails(i) /\ Fault
  /\ UNCHANGED <<docker, pc, arg, ref, wg, between, scan, pfVars>>

SetupFSEnd(t) ==
  /\ Step(t, "settingFS", "done")
  /\ FS!SetupEnd
  /\ UNCHANGED <<docker, arg, ref, wg, between, scan, env, pfVars>>

-----------------------------------------------------------------------------
(* teardownForContainer, the deferred teardown of a wait, the boot scan's    *)
(* sweep and Close: the port forwards, then the file syncs.                  *)

Doomed(t) == IF t = Closer THEN Containers ELSE {arg[t]}

TearPFBegin(t) ==
  /\ Step(t, "tearPF", "tearingPF")
  /\ PF!TeardownBegin(Doomed(t))
  /\ UNCHANGED <<docker, arg, ref, wg, between, scan, env, fsVars>>

TearPFEnd(t) ==
  /\ Step(t, "tearingPF", "tearFS")
  /\ \E kept \in SUBSET (Doomed(t) \X Ports) : PF!TeardownEnd(kept) /\ MayFail(kept # {})
  /\ UNCHANGED <<docker, arg, ref, wg, between, scan, fsVars>>

TearFSBegin(t) ==
  /\ Step(t, "tearFS", "tearingFS")
  /\ FS!TeardownBegin(Doomed(t))
  /\ UNCHANGED <<docker, arg, ref, wg, between, scan, env, pfVars>>

TearFSEnd(t) ==
  /\ Step(t, "tearingFS",
          IF t = Boot THEN "sweep" ELSE IF t = Closer THEN "exit" ELSE "done")
  /\ \E kept \in SUBSET (Doomed(t) \X Mounts) : FS!TeardownEnd(kept) /\ MayFail(kept # {})
  /\ wg' = wg \ {t}
  /\ UNCHANGED <<docker, arg, ref, between, scan, pfVars>>

-----------------------------------------------------------------------------
(* syncWithRunningContainers, started by NewProxy                            *)

(* listRunningContainers; on failure the scan gives up.                      *)
ListRunning ==
  /\ pc[Boot] = "list"
  /\ \E lost \in BOOLEAN :
       /\ MayFail(lost)
       /\ pc' = [pc EXCEPT ![Boot] = IF lost THEN "done" ELSE "listPF"]
       /\ snap' = IF lost THEN {} ELSE {c \in Containers : docker[c] = "running"}
  /\ UNCHANGED <<docker, arg, ref, wg, between, old, managers>>

(* The two ListSessions calls; an error is ignored and reads as "none".      *)
ListForwards ==
  /\ Step(Boot, "listPF", "listFS")
  /\ \E lost \in BOOLEAN :
       MayFail(lost) /\ old' = IF lost THEN {} ELSE PF!SessionContainers
  /\ UNCHANGED <<docker, arg, ref, wg, between, snap, managers>>

ListSyncs ==
  /\ Step(Boot, "listFS", "sweep")
  /\ \E lost \in BOOLEAN :
       MayFail(lost) /\ old' = old \cup (IF lost THEN {} ELSE FS!SessionContainers)
  /\ UNCHANGED <<docker, arg, ref, wg, between, snap, managers>>

(* A variant the runs must reject: it takes them off the list, and no more.  *)
ForgetfulSweep(c) ==
  /\ c \in old \ snap
  /\ pc[Boot] = "sweep"
  /\ old' = old \ {c}
  /\ UNCHANGED <<docker, pc, arg, ref, wg, between, snap, env, managers>>

(* Containers with sessions that were not in the list are torn down in turn. *)
Sweep(c) ==
  /\ c \in old \ snap
  /\ Step(Boot, "sweep", "tearPF")
  /\ arg' = [arg EXCEPT ![Boot] = c]
  /\ old' = old \ {c}
  /\ UNCHANGED <<docker, ref, wg, between, snap, env, managers>>

(* A variant the runs must reject: it sets up those that have sessions.      *)
SwappedSpawn ==
  /\ pc[Boot] = "sweep" /\ old \subseteq snap
  /\ pc' = [t \in Threads |-> IF t = Boot THEN "done"
                              ELSE IF t \in snap \cap old THEN "storePF" ELSE pc[t]]
  /\ arg' = [t \in Threads |-> IF t \in snap \cap old THEN t ELSE arg[t]]
  /\ snap' = {} /\ old' = {}
  /\ UNCHANGED <<docker, ref, wg, between, env, managers>>

(* Then every listed container without any session gets a goroutine.         *)
Spawn ==
  /\ pc[Boot] = "sweep" /\ old \subseteq snap
  /\ pc' = [t \in Threads |-> IF t = Boot THEN "done"
                              ELSE IF t \in snap \ old THEN "storePF" ELSE pc[t]]
  /\ arg' = [t \in Threads |-> IF t \in snap \ old THEN t ELSE arg[t]]
  /\ snap' = {} /\ old' = {}
  /\ UNCHANGED <<docker, ref, wg, between, env, managers>>

(* storeContainerBindingsAndSetupSessions, from the list's information.      *)
ScanPorts(c) ==
  /\ Step(c, "storePF", "storeFS")
  /\ PF!StoreForContainer(c, Ports)
  /\ UNCHANGED <<docker, arg, ref, wg, between, scan, env, fsVars>>

ScanMounts(c) ==
  /\ Step(c, "storeFS", "setupPF")
  /\ FS!StoreForContainer(c, Mounts)
  /\ UNCHANGED <<docker, arg, ref, wg, between, scan, env, pfVars>>

-----------------------------------------------------------------------------
(* Close, and the end of the process                                         *)

(* The listener is closed, and p.listener set to nil; connections that exist *)
(* stay.  The loop is in Accept, which fails, and ends; or it has looked at  *)
(* stopCh and is about to read p.listener; or it has accepted.               *)
CloseBegin ==
  /\ "close" \in Allowed /\ pc[Closer] = "up"
  /\ "closeDuringBoot" \in Allowed \/ BootFinished
  /\ \E next \in IF pc[Listener] = "accept" THEN {"done", "stale"} ELSE {"add"} :
       pc' = [pc EXCEPT ![Closer] = "draining", ![Listener] = next]
  /\ UNCHANGED <<docker, arg, ref, wg, between, scan, env, managers>>

(* The loop reads p.listener, which nothing orders after Close's write: it   *)
(* finds the closed listener and ends ...                                    *)
AcceptFails ==
  /\ Step(Listener, "stale", "done")
  /\ UNCHANGED <<docker, arg, ref, wg, between, scan, env, managers>>

(* ... or nil, and panics: the process dies in the middle of Close.          *)
Panic == pc[Listener] = "stale" /\ Dies

(* wg.Wait: the handlers have returned.  The goroutines they started, and    *)
(* the boot scan's, are not waited for.                                      *)
Drained ==
  /\ wg = {} /\ between = 0
  /\ Step(Closer, "draining", "tearPF")
  /\ UNCHANGED <<docker, arg, ref, wg, between, scan, env, managers>>

(* The process ends and takes every goroutine with it.                       *)
Exit ==
  /\ pc[Closer] = "exit"
  /\ pc' = [t \in Threads |-> "done"]
  /\ PF!Restart /\ FS!Restart
  /\ UNCHANGED <<docker, arg, ref, wg, between, scan, env>>

(* The daemon dies at any point and is started again: connections and        *)
(* goroutines are lost, containers and mutagen's saved sessions are not.     *)
Crash ==
  /\ pc[Closer] = "up"
  /\ Use("crashes")
  /\ pc' = [t \in Threads |->
              IF t \in Requests /\ pc[t] # "idle" THEN "done" ELSE Starts(t)]
  /\ wg' = {} /\ between' = 0 /\ snap' = {} /\ old' = {}
  /\ PF!Restart /\ FS!Restart
  /\ UNCHANGED <<docker, arg, ref>>

-----------------------------------------------------------------------------
(* What a thread does once it runs; the rest is the environment's choice.    *)
RequestStep(r) ==
  \/ CreateMounts(r) \/ CreateSend(r) \/ CreatedPorts(r) \/ CreatedMounts(r)
  \/ CheckRunning(r) \/ Resolve(r) \/ RemoveSend(r) \/ RemoveRefused(r)
  \/ Inspect(r) \/ InspectUnknown(r) \/ InspectPanics(r)

ScanStep ==
  \/ ListRunning \/ ListForwards \/ ListSyncs
  \/ \E c \in Containers : Sweep(c)
  \/ Spawn

ManagerStep(t) ==
  \/ SetupPFBegin(t) \/ SetupPFItem(t) \/ SetupPFEnd(t)
  \/ SetupFSBegin(t) \/ SetupFSItem(t) \/ SetupFSEnd(t)
  \/ TearPFBegin(t) \/ TearPFEnd(t) \/ TearFSBegin(t) \/ TearFSEnd(t)

Internal ==
  \/ \E r \in Requests : RequestStep(r)
  \/ ScanStep
  \/ \E c \in Containers : ScanPorts(c) \/ ScanMounts(c)
  \/ \E t \in Threads : ManagerStep(t)
  \/ \E r \in Requests : Add(r)
  \/ AcceptFails \/ Panic
  \/ Drained \/ Exit

Environment ==
  \/ \E r \in Requests : Connect(r) \/ ReadNext(r) \/ HangUp(r) \/ CreatePorts(r)
                           \/ CreateLost(r) \/ AnswerUnread(r) \/ WaitBroken(r)
  \/ \E r \in Requests, x \in Containers \cup Names :
       Start(r, x) \/ Stop(r, x) \/ Remove(r, x) \/ Wait(r, x) \/ WaitUnknown(r, x)
  \/ \E c \in Containers : ContainerExits(c)
  \/ CloseBegin \/ Crash

Next == Internal \/ Environment

Spec == Init /\ [][Next]_vars

(* Goroutines run, mutagen and Docker answer: every thread that can go on    *)
(* does.  Clients, containers and crashes owe nothing.                       *)
Fairness ==
  /\ \A r \in Requests : WF_vars(RequestStep(r))
  /\ \A c \in Containers : WF_vars(ScanPorts(c) \/ ScanMounts(c))
  /\ \A t \in Threads : WF_vars(ManagerStep(t))
  /\ \A r \in Requests : WF_vars(Add(r))
  /\ WF_vars(AcceptFails \/ Panic)
  /\ WF_vars(ScanStep) /\ WF_vars(Drained) /\ WF_vars(Exit)

FairSpec == Spec /\ Fairness

-----------------------------------------------------------------------------
(* Properties.                                                               *)

AtRest ==
  /\ pc[Closer] = "up"
  /\ \A t \in Threads \ {Closer, Listener} : pc[t] \in {"idle", "open", "done", "waiting"}

(* What a property leaves out: environments with some irregularity, or what  *)
(* comes after one.  Each property names those that do break it.             *)
Without(irregularities) == Allowed \cap irregularities = {}
NoneOf(bounds) == \A b \in bounds : env.used[b] = 0

(* Of two containers that have a name in turn, a stop by name may tear down  *)
(* the later one for the earlier.                                            *)
DistinctNames == \A c, d \in Containers : NameOf[c] = NameOf[d] => c = d

Served(c) == /\ \A i \in Ports : pfLive[c][i] > 0
             /\ \A i \in Mounts : fsLive[c][i] > 0
Clean(c) == /\ c \notin PF!SessionContainers /\ c \notin FS!SessionContainers
            /\ pfStored[c] = {} /\ fsStored[c] = {}

(* A running container has every session it asked for, once the goroutines   *)
(* have finished: the checks, setups and teardowns of its start, stop, wait  *)
(* and remove requests overtook each other harmlessly.  Not so when its      *)
(* bindings were not stored, or were deleted, before the start.              *)
RunningIsServed ==
  /\ AtRest /\ NoneOf({"faults", "crashes"})
  /\ Without({"startByName", "waitUnstarted", "early", "duringBoot"}) /\ DistinctNames
  => \A c \in Containers : docker[c] = "running" => Served(c)

(* A container that stopped or was removed leaves no session and no entry: a *)
(* setup that passed its isContainerRunning check before the stop does not   *)
(* bring sessions back, nor does one that a crash interrupted.               *)
StoppedIsClean ==
  /\ AtRest /\ NoneOf({"faults"})
  /\ Without({"early", "duringBoot", "unattended", "waitByName"}) /\ DistinctNames
  => \A c \in Containers : docker[c] \in {"exited", "gone"} => Clean(c)

(* A create request that was answered is forgotten by both managers, refused *)
(* or not: the maps keyed by request do not grow.                            *)
PendingReleased ==
  NoneOf({"faults"}) =>
    \A r \in Requests : pc[r] = "done" => pfPending[r] = {} /\ fsPending[r] = {}

(* At most one sync per host path and container: a start, and after a crash  *)
(* the boot scan, never set up what is set up, though SetupSyncs does not    *)
(* look.  They do when a start overtakes the boot scan or the goroutine of   *)
(* an earlier start, or when a failed ListSessions hides from the scan what  *)
(* is set up.                                                                *)
SingleSync ==
  /\ NoneOf({"restarts"}) /\ Without({"duringBoot"})
  /\ NoneOf({"faults"}) \/ NoneOf({"crashes"})
  => \A c \in Containers, i \in Mounts : fsLive[c][i] <= 1

(* The proxy drives each manager only through the manager's own operations,  *)
(* one mutex holder at a time, so what is shown of BridgeManager holds here. *)
PortsManaged == PF!Spec
MountsManaged == FS!Spec

(* When Close has returned no session is left to mutagen, though it does not *)
(* wait for setups, nor for a connection that was accepted as it began,      *)
(* while those that are kept alive go on with requests until it finds none.  *)
(* Not so when such a late connection is kept alive itself, and creates and  *)
(* then starts a container behind TeardownAll; and the goroutines of the     *)
(* boot scan may bring some back.                                            *)
CloseLeavesNothing ==
  /\ pc[Closer] = "done" /\ NoneOf({"faults"})
  /\ Without({"duringBoot", "closeDuringBoot"})
  /\ Without({"late"}) \/ Without({"keepalive"})
  => PF!SessionContainers = {} /\ FS!SessionContainers = {}

(* "Close gracefully shuts down the proxy": once it was called, no session   *)
(* is left when the process has ended.                                       *)
CloseIsGraceful ==
  pc[Closer] \in {"done", "died"} =>
    PF!SessionContainers = {} /\ FS!SessionContainers = {}

(* Nobody waits for a mutex or an answer for ever: a goroutine that is at    *)
(* work finishes, in whatever order they queue for the two managers.         *)
Working(t) == pc[t] \notin {"idle", "open", "done", "waiting", "up", "draining", "died",
                         "accept"}
EveryThreadFinishes == \A t \in Threads : Working(t) ~> ~Working(t)

(* The exit of a container somebody waits for by its full id, however it     *)
(* comes about, ends its sessions, unless something failed, it runs again by *)
(* then, or the daemon has ended: Close does not wait for a handler it       *)
(* accepted too late.                                                        *)
WaitCleansUp ==
  \A r \in Requests, c \in Containers :
    /\ pc[r] = "inspect" /\ ref[r] = c /\ docker[c] # "running"
    /\ Without({"early", "duringBoot"})
    ~> \/ Clean(c) \/ docker[c] = "running" \/ ~NoneOf({"faults"})
       \/ pc[Closer] \in {"done", "died"}

(* A container the boot scan found running gets sessions, or has kept some,  *)
(* unless it stops, something fails, or the proxy is closed.                 *)
HasSession(c) == c \in PF!SessionContainers \cup FS!SessionContainers
ListedHasSession ==
  \A c \in Containers :
    c \in snap /\ Without({"duringBoot"})
    ~> \/ HasSession(c) \/ docker[c] # "running" \/ ~NoneOf({"faults"})
       \/ pc[Closer] # "up"

(* Close comes to its end once it is called, or to a panic, unless every     *)
(* handler it waits for is itself waiting, for a container to end or a       *)
(* client to hang up.                                                        *)
HeldUp == (wg # {} \/ between > 0) /\ \A r \in wg : pc[r] \in {"waiting", "open"}
ShutdownCompletes == pc[Closer] = "draining" ~> pc[Closer] \in {"done", "died"} \/ HeldUp
=============================================================================
