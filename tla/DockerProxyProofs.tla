--------------------------- MODULE DockerProxyProofs ---------------------------
(***************************************************************************)
(* Theorems about the Docker API proxy, for any containers, requests,      *)
(* items and environments.                                                 *)
(*                                                                         *)
(* It drives each of its two managers only as BridgeManager allows, which  *)
(* needs one invariant, Placed: whoever acts on a container has been given *)
(* one, or is Close and acts on all.  With it every step of the proxy is   *)
(* one of the manager or leaves it alone, and what BridgeManagerProofs     *)
(* shows of a manager holds of both.  And it forgets every create request, *)
(* which needs PendingOwed: an entry is there only while its handler is at *)
(* a step before the one that gives it up, unless an exchange was lost.    *)
(*                                                                         *)
(* The second part says which thread may be where: what Close waits for,   *)
(* who holds a mutex, who is set up.  Nothing of it speaks of sessions;    *)
(* the theorems of ProxySessionProofs rest on it.                          *)
(***************************************************************************)
EXTENDS DockerProxy, FiniteSetTheorems, TLAPS

(* Where a thread acts on a container, or is about to.                       *)
Acting ==
  {"check", "waiting", "inspect", "storePF", "storeFS", "setupPF", "settingPF",
   "setupFS", "settingFS", "tearPF", "tearingPF", "tearFS", "tearingFS"}

Clearing == {"tearPF", "tearingPF", "tearFS", "tearingFS"}

(* Whoever acts on a container has been given one, except Close, which tears *)
(* down all of them.                                                         *)
Given ==
  \A t \in Threads : pc[t] \in Acting =>
    arg[t] \in Containers \/ (t = Closer /\ pc[t] \in Clearing)

Placed ==
  /\ pc \in [Threads -> Labels]
  /\ arg \in [Threads -> Containers \cup {None}]
  /\ snap \subseteq Containers
  /\ Given

(* The steps of Next in groups: of a create request, of the other requests   *)
(* and the connections, of the boot scan, and of the end of the process.     *)
CreateStep(r) ==
  \/ CreatePorts(r) \/ CreateMounts(r) \/ CreateSend(r) \/ CreateLost(r)
  \/ AnswerUnread(r) \/ CreatedPorts(r) \/ CreatedMounts(r)
OperationStep(r) ==
  \/ Connect(r) \/ Add(r) \/ ReadNext(r) \/ HangUp(r) \/ CheckRunning(r) \/ Resolve(r)
  \/ RemoveSend(r) \/ RemoveRefused(r) \/ WaitBroken(r) \/ Inspect(r) \/ InspectUnknown(r)
  \/ \E x \in Containers \cup Names :
       Start(r, x) \/ Stop(r, x) \/ Remove(r, x) \/ Wait(r, x) \/ WaitUnknown(r, x)
BootStep == ScanStep \/ \E c \in Containers : ScanPorts(c) \/ ScanMounts(c)
EndStep == CloseBegin \/ AcceptFails \/ Drained
Ending == Panic \/ Exit \/ Crash \/ \E r \in Requests : InspectPanics(r)

LEMMA Groups ==
  Next => \/ \E r \in Requests : CreateStep(r) \/ OperationStep(r)
          \/ \E t \in Threads : ManagerStep(t)
          \/ \E c \in Containers : ContainerExits(c)
          \/ BootStep \/ EndStep \/ Ending
BY DEF Next, Internal, Environment, RequestStep, CreateStep, OperationStep,
       BootStep, EndStep, Ending

-----------------------------------------------------------------------------
(* A container that is looked up is one, or None.                            *)
LEMMA TargetOK == \A x : Target(x) \in Containers \cup {None}
<1> TAKE x
<1> DEFINE found == {c \in Containers : Exists(c) /\ x \in {c, NameOf[c]}}
<1>1. CASE found = {}
  BY <1>1 DEF Target
<1>2. CASE found # {}
  <2>1. (CHOOSE c \in found : TRUE) \in found
    BY <1>2
  <2> QED BY <1>2, <2>1 DEF Target
<1> QED BY <1>1, <1>2

(* A thread that only moves on stays placed.                                 *)
LEMMA Moves ==
  ASSUME Placed, NEW t \in Threads, NEW to \in Labels,
         pc' = [pc EXCEPT ![t] = to],
         UNCHANGED <<arg, snap>>,
         to \in Acting => arg[t] \in Containers \/ (t = Closer /\ to \in Clearing)
  PROVE  Placed'
BY DEF Placed, Given

(* And so does one that is given a container, or none, as it moves.          *)
LEMMA Takes ==
  ASSUME Placed, NEW t \in Threads, NEW to \in Labels, NEW c \in Containers \cup {None},
         pc' = [pc EXCEPT ![t] = to],
         arg' = [arg EXCEPT ![t] = c],
         UNCHANGED snap,
         to \in Acting => c \in Containers
  PROVE  Placed'
<1>1. /\ pc' \in [Threads -> Labels] /\ arg' \in [Threads -> Containers \cup {None}]
      /\ snap' \subseteq Containers
  BY DEF Placed
<1>2. pc'[t] = to /\ arg'[t] = c
  BY DEF Placed
<1>3. \A u \in Threads \ {t} : pc'[u] = pc[u] /\ arg'[u] = arg[u]
  BY DEF Placed
<1>4. ASSUME NEW u \in Threads, pc'[u] \in Acting
      PROVE  arg'[u] \in Containers \/ (u = Closer /\ pc'[u] \in Clearing)
  <2>1. CASE u = t BY <1>2, <1>4, <2>1
  <2>2. CASE u # t BY <1>3, <1>4, <2>2 DEF Placed, Given
  <2> QED BY <2>1, <2>2
<1> QED BY <1>1, <1>4 DEF Placed, Given

(* When a container stops, those who wait for it go on with it.              *)
LEMMA AnsweredOK ==
  ASSUME Placed, NEW c \in Containers
  PROVE  /\ Answered(pc, c) \in [Threads -> Labels]
         /\ \A t \in Threads : Answered(pc, c)[t] \in Acting =>
              arg[t] \in Containers \/ (t = Closer /\ Answered(pc, c)[t] \in Clearing)
BY DEF Placed, Given, Answered, Labels, Acting, Clearing

(* The steps of a create request: the container is known from its answer.    *)
LEMMA CreatePlaced == ASSUME Placed, NEW r \in Requests, CreateStep(r) PROVE Placed'
<1> r \in Threads BY DEF Threads
<1> USE DEF Acting, Labels
<1>1. CASE CreatePorts(r)
  BY <1>1, Moves, "mounts" \in Labels DEF CreatePorts, scan
<1>2. CASE CreateMounts(r)
  BY <1>2, Moves, "sending" \in Labels DEF CreateMounts, Step, scan
<1>3. CASE CreateSend(r)
  <2>1. CASE \E c \in Containers : arg' = [arg EXCEPT ![r] = c] /\ pc' = [pc EXCEPT ![r] = "created"]
    BY <1>3, <2>1, Takes, "created" \in Labels DEF CreateSend, scan
  <2>2. CASE pc' = [pc EXCEPT ![r] = "refused"] /\ UNCHANGED arg
    BY <1>3, <2>2, Moves, "refused" \in Labels DEF CreateSend, scan
  <2> QED BY <1>3, <2>1, <2>2 DEF CreateSend
<1>4. CASE CreateLost(r)
  BY <1>4, Moves, "done" \in Labels DEF CreateLost, Step, scan
<1>5. CASE AnswerUnread(r)
  BY <1>5, Takes, "refused" \in Labels DEF AnswerUnread, Step, scan
<1>6. CASE CreatedPorts(r)
  BY <1>6, Moves, "endFS" \in Labels DEF CreatedPorts, Step, scan
<1>7. CASE CreatedMounts(r)
  BY <1>7, Moves, "done" \in Labels DEF CreatedMounts, Step, scan
<1> QED BY <1>1, <1>2, <1>3, <1>4, <1>5, <1>6, <1>7 DEF CreateStep

(* A thread that takes a container as it stops.                              *)
LEMMA StopsAndTakes ==
  ASSUME Placed, NEW t \in Threads, NEW to \in Labels, NEW d \in Containers,
         NEW c \in Containers \cup {None},
         pc' = [Answered(pc, d) EXCEPT ![t] = to],
         arg' = [arg EXCEPT ![t] = c],
         UNCHANGED snap,
         to \in Acting => c \in Containers
  PROVE  Placed'
<1> DEFINE p == Answered(pc, d)
<1>1. /\ p \in [Threads -> Labels] /\ arg \in [Threads -> Containers \cup {None}]
      /\ \A u \in Threads : p[u] \in Acting =>
           arg[u] \in Containers \/ (u = Closer /\ p[u] \in Clearing)
  BY AnsweredOK DEF Placed
<1>2. pc' = [p EXCEPT ![t] = to]
  OBVIOUS
<1> HIDE DEF p
<1>3. /\ pc' \in [Threads -> Labels] /\ arg' \in [Threads -> Containers \cup {None}]
      /\ snap' \subseteq Containers
  BY <1>1, <1>2 DEF Placed
<1>4. pc'[t] = to /\ arg'[t] = c
  BY <1>1, <1>2
<1>5. \A u \in Threads \ {t} : pc'[u] = p[u] /\ arg'[u] = arg[u]
  BY <1>1, <1>2
<1>6. ASSUME NEW u \in Threads, pc'[u] \in Acting
      PROVE  arg'[u] \in Containers \/ (u = Closer /\ pc'[u] \in Clearing)
  <2>1. CASE u = t BY <1>4, <1>6, <2>1
  <2>2. CASE u # t BY <1>1, <1>5, <1>6, <2>2
  <2> QED BY <2>1, <2>2
<1> QED BY <1>3, <1>6 DEF Placed, Given

(* The other requests: one that acts on a container has looked it up.        *)
LEMMA OperationPlaced == ASSUME Placed, NEW r \in Requests, OperationStep(r) PROVE Placed'
<1> r \in Threads BY DEF Threads
<1> USE DEF Acting
<1>l. {"open", "done", "check", "setupPF", "tearPF", "resolve", "removing",
       "waiting", "inspect", "unknown", "accepted", "add", "accept"} \subseteq Labels
  BY DEF Labels
<1>1. CASE Connect(r) \/ Add(r)
  <2>1. Listener \in Threads BY DEF Threads
  <2>2. \E at \in {"accepted", "open"}, next \in {"add", "accept", "done"} :
          pc' = [pc EXCEPT ![r] = at, ![Listener] = next]
    BY <1>1 DEF Connect, Add
  <2>3. UNCHANGED <<arg, snap>> BY <1>1 DEF Connect, Add, scan
  <2> QED BY <1>l, <2>1, <2>2, <2>3 DEF Placed, Given
<1>2. CASE \/ ReadNext(r) \/ HangUp(r) \/ InspectUnknown(r) \/ WaitBroken(r)
           \/ RemoveRefused(r)
  BY <1>2, <1>l, Moves DEF ReadNext, HangUp, InspectUnknown, WaitBroken, RemoveRefused,
     Step, scan
<1>3. CASE CheckRunning(r)
  <2>1. PICK to \in {"setupPF", "done"} : pc' = [pc EXCEPT ![r] = to]
    BY <1>3 DEF CheckRunning, Step
  <2>2. pc[r] = "check" /\ UNCHANGED <<arg, snap>>
    BY <1>3 DEF CheckRunning, Step, scan
  <2>3. arg[r] \in Containers BY <2>2 DEF Placed, Given, Clearing
  <2> QED BY <1>l, <2>1, <2>2, <2>3, Moves
<1>4. CASE Inspect(r)
  <2>1. PICK to \in {"tearPF", "done"} : pc' = [pc EXCEPT ![r] = to]
    BY <1>4 DEF Inspect, Step
  <2>2. pc[r] = "inspect" /\ UNCHANGED <<arg, snap>>
    BY <1>4 DEF Inspect, Step, scan
  <2>3. arg[r] \in Containers BY <2>2 DEF Placed, Given, Clearing
  <2> QED BY <1>l, <2>1, <2>2, <2>3, Moves
<1>5. CASE Resolve(r)
  <2>1. PICK c \in Containers \cup {None} :
          /\ arg' = [arg EXCEPT ![r] = c]
          /\ pc' = [pc EXCEPT ![r] = IF c = None THEN "done" ELSE "tearPF"]
    BY <1>5, TargetOK DEF Resolve
  <2>2. UNCHANGED snap BY <1>5 DEF Resolve, scan
  <2> QED BY <1>l, <2>1, <2>2, Takes
<1>6. CASE RemoveSend(r)
  <2>1. PICK c \in Containers, to \in {"done", "tearPF"} :
          /\ pc' = [Answered(pc, c) EXCEPT ![r] = to]
          /\ to = "tearPF" => arg[r] # None
    BY <1>6, TargetOK DEF RemoveSend
  <2>2. UNCHANGED <<arg, snap>> BY <1>6 DEF RemoveSend, scan
  <2>3. arg' = [arg EXCEPT ![r] = arg[r]] /\ arg[r] \in Containers \cup {None}
    BY <2>2 DEF Placed
  <2> QED BY <1>l, <2>1, <2>2, <2>3, StopsAndTakes
<1>7. ASSUME NEW x \in Containers \cup Names, Start(r, x) PROVE Placed'
  <2>1. PICK c \in Containers, to \in {"check", "done"} :
          pc' = [pc EXCEPT ![r] = to] /\ arg' = [arg EXCEPT ![r] = c]
    BY <1>7, TargetOK DEF Start
  <2>2. UNCHANGED snap BY <1>7 DEF Start, scan
  <2> QED BY <1>l, <2>1, <2>2, Takes
<1>8. ASSUME NEW x \in Containers \cup Names, Stop(r, x) PROVE Placed'
  <2>1. PICK c \in Containers, to \in {"done", "tearPF", "resolve"} :
          pc' = [Answered(pc, c) EXCEPT ![r] = to] /\ arg' = [arg EXCEPT ![r] = c]
    BY <1>8, TargetOK DEF Stop
  <2>2. UNCHANGED snap BY <1>8 DEF Stop, scan
  <2> QED BY <1>l, <2>1, <2>2, StopsAndTakes
<1>9. ASSUME NEW x \in Containers \cup Names, Remove(r, x) PROVE Placed'
  <2>1. PICK c \in Containers \cup {None} : arg' = [arg EXCEPT ![r] = c]
    BY <1>9, TargetOK DEF Remove
  <2>2. pc' = [pc EXCEPT ![r] = "removing"] /\ UNCHANGED snap
    BY <1>9 DEF Remove, scan
  <2> QED BY <1>l, <2>1, <2>2, Takes
<1>10. ASSUME NEW x \in Containers \cup Names, WaitUnknown(r, x) PROVE Placed'
  BY <1>10, <1>l, Moves DEF WaitUnknown, scan
<1>11. ASSUME NEW x \in Containers \cup Names, Wait(r, x) PROVE Placed'
  <2>1. \E to \in {"waiting", "inspect"} : pc' = [pc EXCEPT ![r] = to]
    BY <1>11 DEF Wait
  <2>2. PICK c \in Containers : arg' = [arg EXCEPT ![r] = c]
    BY <1>11, TargetOK DEF Wait
  <2>3. UNCHANGED snap BY <1>11 DEF Wait, scan
  <2> QED BY <1>l, <2>1, <2>2, <2>3, Takes
<1> QED BY <1>1, <1>2, <1>3, <1>4, <1>5, <1>6, <1>7, <1>8, <1>9, <1>10, <1>11
        DEF OperationStep

(* Setting up and tearing down: a thread keeps its container to the end.     *)
LEMMA ManagerPlaced == ASSUME Placed, NEW t \in Threads, ManagerStep(t) PROVE Placed'
<1>1. UNCHANGED <<arg, snap>>
  BY DEF ManagerStep, SetupPFBegin, SetupPFItem, SetupPFEnd, SetupFSBegin, SetupFSItem,
         SetupFSEnd, TearPFBegin, TearPFEnd, TearFSBegin, TearFSEnd, scan
<1>2. \/ UNCHANGED pc
      \/ /\ pc[t] \in Acting
         /\ \E to \in Labels : /\ pc' = [pc EXCEPT ![t] = to]
                               /\ pc[t] \in Clearing => to \in Clearing \/ to \notin Acting
  BY DEF ManagerStep, SetupPFBegin, SetupPFItem, SetupPFEnd, SetupFSBegin, SetupFSItem,
         SetupFSEnd, TearPFBegin, TearPFEnd, TearFSBegin, TearFSEnd, Step, Acting, Clearing, Labels
<1>3. CASE UNCHANGED pc
  BY <1>1, <1>3 DEF Placed, Given
<1>4. ASSUME pc[t] \in Acting, NEW to \in Labels, pc' = [pc EXCEPT ![t] = to],
             pc[t] \in Clearing => to \in Clearing \/ to \notin Acting
      PROVE  Placed'
  <2>1. arg[t] \in Containers \/ (t = Closer /\ pc[t] \in Clearing)
    BY <1>4 DEF Placed, Given
  <2> QED BY <1>1, <1>4, <2>1, Moves
<1> QED BY <1>2, <1>3, <1>4

(* A container that exits, and the boot scan: each of its goroutines is      *)
(* given the container it is named by.                                       *)
LEMMA ExitPlaced == ASSUME Placed, NEW c \in Containers, ContainerExits(c) PROVE Placed'
BY AnsweredOK DEF ContainerExits, Placed, Given, scan

LEMMA BootPlaced == ASSUME Placed, BootStep PROVE Placed'
<1> Boot \in Threads BY DEF Threads
<1> USE DEF Acting
<1>l. {"done", "listPF", "listFS", "sweep", "tearPF", "storePF", "storeFS", "setupPF"}
        \subseteq Labels
  BY DEF Labels
<1>1. CASE ListRunning
  <2>1. \E to \in {"done", "listPF"} : pc' = [pc EXCEPT ![Boot] = to]
    BY <1>1 DEF ListRunning
  <2>2. UNCHANGED arg /\ snap' \subseteq Containers
    BY <1>1 DEF ListRunning
  <2> QED BY <1>l, <2>1, <2>2 DEF Placed, Given
<1>2. CASE ListForwards \/ ListSyncs
  BY <1>2, <1>l, Moves DEF ListForwards, ListSyncs, Step
<1>3. ASSUME NEW c \in Containers, Sweep(c) PROVE Placed'
  BY <1>3, <1>l, Takes DEF Sweep, Step
<1>4. CASE Spawn
  <2>1. snap \ old \subseteq Containers BY DEF Placed
  <2>2. pc' \in [Threads -> Labels] /\ arg' \in [Threads -> Containers \cup {None}]
    BY <1>4, <1>l, <2>1 DEF Spawn, Placed
  <2>3. ASSUME NEW t \in Threads, pc'[t] \in Acting
        PROVE  arg'[t] \in Containers \/ (t = Closer /\ pc'[t] \in Clearing)
    <3>1. CASE t \in snap \ old
      BY <1>4, <2>1, <3>1 DEF Spawn, Placed
    <3>2. CASE t \notin snap \ old
      <4>1. arg'[t] = arg[t] BY <1>4, <3>2 DEF Spawn, Placed
      <4>2. pc'[t] = IF t = Boot THEN "done" ELSE pc[t]
        BY <1>4, <3>2 DEF Spawn
      <4> QED BY <2>3, <4>1, <4>2 DEF Placed, Given
    <3> QED BY <3>1, <3>2
  <2>4. snap' \subseteq Containers BY <1>4 DEF Spawn
  <2> QED BY <2>2, <2>3, <2>4 DEF Placed, Given
<1>5. ASSUME NEW c \in Containers, ScanPorts(c) \/ ScanMounts(c) PROVE Placed'
  <2>1. c \in Threads BY DEF Threads
  <2>2. pc[c] \in {"storePF", "storeFS"} /\ UNCHANGED <<arg, snap>>
    BY <1>5 DEF ScanPorts, ScanMounts, Step, scan
  <2>3. arg[c] \in Containers BY <2>1, <2>2 DEF Placed, Given, Clearing
  <2>4. PICK to \in Labels : pc' = [pc EXCEPT ![c] = to]
    BY <1>5, <1>l DEF ScanPorts, ScanMounts, Step
  <2> QED BY <2>1, <2>2, <2>3, <2>4, Moves
<1> QED BY <1>1, <1>2, <1>3, <1>4, <1>5 DEF BootStep, ScanStep

(* The end of the process: nobody is left at work.                           *)
LEMMA EndPlaced == ASSUME Placed, EndStep \/ Ending PROVE Placed'
<1> Closer \in Threads /\ Listener \in Threads BY DEF Threads
<1> USE DEF Acting
<1>l. {"draining", "done", "stale", "add", "tearPF", "died", "list", "up", "accept", "idle"}
        \subseteq Labels
  BY DEF Labels
<1>1. CASE CloseBegin
  <2>1. PICK next \in {"done", "stale", "add"} :
          pc' = [pc EXCEPT ![Closer] = "draining", ![Listener] = next]
    BY <1>1 DEF CloseBegin
  <2>2. UNCHANGED <<arg, snap>> BY <1>1 DEF CloseBegin, scan
  <2> QED BY <1>l, <2>1, <2>2 DEF Placed, Given
<1>2. CASE AcceptFails \/ Drained
  BY <1>2, <1>l, Moves DEF AcceptFails, Drained, Step, scan, Clearing
<1>3. CASE Panic \/ Exit \/ \E r \in Requests : InspectPanics(r)
  <2>1. \A t \in Threads : pc'[t] \in {"died", "done"}
    BY <1>3 DEF Panic, InspectPanics, Dies, Exit
  <2>2. pc' \in [Threads -> Labels]
    BY <1>3, <1>l DEF Panic, InspectPanics, Dies, Exit
  <2>3. UNCHANGED <<arg, snap>> BY <1>3 DEF Panic, InspectPanics, Dies, Exit, scan
  <2> QED BY <2>1, <2>2, <2>3 DEF Placed, Given
<1>4. CASE Crash
  <2>1. \A t \in Threads : Starts(t) \in {"list", "up", "accept", "idle"}
    BY DEF Starts
  <2>2. pc' \in [Threads -> Labels]
    BY <1>4, <1>l, <2>1 DEF Crash
  <2>3. \A t \in Threads : pc'[t] \notin Acting
    BY <1>4, <2>1 DEF Crash
  <2>4. UNCHANGED arg /\ snap' = {} BY <1>4 DEF Crash
  <2> QED BY <2>2, <2>3, <2>4 DEF Placed, Given
<1> QED BY <1>1, <1>2, <1>3, <1>4 DEF EndStep, Ending

LEMMA PlacedNext == Placed /\ [Next]_vars => Placed'
<1>1. ASSUME Placed, UNCHANGED vars PROVE Placed'
  BY <1>1 DEF vars, scan, Placed, Given
<1>2. ASSUME Placed, Next PROVE Placed'
  BY <1>2, Groups, CreatePlaced, OperationPlaced, ManagerPlaced, ExitPlaced,
     BootPlaced, EndPlaced
<1> QED BY <1>1, <1>2

LEMMA PlacedInit == Init => Placed
<1> SUFFICES ASSUME Init PROVE Placed
  OBVIOUS
<1>1. \A t \in Threads : Starts(t) \in {"list", "up", "accept", "idle"}
  BY DEF Starts
<1> QED BY <1>1 DEF Init, Placed, Given, Acting, Labels

-----------------------------------------------------------------------------
(* What a teardown takes on is one container, or for Close all of them.      *)
LEMMA DoomedOK ==
  ASSUME Placed, NEW t \in Threads, pc[t] \in Acting
  PROVE  Doomed(t) \in {{c} : c \in Containers} \cup {Containers}
BY DEF Doomed, Placed, Given

(* Each step of the proxy is one step of the manager of port forwards, which *)
(* takes its mutex where the manager does, or leaves it alone.               *)
LEMMA PortsStep == ASSUME Placed, Next PROVE PF!Next \/ UNCHANGED pfVars
<1>1. ASSUME NEW r \in Requests, CreateStep(r) PROVE PF!Next \/ UNCHANGED pfVars
  <2>1. CASE CreatePorts(r)
    BY <2>1 DEF CreatePorts, PF!Next
  <2>2. CASE CreatedPorts(r)
    <3>1. arg[r] \in Containers \cup {None} BY DEF Placed, Threads
    <3> QED BY <2>2, <3>1 DEF CreatedPorts, PF!Next
  <2>3. CASE CreateMounts(r) \/ CreateSend(r) \/ CreateLost(r) \/ AnswerUnread(r)
             \/ CreatedMounts(r)
    BY <2>3 DEF CreateMounts, CreateSend, CreateLost, AnswerUnread, CreatedMounts, managers
  <2> QED BY <1>1, <2>1, <2>2, <2>3 DEF CreateStep
<1>2. ASSUME NEW r \in Requests, OperationStep(r) PROVE UNCHANGED pfVars
  BY <1>2 DEF OperationStep, Connect, Add, ReadNext, HangUp, InspectUnknown, CheckRunning,
     Resolve, RemoveSend, RemoveRefused, WaitBroken, Inspect, Start, Stop, Remove, Wait,
     WaitUnknown, managers
<1>3. ASSUME NEW t \in Threads, ManagerStep(t) PROVE PF!Next \/ UNCHANGED pfVars
  <2>1. CASE SetupPFBegin(t)
    <3>1. arg[t] \in Containers
      BY <2>1 DEF SetupPFBegin, Step, Placed, Given, Acting, Clearing
    <3> QED BY <2>1, <3>1 DEF SetupPFBegin, PF!Next
  <2>2. CASE SetupPFItem(t) \/ SetupPFEnd(t)
    BY <2>2 DEF SetupPFItem, SetupPFEnd, PF!Next
  <2>3. CASE TearPFBegin(t)
    <3>1. pc[t] \in Acting BY <2>3 DEF TearPFBegin, Step, Acting
    <3> QED BY <2>3, <3>1, DoomedOK DEF TearPFBegin, PF!Next
  <2>4. CASE TearPFEnd(t)
    <3>1. pc[t] \in Acting BY <2>4 DEF TearPFEnd, Step, Acting
    <3>2. Doomed(t) \subseteq Containers BY <3>1, DoomedOK
    <3>3. PICK kept \in SUBSET (Doomed(t) \X Ports) : PF!TeardownEnd(kept)
      BY <2>4 DEF TearPFEnd
    <3>4. kept \in SUBSET (Containers \X Ports) BY <3>2, <3>3
    <3> QED BY <3>3, <3>4 DEF PF!Next
  <2>5. CASE SetupFSBegin(t) \/ SetupFSItem(t) \/ SetupFSEnd(t) \/ TearFSBegin(t)
             \/ TearFSEnd(t)
    BY <2>5 DEF SetupFSBegin, SetupFSItem, SetupFSEnd, TearFSBegin, TearFSEnd
  <2> QED BY <1>3, <2>1, <2>2, <2>3, <2>4, <2>5 DEF ManagerStep
<1>4. ASSUME NEW c \in Containers, ContainerExits(c) PROVE UNCHANGED pfVars
  BY <1>4 DEF ContainerExits, managers
<1>5. CASE BootStep
  BY <1>5 DEF BootStep, ScanStep, ListRunning, ListForwards, ListSyncs, Sweep, Spawn,
     ScanPorts, ScanMounts, managers, PF!Next
<1>6. CASE EndStep
  BY <1>6 DEF EndStep, CloseBegin, AcceptFails, Drained, managers
<1>7. CASE Ending
  BY <1>7 DEF Ending, Panic, InspectPanics, Dies, Exit, Crash, PF!Next
<1> QED BY <1>1, <1>2, <1>3, <1>4, <1>5, <1>6, <1>7, Groups

(* And one step of the manager of file syncs, or none.                       *)
LEMMA MountsStep == ASSUME Placed, Next PROVE FS!Next \/ UNCHANGED fsVars
<1>1. ASSUME NEW r \in Requests, CreateStep(r) PROVE FS!Next \/ UNCHANGED fsVars
  <2>1. CASE CreateMounts(r)
    BY <2>1 DEF CreateMounts, FS!Next
  <2>2. CASE CreatedMounts(r)
    <3>1. arg[r] \in Containers \cup {None} BY DEF Placed, Threads
    <3> QED BY <2>2, <3>1 DEF CreatedMounts, FS!Next
  <2>3. CASE CreatePorts(r) \/ CreateSend(r) \/ CreateLost(r) \/ AnswerUnread(r)
             \/ CreatedPorts(r)
    BY <2>3 DEF CreatePorts, CreateSend, CreateLost, AnswerUnread, CreatedPorts, managers
  <2> QED BY <1>1, <2>1, <2>2, <2>3 DEF CreateStep
<1>2. ASSUME NEW r \in Requests, OperationStep(r) PROVE UNCHANGED fsVars
  BY <1>2 DEF OperationStep, Connect, Add, ReadNext, HangUp, InspectUnknown, CheckRunning,
     Resolve, RemoveSend, RemoveRefused, WaitBroken, Inspect, Start, Stop, Remove, Wait,
     WaitUnknown, managers
<1>3. ASSUME NEW t \in Threads, ManagerStep(t) PROVE FS!Next \/ UNCHANGED fsVars
  <2>1. CASE SetupFSBegin(t)
    <3>1. arg[t] \in Containers
      BY <2>1 DEF SetupFSBegin, Step, Placed, Given, Acting, Clearing
    <3> QED BY <2>1, <3>1 DEF SetupFSBegin, FS!Next
  <2>2. CASE SetupFSItem(t) \/ SetupFSEnd(t)
    BY <2>2 DEF SetupFSItem, SetupFSEnd, FS!Next
  <2>3. CASE TearFSBegin(t)
    <3>1. pc[t] \in Acting BY <2>3 DEF TearFSBegin, Step, Acting
    <3> QED BY <2>3, <3>1, DoomedOK DEF TearFSBegin, FS!Next
  <2>4. CASE TearFSEnd(t)
    <3>1. pc[t] \in Acting BY <2>4 DEF TearFSEnd, Step, Acting
    <3>2. Doomed(t) \subseteq Containers BY <3>1, DoomedOK
    <3>3. PICK kept \in SUBSET (Doomed(t) \X Mounts) : FS!TeardownEnd(kept)
      BY <2>4 DEF TearFSEnd
    <3>4. kept \in SUBSET (Containers \X Mounts) BY <3>2, <3>3
    <3> QED BY <3>3, <3>4 DEF FS!Next
  <2>5. CASE SetupPFBegin(t) \/ SetupPFItem(t) \/ SetupPFEnd(t) \/ TearPFBegin(t)
             \/ TearPFEnd(t)
    BY <2>5 DEF SetupPFBegin, SetupPFItem, SetupPFEnd, TearPFBegin, TearPFEnd
  <2> QED BY <1>3, <2>1, <2>2, <2>3, <2>4, <2>5 DEF ManagerStep
<1>4. ASSUME NEW c \in Containers, ContainerExits(c) PROVE UNCHANGED fsVars
  BY <1>4 DEF ContainerExits, managers
<1>5. CASE BootStep
  BY <1>5 DEF BootStep, ScanStep, ListRunning, ListForwards, ListSyncs, Sweep, Spawn,
     ScanPorts, ScanMounts, managers, FS!Next
<1>6. CASE EndStep
  BY <1>6 DEF EndStep, CloseBegin, AcceptFails, Drained, managers
<1>7. CASE Ending
  BY <1>7 DEF Ending, Panic, InspectPanics, Dies, Exit, Crash, FS!Next
<1> QED BY <1>1, <1>2, <1>3, <1>4, <1>5, <1>6, <1>7, Groups

(* The proxy drives the manager of port forwards only through the manager's  *)
(* own operations, one holder of its mutex at a time: handlers, goroutines,  *)
(* boot scan, Close and crash together (proxy.go, port-forward.go).          *)
THEOREM PortsOnlyManaged == Spec => PortsManaged
<1>1. Init => PF!Init
  BY DEF Init
<1>2. Placed /\ [Next]_vars => [PF!Next]_(PF!vars)
  BY PortsStep DEF vars, managers, pfVars, PF!vars
<1> QED BY <1>1, <1>2, PlacedInit, PlacedNext, PTL DEF Spec, PortsManaged, PF!Spec

(* Likewise the manager of file syncs (proxy.go, file-sync.go).              *)
THEOREM MountsOnlyManaged == Spec => MountsManaged
<1>1. Init => FS!Init
  BY DEF Init
<1>2. Placed /\ [Next]_vars => [FS!Next]_(FS!vars)
  BY MountsStep DEF vars, managers, fsVars, FS!vars
<1> QED BY <1>1, <1>2, PlacedInit, PlacedNext, PTL DEF Spec, MountsManaged, FS!Spec

-----------------------------------------------------------------------------
(* The bounds of the environment are used up one by one.                     *)
EnvOK == env \in [world : Environments, used : [Bounds -> Nat]]
Faulty == env.used["faults"] > 0
Uses == \E b \in Bounds : Use(b)

LEMMA FaultUses == Fault => Uses
BY DEF Fault, Uses, Bounds

LEMMA MayFailUses == \A failed \in BOOLEAN : MayFail(failed) => UNCHANGED env \/ Uses
BY FaultUses DEF MayFail

LEMMA UsesOK == ASSUME EnvOK, Uses \/ UNCHANGED env PROVE EnvOK' /\ (Faulty => Faulty')
<1>1. CASE UNCHANGED env
  BY <1>1 DEF EnvOK, Faulty
<1>2. CASE Uses
  <2>1. PICK b \in Bounds : env' = [env EXCEPT !.used[b] = @ + 1]
    BY <1>2 DEF Uses, Use
  <2>2. env.used \in [Bounds -> Nat] /\ env.world \in Environments
    BY DEF EnvOK
  <2>3. env' = [env EXCEPT !.used = [env.used EXCEPT ![b] = env.used[b] + 1]]
    BY <2>1 DEF EnvOK
  <2>4. env'.world = env.world /\ env'.used = [env.used EXCEPT ![b] = env.used[b] + 1]
    BY <2>3 DEF EnvOK
  <2>5. env'.used \in [Bounds -> Nat] /\ env'.used["faults"] >= env.used["faults"]
    BY <2>2, <2>4 DEF Bounds
  <2>6. EnvOK' BY <2>2, <2>3, <2>4, <2>5 DEF EnvOK
  <2> QED BY <2>2, <2>5, <2>6 DEF Faulty, Bounds
<1> QED BY <1>1, <1>2

LEMMA FaultSeen == ASSUME EnvOK, Fault PROVE Faulty'
<1>1. env' = [env EXCEPT !.used["faults"] = @ + 1]
  BY DEF Fault, Use
<1>2. "faults" \in Bounds /\ env.used \in [Bounds -> Nat]
  BY DEF EnvOK, Bounds
<1>3. env'.used["faults"] = env.used["faults"] + 1
  BY <1>1, <1>2 DEF EnvOK
<1> QED BY <1>2, <1>3 DEF Faulty

LEMMA EnvStep == Next => UNCHANGED env \/ Uses
<1>1. ASSUME NEW r \in Requests, CreateStep(r) PROVE UNCHANGED env \/ Uses
  BY <1>1, FaultUses DEF CreateStep, CreatePorts, CreateMounts, CreateSend, CreateLost,
     AnswerUnread, CreatedPorts, CreatedMounts
<1>2. ASSUME NEW r \in Requests, OperationStep(r) PROVE UNCHANGED env \/ Uses
  <2>1. CASE \/ Connect(r) \/ Add(r) \/ ReadNext(r) \/ HangUp(r) \/ InspectUnknown(r)
             \/ RemoveRefused(r) \/ WaitBroken(r)
    BY <2>1, FaultUses DEF Connect, Add, ReadNext, HangUp, InspectUnknown, RemoveRefused,
       WaitBroken
  <2>2. CASE CheckRunning(r) \/ Resolve(r) \/ RemoveSend(r) \/ Inspect(r)
    BY <2>2, MayFailUses DEF CheckRunning, Resolve, RemoveSend, Inspect
  <2>3. ASSUME NEW x \in Containers \cup Names, Start(r, x) PROVE UNCHANGED env \/ Uses
    BY <2>3, FaultUses DEF Start, Uses, Bounds
  <2>4. ASSUME NEW x \in Containers \cup Names, Stop(r, x) \/ Remove(r, x)
        PROVE  UNCHANGED env \/ Uses
    BY <2>4, MayFailUses DEF Stop, Remove
  <2>5. ASSUME NEW x \in Containers \cup Names, Wait(r, x) \/ WaitUnknown(r, x)
        PROVE  UNCHANGED env \/ Uses
    BY <2>5 DEF Wait, WaitUnknown
  <2> QED BY <1>2, <2>1, <2>2, <2>3, <2>4, <2>5 DEF OperationStep
<1>3. ASSUME NEW t \in Threads, ManagerStep(t) PROVE UNCHANGED env \/ Uses
  <2>1. CASE TearPFEnd(t) \/ TearFSEnd(t)
    <3>1. \A kept : (kept # {}) \in BOOLEAN OBVIOUS
    <3> QED BY <2>1, <3>1, MayFailUses DEF TearPFEnd, TearFSEnd
  <2>2. CASE SetupPFItem(t) \/ SetupFSItem(t)
    BY <2>2, FaultUses DEF SetupPFItem, SetupFSItem
  <2> QED BY <1>3, <2>1, <2>2 DEF ManagerStep, SetupPFBegin, SetupPFEnd, SetupFSBegin,
          SetupFSEnd, TearPFBegin, TearFSBegin
<1>4. ASSUME NEW c \in Containers, ContainerExits(c) PROVE UNCHANGED env \/ Uses
  BY <1>4 DEF ContainerExits, Uses, Bounds
<1>5. CASE BootStep
  BY <1>5, MayFailUses DEF BootStep, ScanStep, ListRunning, ListForwards, ListSyncs,
     Sweep, Spawn, ScanPorts, ScanMounts
<1>6. CASE EndStep
  BY <1>6 DEF EndStep, CloseBegin, AcceptFails, Drained
<1>7. CASE Ending
  BY <1>7 DEF Ending, Panic, InspectPanics, Dies, Exit, Crash, Uses, Bounds
<1> QED BY <1>1, <1>2, <1>3, <1>4, <1>5, <1>6, <1>7, Groups

-----------------------------------------------------------------------------
(* An entry of a create request is there only while its handler will give it *)
(* up, unless an exchange was lost.                                          *)
Recorded == {"mounts", "sending", "created", "refused", "endFS"}
Owed(r) ==
  /\ pfPending[r] # {} => pc[r] \in Recorded \ {"endFS"} \/ Faulty
  /\ fsPending[r] # {} => pc[r] \in Recorded \ {"mounts"} \/ Faulty
PendingOwed ==
  /\ pfPending \in [Requests -> SUBSET Ports]
  /\ fsPending \in [Requests -> SUBSET Mounts]
  /\ \A r \in Requests : Owed(r)

(* What leaves the entries alone does not move a handler that has one.       *)
Calm ==
  /\ UNCHANGED <<pfPending, fsPending>>
  /\ \A q \in Requests : pc[q] \in Recorded => pc'[q] = pc[q]

LEMMA CalmOK ==
  ASSUME PendingOwed, Calm, Faulty => Faulty'
  PROVE  PendingOwed'
BY DEF PendingOwed, Owed, Calm

(* None of the other requests' steps ...                                     *)
LEMMA OperationCalm == ASSUME Placed, NEW r \in Requests, OperationStep(r) PROVE Calm
<1>1. UNCHANGED <<pfPending, fsPending>>
  BY DEF OperationStep, Connect, Add, ReadNext, HangUp, InspectUnknown, CheckRunning,
     Resolve, RemoveSend, RemoveRefused, WaitBroken, Inspect, Start, Stop, Remove, Wait,
     WaitUnknown,
     managers, pfVars, fsVars
<1>2. \A q \in Requests : q \in Threads /\ q # Listener
  BY ThreadsAssumption DEF Threads
<1>3. r \in Threads BY DEF Threads
<1>4. \A c \in Containers, q \in Requests :
        pc[q] # "waiting" => Answered(pc, c)[q] = pc[q]
  BY <1>2 DEF Answered
<1>5. pc[r] \notin Recorded
  BY DEF OperationStep, Connect, Add, ReadNext, HangUp, InspectUnknown, CheckRunning,
     Resolve, RemoveSend, RemoveRefused, WaitBroken, Inspect, Start, Stop, Remove, Wait,
     WaitUnknown, Step, CanSend, Accepts, IsNext, Recorded
<1>6. \A q \in Requests \ {r} : pc[q] # "waiting" => pc'[q] = pc[q]
  <2>1. CASE \/ Connect(r) \/ Add(r)
    BY <1>2, <2>1 DEF Connect, Add, Placed
  <2>2. CASE \/ ReadNext(r) \/ HangUp(r) \/ InspectUnknown(r) \/ CheckRunning(r)
             \/ Resolve(r) \/ RemoveRefused(r)
             \/ WaitBroken(r) \/ Inspect(r)
    BY <1>2, <2>2 DEF ReadNext, HangUp, InspectUnknown, CheckRunning, Resolve,
       RemoveRefused, WaitBroken, Inspect, Step, Placed
  <2>3. CASE RemoveSend(r)
    <3>1. PICK c \in Containers, to \in Labels : pc' = [Answered(pc, c) EXCEPT ![r] = to]
      BY <2>3, TargetOK DEF RemoveSend, Labels
    <3> QED BY <1>2, <1>4, <3>1 DEF Answered
  <2>4. ASSUME NEW x \in Containers \cup Names, Stop(r, x)
        PROVE  \A q \in Requests \ {r} : pc[q] # "waiting" => pc'[q] = pc[q]
    <3>1. PICK c \in Containers, to \in Labels : pc' = [Answered(pc, c) EXCEPT ![r] = to]
      BY <2>4, TargetOK DEF Stop, Labels
    <3> QED BY <1>2, <1>4, <3>1 DEF Answered
  <2>5. ASSUME NEW x \in Containers \cup Names, Start(r, x) \/ Remove(r, x)
        PROVE  \A q \in Requests \ {r} : pc[q] # "waiting" => pc'[q] = pc[q]
    BY <1>2, <2>5 DEF Start, Remove, Placed
  <2>6. ASSUME NEW x \in Containers \cup Names, Wait(r, x) \/ WaitUnknown(r, x)
        PROVE  \A q \in Requests \ {r} : pc[q] # "waiting" => pc'[q] = pc[q]
    BY <1>2, <2>6 DEF Wait, WaitUnknown, Placed
  <2> QED BY <2>1, <2>2, <2>3, <2>4, <2>5, <2>6 DEF OperationStep
<1> QED BY <1>1, <1>5, <1>6 DEF Calm, Recorded

(* ... nor those of the goroutines, the containers and Close.                *)
LEMMA OthersCalm ==
  ASSUME Placed,
         \/ \E t \in Threads : ManagerStep(t)
         \/ \E c \in Containers : ContainerExits(c)
         \/ BootStep \/ EndStep
  PROVE  Calm
<1>2. \A q \in Requests : q \in Threads /\ q \notin {Boot, Closer, Listener} \cup Containers
  BY ThreadsAssumption DEF Threads
<1>3. ASSUME NEW t \in Threads, ManagerStep(t) PROVE Calm
  <2>1. UNCHANGED <<pfPending, fsPending>>
    BY <1>3 DEF ManagerStep, SetupPFBegin, SetupPFItem, SetupPFEnd, SetupFSBegin,
       SetupFSItem, SetupFSEnd, TearPFBegin, TearPFEnd, TearFSBegin, TearFSEnd,
       pfVars, fsVars, PF!SetupBegin, PF!SetupItem, PF!SetupItemFails, PF!SetupEnd,
       PF!TeardownBegin, PF!TeardownEnd, FS!SetupBegin, FS!SetupItem,
       FS!SetupItemFails, FS!SetupEnd, FS!TeardownBegin, FS!TeardownEnd
  <2>2. pc[t] \notin Recorded /\ (\/ UNCHANGED pc
                                  \/ \E to \in Labels : pc' = [pc EXCEPT ![t] = to])
    BY <1>3 DEF ManagerStep, SetupPFBegin, SetupPFItem, SetupPFEnd, SetupFSBegin,
       SetupFSItem, SetupFSEnd, TearPFBegin, TearPFEnd, TearFSBegin, TearFSEnd, Step,
       Recorded, Labels
  <2> QED BY <1>2, <2>1, <2>2 DEF Calm, Placed
<1>4. ASSUME NEW c \in Containers, ContainerExits(c) PROVE Calm
  BY <1>2, <1>4 DEF ContainerExits, Answered, Calm, Recorded, managers, pfVars, fsVars
<1>5. CASE BootStep
  <2>1. UNCHANGED <<pfPending, fsPending>>
    BY <1>5 DEF BootStep, ScanStep, ListRunning, ListForwards, ListSyncs, Sweep, Spawn,
       ScanPorts, ScanMounts, managers, pfVars, fsVars, PF!StoreForContainer,
       FS!StoreForContainer
  <2>2. CASE ScanStep /\ ~Spawn
    <3>1. \E to \in Labels : pc' = [pc EXCEPT ![Boot] = to]
      BY <2>2 DEF ScanStep, ListRunning, ListForwards, ListSyncs, Sweep, Step, Labels
    <3> QED BY <1>2, <2>1, <3>1 DEF Calm, Placed
  <2>3. CASE Spawn
    <3>1. \A q \in Requests : q # Boot /\ q \notin snap \ old
      BY <1>2 DEF Placed
    <3> QED BY <1>2, <2>1, <2>3, <3>1 DEF Calm, Spawn
  <2>4. ASSUME NEW c \in Containers, ScanPorts(c) \/ ScanMounts(c) PROVE Calm
    <3>1. \E to \in Labels : pc' = [pc EXCEPT ![c] = to]
      BY <2>4 DEF ScanPorts, ScanMounts, Step, Labels
    <3> QED BY <1>2, <2>1, <3>1 DEF Calm, Placed
  <2> QED BY <1>5, <2>2, <2>3, <2>4 DEF BootStep
<1>6. CASE EndStep
  <2>1. UNCHANGED <<pfPending, fsPending>>
    BY <1>6 DEF EndStep, CloseBegin, AcceptFails, Drained, managers, pfVars, fsVars
  <2>2. CASE CloseBegin
    BY <1>2, <2>1, <2>2 DEF CloseBegin, Calm, Placed
  <2>3. CASE AcceptFails \/ Drained
    BY <1>2, <2>1, <2>3 DEF AcceptFails, Drained, Step, Calm, Placed
  <2> QED BY <1>6, <2>2, <2>3 DEF EndStep
<1> QED BY <1>3, <1>4, <1>5, <1>6

(* A create request records, forwards and gives up both entries in turn;     *)
(* only a lost exchange makes its handler return with them.                  *)
LEMMA CreateOwed ==
  ASSUME Placed, EnvOK, PendingOwed, NEW r \in Requests, CreateStep(r), Faulty => Faulty'
  PROVE  PendingOwed'
<1> r \in Threads BY DEF Threads
<1> USE DEF Recorded
<1> DEFINE Rest == \A q \in Requests \ {r} : /\ pc'[q] = pc[q]
                                             /\ pfPending'[q] = pfPending[q]
                                             /\ fsPending'[q] = fsPending[q]
           Typed == /\ pfPending' \in [Requests -> SUBSET Ports]
                    /\ fsPending' \in [Requests -> SUBSET Mounts]
<1>r. ASSUME Rest, Typed, Owed(r)' PROVE PendingOwed'
  BY <1>r DEF PendingOwed, Owed
<1>t. \A q \in Requests : q \in Threads BY DEF Threads
<1>1. CASE CreatePorts(r)
  <2>1. /\ pfPending' = [pfPending EXCEPT ![r] = Ports] /\ fsPending' = fsPending
        /\ pc' = [pc EXCEPT ![r] = "mounts"]
    BY <1>1 DEF CreatePorts, PF!StoreStart, fsVars
  <2>2. pc[r] \in {"open", "idle"} BY <1>1 DEF CreatePorts, CanSend, Accepts, IsNext
  <2>3. Rest /\ Typed BY <1>t, <2>1 DEF Placed, PendingOwed
  <2>4. pc'[r] = "mounts" BY <2>1 DEF Placed
  <2>5. Owed(r)' BY <2>1, <2>2, <2>4 DEF PendingOwed, Owed
  <2> QED BY <1>r, <2>3, <2>5
<1>2. CASE CreateMounts(r)
  <2>1. /\ fsPending' = [fsPending EXCEPT ![r] = Mounts] /\ pfPending' = pfPending
        /\ pc' = [pc EXCEPT ![r] = "sending"]
    BY <1>2 DEF CreateMounts, Step, FS!StoreStart, pfVars
  <2>2. Rest /\ Typed BY <1>t, <2>1 DEF Placed, PendingOwed
  <2>3. pc'[r] = "sending" BY <2>1 DEF Placed
  <2>4. Owed(r)' BY <2>3 DEF Owed
  <2> QED BY <1>r, <2>2, <2>4
<1>3. CASE CreateSend(r)
  <2>1. UNCHANGED <<pfPending, fsPending>>
    BY <1>3 DEF CreateSend, managers, pfVars, fsVars
  <2>2. PICK to \in {"created", "refused"} : pc' = [pc EXCEPT ![r] = to]
    BY <1>3 DEF CreateSend
  <2>3. Rest /\ Typed BY <1>t, <2>1, <2>2 DEF Placed, PendingOwed
  <2>4. Owed(r)' BY <2>2 DEF Owed, Placed
  <2> QED BY <1>r, <2>3, <2>4
<1>4. CASE CreateLost(r)
  <2>1. UNCHANGED <<pfPending, fsPending>> /\ pc' = [pc EXCEPT ![r] = "done"]
    BY <1>4 DEF CreateLost, Step, managers, pfVars, fsVars
  <2>2. Faulty' BY <1>4, FaultSeen DEF CreateLost
  <2>3. Rest /\ Typed BY <1>t, <2>1 DEF Placed, PendingOwed
  <2>4. Owed(r)' BY <2>2 DEF Owed
  <2> QED BY <1>r, <2>3, <2>4
<1>5. CASE AnswerUnread(r)
  <2>1. UNCHANGED <<pfPending, fsPending>> /\ pc' = [pc EXCEPT ![r] = "refused"]
    BY <1>5 DEF AnswerUnread, Step, managers, pfVars, fsVars
  <2>2. Rest /\ Typed BY <1>t, <2>1 DEF Placed, PendingOwed
  <2>3. Owed(r)' BY <2>1 DEF Owed, Placed
  <2> QED BY <1>r, <2>2, <2>3
<1>6. CASE CreatedPorts(r)
  <2>1. /\ pfPending' = [pfPending EXCEPT ![r] = {}] /\ fsPending' = fsPending
        /\ pc' = [pc EXCEPT ![r] = "endFS"]
    BY <1>6 DEF CreatedPorts, Step, PF!StoreEnd, fsVars
  <2>2. Rest /\ Typed BY <1>t, <2>1 DEF Placed, PendingOwed
  <2>3. pc'[r] = "endFS" /\ pfPending'[r] = {} BY <2>1 DEF Placed, PendingOwed
  <2>4. Owed(r)' BY <2>3 DEF Owed
  <2> QED BY <1>r, <2>2, <2>4
<1>7. CASE CreatedMounts(r)
  <2>1. /\ fsPending' = [fsPending EXCEPT ![r] = {}] /\ pfPending' = pfPending
        /\ pc' = [pc EXCEPT ![r] = "done"] /\ pc[r] = "endFS"
    BY <1>7 DEF CreatedMounts, Step, FS!StoreEnd, pfVars
  <2>2. Rest /\ Typed BY <1>t, <2>1 DEF Placed, PendingOwed
  <2>3. pc'[r] = "done" /\ fsPending'[r] = {} BY <2>1 DEF Placed, PendingOwed
  <2>4. Owed(r)' BY <2>1, <2>3 DEF Owed, PendingOwed
  <2> QED BY <1>r, <2>2, <2>4
<1> QED BY <1>1, <1>2, <1>3, <1>4, <1>5, <1>6, <1>7 DEF CreateStep

LEMMA OwedNext ==
  ASSUME Placed, EnvOK, PendingOwed, [Next]_vars
  PROVE  EnvOK' /\ PendingOwed'
<1>1. CASE UNCHANGED vars
  BY <1>1 DEF vars, managers, pfVars, fsVars, EnvOK, PendingOwed, Owed, Faulty
<1>2. CASE Next
  <2>1. EnvOK' /\ (Faulty => Faulty') BY <1>2, EnvStep, UsesOK
  <2>2. CASE Ending
    <3>1. /\ pfPending' = [r \in Requests |-> {}]
          /\ fsPending' = [r \in Requests |-> {}]
      BY <2>2 DEF Ending, Panic, InspectPanics, Dies, Exit, Crash, PF!Restart, FS!Restart
    <3> QED BY <2>1, <3>1 DEF PendingOwed, Owed
  <2>3. CASE ~Ending
    BY <1>2, <2>1, <2>3, Groups, CreateOwed, OperationCalm, OthersCalm, CalmOK
  <2> QED BY <2>1, <2>2, <2>3
<1> QED BY <1>1, <1>2

(* What a create request asked for is forgotten by both managers when its    *)
(* handler is done, refused or not, for any containers, connections and      *)
(* environments (proxy-api-create.go, port-forward.go, file-sync.go).        *)
THEOREM Released == Spec => []PendingReleased
<1>1. Init => EnvOK /\ PendingOwed
  BY DEF Init, PF!Init, FS!Init, EnvOK, PendingOwed, Owed, Bounds
<1>2. EnvOK /\ PendingOwed => PendingReleased
  <2> SUFFICES ASSUME EnvOK, PendingOwed, NoneOf({"faults"}), NEW r \in Requests,
                      pc[r] = "done"
               PROVE  pfPending[r] = {} /\ fsPending[r] = {}
    BY DEF PendingReleased
  <2>1. ~Faulty BY DEF NoneOf, Faulty
  <2> QED BY <2>1 DEF PendingOwed, Owed, Recorded
<1>3. Placed /\ EnvOK /\ PendingOwed /\ [Next]_vars => (Placed /\ EnvOK /\ PendingOwed)'
  BY PlacedNext, OwedNext
<1> QED BY <1>1, <1>2, <1>3, PlacedInit, PTL DEF Spec

-----------------------------------------------------------------------------
(* The two managers, with what is proved of them in BridgeManagerProofs.     *)
PFP == INSTANCE BridgeManagerProofs WITH
         Items <- Ports, NoContainer <- None, pending <- pfPending,
         stored <- pfStored, live <- pfLive, job <- pfJob, stray <- pfStray
FSP == INSTANCE BridgeManagerProofs WITH
         Items <- Mounts, NoContainer <- None, pending <- fsPending,
         stored <- fsStored, live <- fsLive, job <- fsJob, stray <- fsStray

LEMMA PortsProved == PF!Spec => PFP!Spec
<1>1. PF!Init => PFP!Init
  BY DEF PF!Init, PFP!Init, PF!Idle, PFP!Idle
<1>2. [PF!Next]_(PF!vars) => [PFP!Next]_(PFP!vars)
  BY DEF PF!vars, PF!Next, PF!StoreStart, PF!StoreEnd, PF!StoreForContainer,
     PF!SetupBegin, PF!SetupItem, PF!SetupItemFails, PF!SetupEnd, PF!TeardownBegin,
     PF!TeardownEnd, PF!Restart, PF!MuFree, PF!Idle, PF!SessionContainers,
     PFP!vars, PFP!Next, PFP!StoreStart, PFP!StoreEnd, PFP!StoreForContainer,
     PFP!SetupBegin, PFP!SetupItem, PFP!SetupItemFails, PFP!SetupEnd, PFP!TeardownBegin,
     PFP!TeardownEnd, PFP!Restart, PFP!MuFree, PFP!Idle, PFP!SessionContainers
<1> QED BY <1>1, <1>2, PTL DEF PF!Spec, PFP!Spec

LEMMA MountsProved == FS!Spec => FSP!Spec
<1>1. FS!Init => FSP!Init
  BY DEF FS!Init, FSP!Init, FS!Idle, FSP!Idle
<1>2. [FS!Next]_(FS!vars) => [FSP!Next]_(FSP!vars)
  BY DEF FS!vars, FS!Next, FS!StoreStart, FS!StoreEnd, FS!StoreForContainer,
     FS!SetupBegin, FS!SetupItem, FS!SetupItemFails, FS!SetupEnd, FS!TeardownBegin,
     FS!TeardownEnd, FS!Restart, FS!MuFree, FS!Idle, FS!SessionContainers,
     FSP!vars, FSP!Next, FSP!StoreStart, FSP!StoreEnd, FSP!StoreForContainer,
     FSP!SetupBegin, FSP!SetupItem, FSP!SetupItemFails, FSP!SetupEnd, FSP!TeardownBegin,
     FSP!TeardownEnd, FSP!Restart, FSP!MuFree, FSP!Idle, FSP!SessionContainers
<1> QED BY <1>1, <1>2, PTL DEF FS!Spec, FSP!Spec

(* What the manager theorems say of any behaviour of a manager.              *)
LEMMA PortsInv == Spec => [](PF!TypeOK /\ PF!JobOwnsEntries /\ PF!SessionsTracked)
<1>1. None \notin Containers BY NamesAssumption
<1>2. PFP!Spec => [](PFP!TypeOK /\ PFP!JobOwnsEntries /\ PFP!SessionsTracked)
  BY <1>1, SessionsAssumption, PFP!TypeCorrect, PFP!EntriesOwned, PFP!AllTracked, PTL
<1>3. PFP!TypeOK => PF!TypeOK
  BY DEF PFP!TypeOK, PF!TypeOK, PFP!Jobs, PF!Jobs, PFP!Idle, PF!Idle
<1>4. PFP!JobOwnsEntries /\ PFP!SessionsTracked => PF!JobOwnsEntries /\ PF!SessionsTracked
  BY DEF PFP!JobOwnsEntries, PF!JobOwnsEntries, PFP!SessionsTracked, PF!SessionsTracked
<1> QED BY PortsOnlyManaged, PortsProved, <1>2, <1>3, <1>4, PTL DEF PortsManaged

LEMMA MountsInv == Spec => [](FS!TypeOK /\ FS!JobOwnsEntries /\ FS!SessionsTracked)
<1>1. None \notin Containers BY NamesAssumption
<1>2. FSP!Spec => [](FSP!TypeOK /\ FSP!JobOwnsEntries /\ FSP!SessionsTracked)
  BY <1>1, SessionsAssumption, FSP!TypeCorrect, FSP!EntriesOwned, FSP!AllTracked, PTL
<1>3. FSP!TypeOK => FS!TypeOK
  BY DEF FSP!TypeOK, FS!TypeOK, FSP!Jobs, FS!Jobs, FSP!Idle, FS!Idle
<1>4. FSP!JobOwnsEntries /\ FSP!SessionsTracked => FS!JobOwnsEntries /\ FS!SessionsTracked
  BY DEF FSP!JobOwnsEntries, FS!JobOwnsEntries, FSP!SessionsTracked, FS!SessionsTracked
<1> QED BY MountsOnlyManaged, MountsProved, <1>2, <1>3, <1>4, PTL DEF MountsManaged

(* In the proxy no session of either kind outlives its manager's knowledge   *)
(* of the container, and no teardown takes the entry a setup works from:     *)
(* handlers, goroutines, boot scan and Close hold m.mu (port-forward.go,     *)
(* file-sync.go).                                                            *)
THEOREM ProxyTracks ==
  Spec => [](/\ PF!JobOwnsEntries /\ PF!SessionsTracked
             /\ FS!JobOwnsEntries /\ FS!SessionsTracked)
<1> QED BY PortsInv, MountsInv, PTL

-----------------------------------------------------------------------------
(* The type invariant: what remains of it beside Placed, the environment and *)
(* the managers.                                                             *)
RestOK ==
  /\ docker \in [Containers -> {"absent", "created", "running", "exited", "gone"}]
  /\ ref \in [Requests -> Containers \cup Names \cup {None}]
  /\ wg \subseteq Requests /\ between \in Nat
  /\ old \subseteq Containers
Within == EnvOK /\ \A b \in Bounds : env.used[b] <= env.world.most[b]

LEMMA WithinOK == ASSUME Within, Uses \/ UNCHANGED env PROVE Within'
<1>1. CASE UNCHANGED env
  BY <1>1 DEF Within, EnvOK
<1>2. CASE Uses
  <2>1. PICK b \in Bounds : /\ env.used[b] < env.world.most[b]
                            /\ env' = [env EXCEPT !.used[b] = @ + 1]
    BY <1>2 DEF Uses, Use
  <2>2. env.used \in [Bounds -> Nat] /\ env.world \in Environments
    BY DEF Within, EnvOK
  <2>3. env.world.most \in [Bounds -> Nat]
    BY <2>2, EnvironmentsAssumption
  <2>4. env' = [env EXCEPT !.used = [env.used EXCEPT ![b] = env.used[b] + 1]]
    BY <2>1 DEF Within, EnvOK
  <2>5. env'.world = env.world /\ env'.used = [env.used EXCEPT ![b] = env.used[b] + 1]
    BY <2>4 DEF Within, EnvOK
  <2>6. \A d \in Bounds : env'.used[d] <= env'.world.most[d]
    <3> SUFFICES ASSUME NEW d \in Bounds PROVE env'.used[d] <= env'.world.most[d]
      OBVIOUS
    <3>1. CASE d = b BY <2>1, <2>2, <2>3, <2>5, <3>1
    <3>2. CASE d # b BY <2>2, <2>5, <3>2 DEF Within
    <3> QED BY <3>1, <3>2
  <2>7. EnvOK' BY <1>2, UsesOK DEF Within
  <2> QED BY <2>6, <2>7 DEF Within
<1> QED BY <1>1, <1>2

LEMMA RestNext == ASSUME RestOK, Next PROVE RestOK'
<1> USE DEF RestOK, Returns, Through
<1>1. ASSUME NEW r \in Requests, CreateStep(r) PROVE RestOK'
  BY <1>1 DEF CreateStep, CreatePorts, CreateMounts, CreateSend, CreateLost, AnswerUnread,
     CreatedPorts, CreatedMounts, scan
<1>2. ASSUME NEW r \in Requests, OperationStep(r) PROVE RestOK'
  <2>1. CASE \/ Connect(r) \/ Add(r) \/ ReadNext(r) \/ HangUp(r) \/ InspectUnknown(r)
             \/ RemoveRefused(r) \/ WaitBroken(r)
             \/ CheckRunning(r) \/ Resolve(r)
    BY <2>1 DEF Connect, Add, ReadNext, HangUp, InspectUnknown, RemoveRefused, WaitBroken,
       CheckRunning, Resolve, scan
  <2>2. CASE Inspect(r)
    BY <2>2 DEF Inspect, scan
  <2>3. CASE RemoveSend(r)
    <3>1. PICK c \in Containers : docker' = [docker EXCEPT ![c] = "gone"]
      BY <2>3, TargetOK DEF RemoveSend
    <3>2. wg' = wg \ {r} /\ between' \in {between, between + 1} /\ UNCHANGED <<ref, old>>
      BY <2>3 DEF RemoveSend, scan
    <3> QED BY <3>1, <3>2
  <2>4. ASSUME NEW x \in Containers \cup Names, Start(r, x) \/ Stop(r, x) PROVE RestOK'
    BY <2>4 DEF Start, Stop, scan
  <2>5. ASSUME NEW x \in Containers \cup Names, Remove(r, x) \/ Wait(r, x) \/ WaitUnknown(r, x)
        PROVE  RestOK'
    BY <2>5 DEF Remove, Wait, WaitUnknown, scan
  <2> QED BY <1>2, <2>1, <2>2, <2>3, <2>4, <2>5 DEF OperationStep
<1>3. ASSUME NEW t \in Threads, ManagerStep(t) PROVE RestOK'
  BY <1>3 DEF ManagerStep, SetupPFBegin, SetupPFItem, SetupPFEnd, SetupFSBegin, SetupFSItem,
     SetupFSEnd, TearPFBegin, TearPFEnd, TearFSBegin, TearFSEnd, scan
<1>4. ASSUME NEW c \in Containers, ContainerExits(c) PROVE RestOK'
  BY <1>4 DEF ContainerExits, scan
<1>5. CASE BootStep
  BY <1>5 DEF BootStep, ScanStep, ListRunning, ListForwards, ListSyncs, Sweep, Spawn,
     ScanPorts, ScanMounts, scan, PF!SessionContainers, FS!SessionContainers
<1>6. CASE EndStep
  BY <1>6 DEF EndStep, CloseBegin, AcceptFails, Drained, scan
<1>7. CASE Ending
  BY <1>7 DEF Ending, Panic, InspectPanics, Dies, Exit, Crash, scan
<1> QED BY <1>1, <1>2, <1>3, <1>4, <1>5, <1>6, <1>7, Groups

(* The state of the proxy is well typed in every behaviour, and no bound of  *)
(* its environment is exceeded (proxy.go).                                   *)
THEOREM TypeCorrect == Spec => []TypeOK
<1>1. Init => RestOK /\ Within
  <2> SUFFICES ASSUME Init PROVE RestOK /\ Within
    OBVIOUS
  <2>1. RestOK BY DEF Init, RestOK
  <2>2. EnvOK BY DEF Init, EnvOK, Bounds
  <2>3. \A b \in Bounds : env.used[b] = 0 BY DEF Init
  <2>4. env.world.most \in [Bounds -> Nat] BY <2>2, EnvironmentsAssumption DEF EnvOK
  <2> QED BY <2>1, <2>2, <2>3, <2>4 DEF Within
<1>2. RestOK /\ Within /\ [Next]_vars => (RestOK /\ Within)'
  <2>1. ASSUME RestOK, Within, UNCHANGED vars PROVE RestOK' /\ Within'
    BY <2>1 DEF vars, scan, RestOK, Within, EnvOK
  <2>2. ASSUME RestOK, Within, Next PROVE RestOK' /\ Within'
    BY <2>2, RestNext, EnvStep, WithinOK
  <2> QED BY <2>1, <2>2
<1>3. Placed /\ RestOK /\ Within /\ PF!TypeOK /\ FS!TypeOK => TypeOK
  BY DEF TypeOK, Placed, RestOK, Within, EnvOK
<1> QED BY <1>1, <1>2, <1>3, PlacedInit, PlacedNext, PortsInv, MountsInv, PTL DEF Spec

-----------------------------------------------------------------------------
(* Who is where.                                                            *)

Regular == /\ Without({"duringBoot", "closeDuringBoot"})
           /\ Without({"late"}) \/ Without({"keepalive"})

(* Where a connection handler is at work, and Close waits for it.            *)
Handling == {"open", "mounts", "sending", "created", "refused", "endFS",
             "removing", "waiting", "inspect", "unknown"}
Late == Handling \cup {"accepted"}
(* Where a request has no container, has been answered one, and is set up.   *)
Asking == {"idle", "accepted", "open", "mounts", "sending", "refused"}
Answering == {"created", "refused", "endFS"}
SettingUp == {"check", "storePF", "storeFS", "setupPF", "settingPF", "setupFS", "settingFS"}

(* Close comes by these labels, in this order.                               *)
AtClose == {"up", "draining", "tearPF", "tearingPF", "tearFS", "tearingFS", "exit",
            "done", "died"}
Drain == {"tearPF", "tearingPF", "tearFS", "tearingFS", "exit"}

(* The listener accepts while Close was not called, one at a time.           *)
Accepting ==
  /\ pc[Closer] \in AtClose /\ pc[Listener] \in {"accept", "add", "stale", "done"}
  /\ pc[Closer] # "up" => pc[Listener] # "accept"
  /\ \A r \in Requests : pc[r] = "accepted" => pc[Listener] = "add"
  /\ \A r, q \in Requests : pc[r] = "accepted" /\ pc[q] = "accepted" => r = q

(* Close waits for every handler, but for a connection accepted too late.    *)
Counted ==
  /\ \A r \in Requests : pc[r] \in Handling => r \in wg
  /\ between > 0 => ~Without({"keepalive"})
  /\ \A r \in Requests : pc[r] = "accepted" => ~Without({"late"})
  /\ Regular /\ pc[Closer] \in Drain =>
       /\ between = 0
       /\ Without({"late"}) => \A r \in Requests : pc[r] \notin Late
       /\ \A r, q \in Requests : pc[r] \in Late /\ pc[q] \in Late => r = q

(* The boot scan is over when Close begins, and all is when Close is.        *)
Over ==
  /\ Regular /\ pc[Closer] \in {"draining"} \cup Drain =>
       pc[Boot] = "done" /\ \A c \in Containers : pc[c] \in {"idle", "done"}
  /\ pc[Closer] = "done" => \A t \in Threads : pc[t] = "done"

(* A manager's mutex is held by the thread that is between begin and end.    *)
Holds(t, job, setting, tearing) ==
  /\ pc[t] = setting => job.op = "setup" /\ job.on = {arg[t]}
  /\ pc[t] = tearing => job.op = "teardown" /\ job.on = Doomed(t)
OneHolder(setting, tearing) ==
  \A t, u \in Threads :
    pc[t] \in {setting, tearing} /\ pc[u] \in {setting, tearing} => t = u
PortsHeld ==
  /\ \A t \in Threads : Holds(t, pfJob, "settingPF", "tearingPF")
  /\ OneHolder("settingPF", "tearingPF")
MountsHeld ==
  /\ \A t \in Threads : Holds(t, fsJob, "settingFS", "tearingFS")
  /\ OneHolder("settingFS", "tearingFS")

(* A container is set up after it was created, and by somebody else.         *)
Existing ==
  /\ \A t \in Threads : pc[t] \in SettingUp => docker[arg[t]] # "absent"
  /\ \A c \in snap : docker[c] # "absent"
  /\ \A r \in Requests : pc[r] \in Asking => arg[r] = None
  /\ Regular /\ pc[Closer] \in Drain =>
       \A r \in Requests, t \in Threads :
         pc[r] \in Answering /\ pc[t] \in SettingUp => arg[t] # arg[r]

-----------------------------------------------------------------------------
(* The threads are different ones.                                           *)
LEMMA Distinct ==
  /\ Boot # Closer /\ Boot # Listener /\ Closer # Listener
  /\ \A r \in Requests : r \in Threads /\ r \notin {Boot, Closer, Listener} \cup Containers
  /\ \A c \in Containers : c \in Threads /\ c \notin {Boot, Closer, Listener}
  /\ Boot \in Threads /\ Closer \in Threads /\ Listener \in Threads
<1>1. \A a, b : Cardinality({a, b}) \in Nat /\ Cardinality({a, b}) <= 2
  <2> TAKE a, b
  <2>1. IsFiniteSet({a}) /\ Cardinality({a}) = 1
    BY FS_Singleton
  <2>2. {a, b} = {a} \cup {b}
    OBVIOUS
  <2> QED BY <2>1, <2>2, FS_AddElement
<1>2. \A a, b : {Boot, Closer, Listener} # {a, b}
  <2> SUFFICES ASSUME NEW a, NEW b, {Boot, Closer, Listener} = {a, b} PROVE FALSE
    OBVIOUS
  <2>1. Cardinality({a, b}) = 3
    BY ThreadsAssumption, Zenon
  <2> QED BY <1>1, <2>1
<1>3. Boot # Closer
  <2>1. Boot = Closer => {Boot, Closer, Listener} = {Closer, Listener} OBVIOUS
  <2> QED BY <1>2, <2>1
<1>4. Boot # Listener
  <2>1. Boot = Listener => {Boot, Closer, Listener} = {Closer, Listener} OBVIOUS
  <2> QED BY <1>2, <2>1
<1>5. Closer # Listener
  <2>1. Closer = Listener => {Boot, Closer, Listener} = {Boot, Listener} OBVIOUS
  <2> QED BY <1>2, <2>1
<1> QED BY <1>3, <1>4, <1>5, ThreadsAssumption DEF Threads

-----------------------------------------------------------------------------
(* What the step of a request's handler does to the others, and to itself.   *)
Others(r) ==
  /\ \A t \in Threads \ {r} : arg'[t] = arg[t]
  /\ \A t \in Threads \ {r, Listener} :
       pc'[t] = pc[t] \/ (pc[t] = "waiting" /\ pc'[t] = "inspect")
  /\ \/ Connect(r) \/ Add(r) \/ ReadNext(r)
     \/ pc'[Listener] = pc[Listener] /\ pc'[r] \notin {"accepted", "open", "idle"}
  /\ UNCHANGED <<pfJob, fsJob, pfLive, fsLive, snap, old>>
  /\ wg \ {r} \subseteq wg'
  /\ \A c \in Containers : /\ docker'[c] = "absent" => docker[c] = "absent"
                           /\ docker'[c] = "created" => docker[c] \in {"absent", "created"}

Holding == {"settingPF", "tearingPF", "settingFS", "tearingFS"}
Onward(r) ==
  /\ pc[r] # "done"
  /\ pc[r] = "idle" => pc[Listener] = "accept" \/ between > 0
  /\ between' = between \/ between > 0
       \/ (pc[r] \in Late \cup {"idle"} /\ "keepalive" \in Allowed)
  /\ pc[r] \notin Holding /\ pc'[r] \notin Holding
  /\ pc'[r] \in Handling => r \in wg' \/ (pc[r] \in Handling /\ wg' = wg)
  /\ pc'[r] \in Late => pc[r] \in Late \cup {"idle"}
  /\ pc'[r] \in Asking => arg'[r] = None \/ (pc[r] \in Asking /\ arg'[r] = arg[r])
  /\ pc'[r] \in Answering =>
       \/ arg'[r] = None
       \/ pc[r] \in Answering /\ arg'[r] = arg[r]
       \/ pc[r] = "sending" /\ arg'[r] = arg[r]
       \/ arg'[r] \in Containers /\ docker[arg'[r]] = "absent" /\ docker'[arg'[r]] # "absent"
  /\ pc'[r] \in SettingUp =>
       \/ pc[r] = "check" /\ arg'[r] = arg[r]
       \/ /\ pc[r] \in {"idle", "open"} /\ arg'[r] \in Containers
          /\ docker'[arg'[r]] = "running"
          /\ docker[arg'[r]] = "created" \/ Use("restarts")

(* A manager's map of entries is left alone, or given the container created. *)
Stores(r, stored, new) ==
  \/ new = stored
  \/ /\ pc[r] \in Answering /\ pc'[r] \notin {"accepted", "open"}
     /\ \A c \in Containers : c # arg[r] => new[c] = stored[c]

RequestEffect(r) ==
  Others(r) /\ Onward(r) /\ Stores(r, pfStored, pfStored') /\ Stores(r, fsStored, fsStored')

LEMMA CreateEffect ==
  ASSUME Placed, TypeOK, NEW r \in Requests, CreateStep(r)
  PROVE  RequestEffect(r)
<1> r \in Threads /\ r # Listener BY Distinct
<1>0. /\ RestOK
      /\ pfStored \in [Containers -> SUBSET Ports] /\ fsStored \in [Containers -> SUBSET Mounts]
  BY DEF TypeOK, RestOK, PF!TypeOK, FS!TypeOK
<1> USE DEF Placed, Handling, Late, Asking, Answering, SettingUp, Holding
<1>1. CASE CreatePorts(r)
  <2>1. Others(r)
    BY <1>0, <1>1 DEF Others, RestOK, CreatePorts, PF!StoreStart, fsVars, scan
  <2>2. Onward(r)
    BY <1>1 DEF Onward, CreatePorts, CanSend, Accepts, IsNext
  <2> QED BY <1>1, <2>1, <2>2 DEF RequestEffect, Stores, CreatePorts, PF!StoreStart, fsVars
<1>2. CASE CreateMounts(r)
  <2>1. Others(r)
    BY <1>2 DEF Others, CreateMounts, Step, FS!StoreStart, pfVars, scan
  <2>2. Onward(r)
    BY <1>2 DEF Onward, CreateMounts, Step
  <2> QED BY <1>2, <2>1, <2>2 DEF RequestEffect, Stores, CreateMounts, FS!StoreStart, pfVars
<1>3. CASE CreateSend(r)
  <2>1. UNCHANGED <<pfStored, fsStored, pfJob, fsJob, pfLive, fsLive, snap, old, wg, between>>
    BY <1>3 DEF CreateSend, managers, pfVars, fsVars, scan
  <2>2. ASSUME NEW c \in Containers, docker[c] = "absent",
               docker' = [docker EXCEPT ![c] = "created"],
               arg' = [arg EXCEPT ![r] = c], pc' = [pc EXCEPT ![r] = "created"]
        PROVE  Others(r) /\ Onward(r)
    <3>1. Others(r) BY <1>0, <2>1, <2>2 DEF Others, RestOK
    <3>2. arg'[r] = c /\ docker'[c] # "absent" BY <1>0, <2>2 DEF RestOK
    <3>3. pc'[r] = "created" BY <2>2
    <3> QED BY <1>3, <2>1, <2>2, <3>1, <3>2, <3>3 DEF Onward, CreateSend
  <2>3. ASSUME pc[r] = "sending", pc' = [pc EXCEPT ![r] = "refused"], UNCHANGED <<docker, arg>>
        PROVE  Others(r) /\ Onward(r)
    BY <2>1, <2>3 DEF Others, Onward
  <2> QED BY <1>3, <2>1, <2>2, <2>3 DEF CreateSend, RequestEffect, Stores
<1>4. CASE CreateLost(r)
  <2>1. UNCHANGED <<pfStored, fsStored, pfJob, fsJob, pfLive, fsLive, snap, old, docker, arg>>
    BY <1>4 DEF CreateLost, managers, pfVars, fsVars, scan
  <2>2. pc' = [pc EXCEPT ![r] = "done"] /\ wg' = wg \ {r} /\ between' = between
        /\ pc[r] \in {"sending", "created", "refused"}
    BY <1>4 DEF CreateLost, Step, Returns
  <2> QED BY <2>1, <2>2 DEF RequestEffect, Others, Onward, Stores
<1>5. CASE AnswerUnread(r)
  <2>1. UNCHANGED <<pfStored, fsStored, pfJob, fsJob, pfLive, fsLive, snap, old, docker, wg, between>>
    BY <1>5 DEF AnswerUnread, managers, pfVars, fsVars, scan
  <2>2. /\ pc' = [pc EXCEPT ![r] = "refused"] /\ arg' = [arg EXCEPT ![r] = None]
        /\ pc[r] = "created"
    BY <1>5 DEF AnswerUnread, Step
  <2> QED BY <2>1, <2>2 DEF RequestEffect, Others, Onward, Stores
<1>6. CASE CreatedPorts(r)
  <2>1. UNCHANGED <<fsStored, pfJob, fsJob, pfLive, fsLive, snap, old, docker, wg, between, arg>>
    BY <1>6 DEF CreatedPorts, PF!StoreEnd, fsVars, scan
  <2>2. pc' = [pc EXCEPT ![r] = "endFS"] /\ pc[r] \in {"created", "refused"}
    BY <1>6 DEF CreatedPorts, Step
  <2>3. pfStored' = IF arg[r] # None /\ pfPending[r] # {}
                      THEN [pfStored EXCEPT ![arg[r]] = pfPending[r]] ELSE pfStored
    BY <1>6 DEF CreatedPorts, PF!StoreEnd
  <2>4. Stores(r, pfStored, pfStored')
    BY <1>0, <2>2, <2>3 DEF Stores
  <2> QED BY <2>1, <2>2, <2>4 DEF RequestEffect, Others, Onward, Stores
<1>7. CASE CreatedMounts(r)
  <2>1. UNCHANGED <<pfStored, pfJob, fsJob, pfLive, fsLive, snap, old, docker, arg>>
    BY <1>7 DEF CreatedMounts, FS!StoreEnd, pfVars, scan
  <2>2. /\ pc' = [pc EXCEPT ![r] = "done"] /\ pc[r] = "endFS" /\ wg' = wg \ {r}
        /\ between' = between \/ "keepalive" \in Allowed
    BY <1>7 DEF CreatedMounts, Step, Through, Returns
  <2>3. fsStored' = IF arg[r] # None /\ fsPending[r] # {}
                      THEN [fsStored EXCEPT ![arg[r]] = fsPending[r]] ELSE fsStored
    BY <1>7 DEF CreatedMounts, FS!StoreEnd
  <2>4. Stores(r, fsStored, fsStored')
    BY <1>0, <2>2, <2>3 DEF Stores
  <2> QED BY <2>1, <2>2, <2>4 DEF RequestEffect, Others, Onward, Stores
<1> QED BY <1>1, <1>2, <1>3, <1>4, <1>5, <1>6, <1>7 DEF CreateStep

LEMMA TargetExists == \A x : Target(x) = None \/ Exists(Target(x))
<1> TAKE x
<1> DEFINE found == {c \in Containers : Exists(c) /\ x \in {c, NameOf[c]}}
<1>1. CASE found # {}
  <2>1. (CHOOSE c \in found : TRUE) \in found BY <1>1
  <2> QED BY <1>1, <2>1 DEF Target
<1> QED BY <1>1 DEF Target

LEMMA OperationEffect ==
  ASSUME Placed, TypeOK, Accepting, NEW r \in Requests, OperationStep(r)
  PROVE  RequestEffect(r)
<1> r \in Threads /\ r # Listener /\ Listener \in Threads BY Distinct
<1>0. RestOK
  BY DEF TypeOK, RestOK
<1>s. UNCHANGED <<pfStored, fsStored, pfJob, fsJob, pfLive, fsLive, snap, old>>
  BY DEF OperationStep, Connect, Add, ReadNext, HangUp, InspectUnknown, CheckRunning,
     Resolve, RemoveSend, RemoveRefused, WaitBroken, Inspect, Start, Stop, Remove, Wait,
     WaitUnknown,
     managers, pfVars,
     fsVars, scan
<1>e. ASSUME Others(r), Onward(r) PROVE RequestEffect(r)
  BY <1>s, <1>e DEF RequestEffect, Stores
<1>l. \A to \in {"done", "tearPF", "resolve"} :
        /\ to \in Labels
        /\ to \notin Handling \cup Late \cup Asking \cup Answering \cup SettingUp \cup Holding
  BY DEF Labels, Handling, Late, Asking, Answering, SettingUp, Holding
<1> USE DEF Placed, Handling, Late, Asking, Answering, SettingUp, Holding
<1>1. CASE Connect(r)
  <2>1. Others(r) BY <1>1, <1>s DEF Others, Connect
  <2>2. Onward(r) BY <1>1 DEF Onward, Connect, Accepts, IsNext
  <2> QED BY <1>e, <2>1, <2>2
<1>2. CASE Add(r)
  <2>1. Others(r) BY <1>2, <1>s DEF Others, Add
  <2>2. Onward(r) BY <1>2 DEF Onward, Add
  <2> QED BY <1>e, <2>1, <2>2
<1>9. CASE ReadNext(r)
  <2>1. Others(r) BY <1>9, <1>s DEF Others, ReadNext
  <2>2. Onward(r) BY <1>9 DEF Onward, ReadNext, IsNext
  <2> QED BY <1>e, <2>1, <2>2
<1>3. CASE HangUp(r) \/ CheckRunning(r) \/ RemoveRefused(r) \/ WaitBroken(r) \/ Inspect(r)
           \/ InspectUnknown(r)
  <2>1. PICK to \in {"done", "setupPF", "tearPF"} :
          /\ pc' = [pc EXCEPT ![r] = to]
          /\ to = "setupPF" => pc[r] = "check"
    BY <1>3 DEF HangUp, InspectUnknown, CheckRunning, RemoveRefused, WaitBroken, Inspect,
       Step
  <2>2. /\ pc[r] \in {"open", "check", "removing", "waiting", "inspect", "unknown"}
        /\ UNCHANGED <<arg, docker>> /\ wg \ {r} \subseteq wg'
        /\ between' = between \/ (pc[r] = "removing" /\ "keepalive" \in Allowed)
    BY <1>3 DEF HangUp, InspectUnknown, CheckRunning, RemoveRefused, WaitBroken, Inspect,
       Step, Through, Returns
  <2>3. Others(r) BY <1>s, <2>1, <2>2 DEF Others
  <2>4. Onward(r) BY <2>1, <2>2 DEF Onward
  <2> QED BY <1>e, <2>3, <2>4
<1>4. CASE Resolve(r)
  <2>1. PICK to \in {"done", "tearPF"} : pc' = [pc EXCEPT ![r] = to]
    BY <1>4 DEF Resolve
  <2>2. /\ pc[r] = "resolve" /\ UNCHANGED <<docker, wg, between>>
        /\ \A t \in Threads \ {r} : arg'[t] = arg[t]
    BY <1>4 DEF Resolve
  <2>3. Others(r) BY <1>s, <2>1, <2>2 DEF Others
  <2>4. Onward(r) BY <2>1, <2>2 DEF Onward
  <2> QED BY <1>e, <2>3, <2>4
<1>5. CASE RemoveSend(r)
  <2>1. PICK c \in Containers, to \in {"done", "tearPF"} :
          /\ pc' = [Answered(pc, c) EXCEPT ![r] = to]
          /\ docker' = [docker EXCEPT ![c] = "gone"]
    BY <1>5, TargetOK DEF RemoveSend
  <2>2. /\ pc[r] = "removing" /\ UNCHANGED arg /\ wg \ {r} \subseteq wg'
        /\ between' = between \/ "keepalive" \in Allowed
    BY <1>5 DEF RemoveSend, Through, Returns
  <2>3. /\ pc'[r] = to /\ pc'[Listener] = pc[Listener]
        /\ \A t \in Threads \ {r} : pc'[t] = pc[t] \/ (pc[t] = "waiting" /\ pc'[t] = "inspect")
    <3>1. to \in Labels /\ Listener # r BY <1>l
    <3> QED BY <2>1, <3>1 DEF Answered, Accepting
  <2>4. Others(r) BY <1>0, <1>s, <2>1, <2>2, <2>3 DEF Others, RestOK
  <2>5. Onward(r) BY <2>1, <2>2, <2>3 DEF Onward
  <2> QED BY <1>e, <2>4, <2>5
<1>6. ASSUME NEW x \in Containers \cup Names, Stop(r, x) PROVE RequestEffect(r)
  <2>1. PICK c \in Containers, to \in {"done", "tearPF", "resolve"} :
          /\ pc' = [Answered(pc, c) EXCEPT ![r] = to]
          /\ docker' = [docker EXCEPT ![c] = "exited"]
    BY <1>6, TargetOK DEF Stop
  <2>2. /\ pc[r] = "open" \/ Accepts(r)
        /\ wg \ {r} \subseteq wg' /\ \A t \in Threads \ {r} : arg'[t] = arg[t]
        /\ between' = between \/ "keepalive" \in Allowed
    BY <1>6 DEF Stop, CanSend, Through, Returns
  <2>3. /\ pc'[r] = to /\ pc'[Listener] = pc[Listener]
        /\ \A t \in Threads \ {r} : pc'[t] = pc[t] \/ (pc[t] = "waiting" /\ pc'[t] = "inspect")
    <3>1. to \in Labels /\ Listener # r BY <1>l
    <3> QED BY <2>1, <3>1 DEF Answered, Accepting
  <2>4. Others(r) BY <1>0, <1>s, <2>1, <2>2, <2>3 DEF Others, RestOK
  <2>5. Onward(r) BY <2>1, <2>2, <2>3 DEF Onward, Accepts, IsNext
  <2> QED BY <1>e, <2>4, <2>5
<1>7. ASSUME NEW x \in Containers \cup Names, Start(r, x) PROVE RequestEffect(r)
  <2>1. PICK c \in Containers, to \in {"check", "done"} :
          /\ pc' = [pc EXCEPT ![r] = to] /\ arg' = [arg EXCEPT ![r] = c]
          /\ docker' = [docker EXCEPT ![c] = "running"]
          /\ to = "check" => docker[c] = "created" \/ Use("restarts")
    <3>1. PICK c \in Containers :
            /\ arg' = [arg EXCEPT ![r] = c] /\ docker' = [docker EXCEPT ![c] = "running"]
            /\ c = Target(x) /\ docker[c] # "running"
      BY <1>7, TargetOK DEF Start
    <3>2. docker[c] \in {"created", "exited"} BY <3>1, TargetExists, NamesAssumption DEF Exists
    <3>3. \E to \in {"check", "done"} :
            /\ pc' = [pc EXCEPT ![r] = to]
            /\ to = "check" => docker[c] = "created" \/ Use("restarts")
      BY <1>7, <3>1, <3>2 DEF Start
    <3> QED BY <3>1, <3>3
  <2>2. /\ (pc[r] = "open" \/ Accepts(r)) /\ wg \ {r} \subseteq wg'
        /\ between' = between \/ "keepalive" \in Allowed
    BY <1>7 DEF Start, CanSend, Through, Returns
  <2>3. Others(r) BY <1>0, <1>s, <2>1, <2>2 DEF Others, RestOK
  <2>4. arg'[r] = c /\ docker'[c] = "running" /\ pc'[r] = to
    BY <1>0, <2>1 DEF RestOK
  <2>5. Onward(r) BY <2>1, <2>2, <2>4 DEF Onward, Accepts, IsNext
  <2> QED BY <1>e, <2>3, <2>5
<1>8. ASSUME NEW x \in Containers \cup Names, Remove(r, x) \/ Wait(r, x) \/ WaitUnknown(r, x)
      PROVE  RequestEffect(r)
  <2>1. \E to \in {"removing", "waiting", "inspect", "unknown"} : pc' = [pc EXCEPT ![r] = to]
    BY <1>8 DEF Remove, Wait, WaitUnknown
  <2>2. /\ pc[r] = "open" \/ Accepts(r)
        /\ UNCHANGED <<docker, between>> /\ wg' = wg \cup {r}
        /\ \A t \in Threads \ {r} : arg'[t] = arg[t]
    BY <1>8 DEF Remove, Wait, WaitUnknown, CanSend
  <2>3. Others(r) BY <1>s, <2>1, <2>2 DEF Others
  <2>4. Onward(r) BY <2>1, <2>2 DEF Onward, Accepts, IsNext
  <2> QED BY <1>e, <2>3, <2>4
<1> QED BY <1>1, <1>2, <1>3, <1>4, <1>5, <1>6, <1>7, <1>8, <1>9 DEF OperationStep

(* What a setup or a teardown does: its thread goes on, and keeps its        *)
(* container.                                                                *)
Pair(t, from, to) == pc[t] = from /\ pc'[t] = to
ManagerEffect(t) ==
  /\ UNCHANGED <<arg, docker, snap, old, between>>
  /\ \A u \in Threads \ {t} : pc'[u] = pc[u]
  /\ \/ Pair(t, "setupPF", "settingPF") \/ Pair(t, "settingPF", "settingPF")
     \/ Pair(t, "settingPF", "setupFS")
     \/ Pair(t, "setupFS", "settingFS") \/ Pair(t, "settingFS", "settingFS")
     \/ Pair(t, "settingFS", "done")
     \/ Pair(t, "tearPF", "tearingPF") \/ Pair(t, "tearingPF", "tearFS")
     \/ Pair(t, "tearFS", "tearingFS")
     \/ Pair(t, "tearingFS", IF t = Boot THEN "sweep" ELSE IF t = Closer THEN "exit" ELSE "done")
  /\ wg \ {t} \subseteq wg'

LEMMA ManagerOK == ASSUME Placed, NEW t \in Threads, ManagerStep(t) PROVE ManagerEffect(t)
<1> USE DEF Placed
<1>1. CASE SetupPFBegin(t)
  BY <1>1 DEF SetupPFBegin, Step, ManagerEffect, Pair, scan
<1>2. CASE SetupPFItem(t)
  BY <1>2 DEF SetupPFItem, ManagerEffect, Pair, scan
<1>3. CASE SetupPFEnd(t)
  BY <1>3 DEF SetupPFEnd, Step, ManagerEffect, Pair, scan
<1>4. CASE SetupFSBegin(t)
  BY <1>4 DEF SetupFSBegin, Step, ManagerEffect, Pair, scan
<1>5. CASE SetupFSItem(t)
  BY <1>5 DEF SetupFSItem, ManagerEffect, Pair, scan
<1>6. CASE SetupFSEnd(t)
  BY <1>6 DEF SetupFSEnd, Step, ManagerEffect, Pair, scan
<1>7. CASE TearPFBegin(t)
  BY <1>7 DEF TearPFBegin, Step, ManagerEffect, Pair, scan
<1>8. CASE TearPFEnd(t)
  BY <1>8 DEF TearPFEnd, Step, ManagerEffect, Pair, scan
<1>9. CASE TearFSBegin(t)
  BY <1>9 DEF TearFSBegin, Step, ManagerEffect, Pair, scan
<1>10. CASE TearFSEnd(t)
  BY <1>10 DEF TearFSEnd, Step, ManagerEffect, Pair, scan
<1> QED BY <1>1, <1>2, <1>3, <1>4, <1>5, <1>6, <1>7, <1>8, <1>9, <1>10 DEF ManagerStep

(* The boot scan moves itself, and starts the goroutines of containers.      *)
BootEffect ==
  /\ UNCHANGED <<docker, ref, wg, between>>
  /\ \A t \in Threads \ ({Boot} \cup Containers) : pc'[t] = pc[t] /\ arg'[t] = arg[t]
  /\ \/ pc[Boot] \in {"list", "listPF", "listFS", "sweep"}
     \/ \E c \in Containers : pc[c] \in {"storePF", "storeFS"}
  /\ \A t \in Threads : pc'[t] \in Holding => pc'[t] = pc[t] /\ arg'[t] = arg[t]
  /\ UNCHANGED <<pfJob, fsJob, pfLive, fsLive>>
  /\ \A t \in Threads : pc'[t] \in SettingUp =>
       (pc[t] \in SettingUp /\ arg'[t] = arg[t]) \/ (t \in snap /\ arg'[t] = t)
  /\ \A c \in snap' : c \in snap \/ docker[c] = "running"
LEMMA BootOK == ASSUME Placed, BootStep PROVE BootEffect
<1> Boot \in Threads BY Distinct
<1>0. UNCHANGED <<pfJob, fsJob, pfLive, fsLive>>
  BY DEF BootStep, ScanStep, ListRunning, ListForwards, ListSyncs, Sweep, Spawn, ScanPorts,
     ScanMounts, PF!StoreForContainer, FS!StoreForContainer, managers, pfVars, fsVars
<1> USE <1>0 DEF Placed, BootEffect, Holding, SettingUp
<1>1. CASE ListRunning
  BY <1>1 DEF ListRunning
<1>2. CASE ListForwards \/ ListSyncs
  BY <1>2 DEF ListForwards, ListSyncs, Step
<1>3. ASSUME NEW c \in Containers, Sweep(c) PROVE BootEffect
  BY <1>3 DEF Sweep, Step
<1>4. CASE Spawn
  BY <1>4 DEF Spawn
<1>5. ASSUME NEW c \in Containers, ScanPorts(c) \/ ScanMounts(c) PROVE BootEffect
  BY <1>5 DEF ScanPorts, ScanMounts, Step, scan
<1> QED BY <1>1, <1>2, <1>3, <1>4, <1>5 DEF BootStep, ScanStep

-----------------------------------------------------------------------------
(* The listener, and whom Close waits for.                                   *)
LEMMA RequestOK ==
  ASSUME Placed, TypeOK, Accepting, NEW r \in Requests, CreateStep(r) \/ OperationStep(r)
  PROVE  RequestEffect(r)
BY CreateEffect, OperationEffect

LEMMA AcceptingNext == ASSUME Placed, TypeOK, Accepting, Next PROVE Accepting'
<1> USE Distinct
<1>1. ASSUME NEW r \in Requests, CreateStep(r) \/ OperationStep(r) PROVE Accepting'
  <2>1. RequestEffect(r) BY <1>1, RequestOK
  <2>2. CASE Connect(r)
    BY <2>2 DEF Connect, Accepts, IsNext, Accepting, Placed
  <2>3. CASE Add(r)
    BY <2>3 DEF Add, Accepting, Placed
  <2>4. CASE ReadNext(r)
    BY <2>4 DEF ReadNext, Accepting, Placed
  <2>5. CASE ~Connect(r) /\ ~Add(r) /\ ~ReadNext(r)
    BY <2>1, <2>5 DEF RequestEffect, Others, Accepting, AtClose
  <2> QED BY <2>2, <2>3, <2>4, <2>5
<1>2. ASSUME NEW t \in Threads, ManagerStep(t) PROVE Accepting'
  <2>1. ManagerEffect(t) BY <1>2, ManagerOK
  <2> QED BY <2>1 DEF ManagerEffect, Pair, Accepting, AtClose
<1>3. ASSUME NEW c \in Containers, ContainerExits(c) PROVE Accepting'
  BY <1>3 DEF ContainerExits, Answered, Accepting, AtClose
<1>4. CASE BootStep
  <2>1. BootEffect BY <1>4, BootOK
  <2> QED BY <2>1 DEF BootEffect, Accepting
<1>5. CASE EndStep
  <2>1. CASE CloseBegin BY <2>1 DEF CloseBegin, Accepting, AtClose, Placed
  <2>2. CASE AcceptFails \/ Drained
    BY <2>2 DEF AcceptFails, Drained, Step, Accepting, AtClose, Placed
  <2> QED BY <1>5, <2>1, <2>2 DEF EndStep
<1>6. CASE Ending
  <2>1. CASE Crash BY <2>1 DEF Crash, Starts, Accepting, AtClose
  <2>2. CASE ~Crash
    BY <1>6, <2>2 DEF Ending, Panic, InspectPanics, Dies, Exit, Accepting, AtClose
  <2> QED BY <2>1, <2>2
<1> QED BY <1>1, <1>2, <1>3, <1>4, <1>5, <1>6, Groups

(* The step of a request leaves Close where it is.                           *)
LEMMA CloserStays ==
  ASSUME Accepting, NEW r \in Requests, RequestEffect(r)
  PROVE  pc'[Closer] = pc[Closer]
BY Distinct DEF RequestEffect, Others, Accepting, AtClose

(* The environment stays the one it was, and a failure is not undone.        *)
LEMMA AllowedStays ==
  ASSUME TypeOK, Next \/ UNCHANGED vars
  PROVE  Allowed' = Allowed
<1>1. EnvOK BY DEF TypeOK, EnvOK
<1>2. UNCHANGED env \/ Uses BY EnvStep DEF vars
<1> QED BY <1>1, <1>2 DEF Uses, Use, EnvOK, Allowed

LEMMA RegularStays ==
  ASSUME TypeOK, Next \/ UNCHANGED vars
  PROVE  (Regular' <=> Regular) /\ (Faulty => Faulty')
<1>1. EnvOK BY DEF TypeOK, EnvOK
<1>2. UNCHANGED env \/ Uses BY EnvStep DEF vars
<1> QED BY <1>1, <1>2, AllowedStays, UsesOK DEF Regular, Without

LEMMA CountedNext ==
  ASSUME Placed, TypeOK, Accepting, Counted, Next PROVE Counted'
<1> USE Distinct DEF Handling, Late
<1>a. Allowed' = Allowed /\ (Regular' <=> Regular) BY AllowedStays, RegularStays
<1> DEFINE Lone == Regular /\ pc'[Closer] \in Drain =>
             /\ between' = 0
             /\ Without({"late"}) => \A q \in Requests : pc'[q] \notin Late
             /\ \A r, q \in Requests : pc'[r] \in Late /\ pc'[q] \in Late => r = q
<1>c. ASSUME \A q \in Requests : pc'[q] \in Handling => q \in wg',
             between' > 0 => ~Without({"keepalive"}),
             \A q \in Requests : pc'[q] = "accepted" => ~Without({"late"}),
             Lone
      PROVE  Counted'
  BY <1>a, <1>c DEF Counted, Without
<1>1. ASSUME NEW r \in Requests, CreateStep(r) \/ OperationStep(r) PROVE Counted'
  <2>1. RequestEffect(r) /\ pc'[Closer] = pc[Closer] BY <1>1, RequestOK, CloserStays
  <2>2. ASSUME NEW q \in Requests, pc'[q] \in Handling PROVE q \in wg'
    <3>1. CASE q = r
      BY <2>1, <2>2, <3>1 DEF RequestEffect, Others, Onward, Counted
    <3>2. CASE q # r
      BY <2>1, <2>2, <3>2 DEF RequestEffect, Others, Counted
    <3> QED BY <3>1, <3>2
  <2>3. between' > 0 => ~Without({"keepalive"})
    BY <2>1 DEF RequestEffect, Onward, Counted, Without
  <2>4. ASSUME NEW q \in Requests, pc'[q] = "accepted" PROVE ~Without({"late"})
    <3>1. CASE q = r
      <4>1. Connect(r) BY <2>1, <2>4, <3>1 DEF RequestEffect, Others, Add, ReadNext, Placed
      <4> QED BY <4>1 DEF Connect, Without
    <3>2. CASE q # r
      BY <2>1, <2>4, <3>2 DEF RequestEffect, Others, Counted
    <3> QED BY <3>1, <3>2
  <2>5. CASE Regular /\ pc[Closer] \in Drain
    <3>1. between = 0 /\ ~(between > 0) /\ pc[Listener] # "accept"
      BY <2>5 DEF Counted, Accepting, Drain
    <3>2. pc[r] # "idle" BY <2>1, <3>1 DEF RequestEffect, Onward
    <3>3. ASSUME NEW q \in Requests, pc'[q] \in Late PROVE pc[q] \in Late
      <4>1. CASE q = r BY <2>1, <3>2, <3>3, <4>1 DEF RequestEffect, Onward
      <4>2. CASE q # r BY <2>1, <3>3, <4>2 DEF RequestEffect, Others
      <4> QED BY <4>1, <4>2
    <3>4. between' = 0
      <4>1. CASE Without({"late"})
        BY <2>1, <2>5, <3>1, <3>2, <4>1 DEF RequestEffect, Onward, Counted
      <4>2. CASE Without({"keepalive"})
        BY <2>1, <3>1, <4>2 DEF RequestEffect, Onward, Without
      <4> QED BY <2>5, <4>1, <4>2 DEF Regular
    <3>5. Lone BY <2>5, <3>3, <3>4 DEF Counted
    <3> QED BY <1>c, <2>2, <2>3, <2>4, <3>5
  <2>6. CASE ~(Regular /\ pc[Closer] \in Drain)
    BY <1>c, <2>1, <2>2, <2>3, <2>4, <2>6
  <2> QED BY <2>5, <2>6
<1>k. ASSUME UNCHANGED between, pc'[Closer] \in Drain => pc[Closer] \in Drain,
             \A q \in Requests : pc'[q] \in Late =>
               pc'[q] = pc[q] \/ (pc[q] = "waiting" /\ pc'[q] = "inspect"),
             \A q \in Requests : pc'[q] \in Handling => q \in wg'
      PROVE  Counted'
  <2>1. \A q \in Requests : pc'[q] = "accepted" => ~Without({"late"})
    BY <1>k DEF Counted
  <2>2. Lone BY <1>k DEF Counted
  <2>3. between' > 0 => ~Without({"keepalive"}) BY <1>k DEF Counted
  <2> QED BY <1>c, <1>k, <2>1, <2>2, <2>3
<1>2. ASSUME NEW t \in Threads, ManagerStep(t) PROVE Counted'
  <2>1. ManagerEffect(t) BY <1>2, ManagerOK
  <2>2. pc'[Closer] \in Drain => pc[Closer] \in Drain
    BY <2>1 DEF ManagerEffect, Pair, Drain, Accepting, AtClose
  <2>3. \A q \in Requests : pc'[q] \in Late => pc'[q] = pc[q] /\ q # t
    BY <2>1 DEF ManagerEffect, Pair
  <2>4. \A q \in Requests : pc'[q] \in Handling => q \in wg'
    BY <2>1, <2>3 DEF ManagerEffect, Counted
  <2> QED BY <1>k, <2>1, <2>2, <2>3, <2>4 DEF ManagerEffect
<1>3. ASSUME NEW c \in Containers, ContainerExits(c) PROVE Counted'
  <2>1. /\ UNCHANGED <<wg, between>>
        /\ \A t \in Threads : pc'[t] = pc[t] \/ (pc[t] = "waiting" /\ pc'[t] = "inspect")
    BY <1>3 DEF ContainerExits, Answered
  <2>2. pc'[Closer] = pc[Closer] BY <2>1 DEF Accepting, AtClose
  <2>3. \A q \in Requests : pc'[q] \in Handling => q \in wg' BY <2>1 DEF Counted
  <2> QED BY <1>k, <2>1, <2>2, <2>3
<1>4. CASE BootStep
  <2>1. BootEffect BY <1>4, BootOK
  <2>2. \A q \in Requests : pc'[q] = pc[q] BY <2>1 DEF BootEffect
  <2>3. pc'[Closer] = pc[Closer] BY <2>1 DEF BootEffect
  <2>4. \A q \in Requests : pc'[q] \in Handling => q \in wg' BY <2>1, <2>2 DEF BootEffect, Counted
  <2> QED BY <1>k, <2>1, <2>2, <2>3, <2>4 DEF BootEffect
<1>5. CASE EndStep
  <2>1. UNCHANGED <<wg, between>> /\ \A q \in Requests : pc'[q] = pc[q]
    BY <1>5 DEF EndStep, CloseBegin, AcceptFails, Drained, Step, Placed
  <2>2. \A q \in Requests : pc'[q] \in Handling => q \in wg' BY <2>1 DEF Counted
  <2>3. CASE CloseBegin \/ AcceptFails
    <3>1. pc'[Closer] \in Drain => pc[Closer] \in Drain
      BY <2>3 DEF CloseBegin, AcceptFails, Step, Drain, Placed
    <3> QED BY <1>k, <2>1, <2>2, <3>1
  <2>4. CASE Drained
    <3>1. between' = 0 /\ \A q \in Requests : pc[q] \notin Handling
      BY <2>1, <2>4 DEF Drained, Counted
    <3>2. \A r, q \in Requests : pc[r] = "accepted" /\ pc[q] = "accepted" => r = q
      BY DEF Accepting
    <3>3. Lone BY <2>1, <3>1, <3>2 DEF Counted
    <3> QED BY <1>c, <2>1, <2>2, <3>1, <3>3 DEF Counted
  <2> QED BY <1>5, <2>3, <2>4 DEF EndStep
<1>6. CASE Ending
  <2>1. \A q \in Requests : pc'[q] \in {"done", "idle"}
    BY <1>6 DEF Ending, Panic, InspectPanics, Dies, Exit, Crash, Starts
  <2>2. between' = 0 \/ between' = between
    BY <1>6 DEF Ending, Panic, InspectPanics, Dies, Exit, Crash
  <2>3. pc'[Closer] \notin Drain
    BY <1>6 DEF Ending, Panic, InspectPanics, Dies, Exit, Crash, Starts, Drain
  <2>4. between' > 0 => ~Without({"keepalive"}) BY <2>2 DEF Counted
  <2> QED BY <1>c, <2>1, <2>3, <2>4
<1> QED BY <1>1, <1>2, <1>3, <1>4, <1>5, <1>6, Groups

LEMMA OverNext ==
  ASSUME Placed, TypeOK, Accepting, Over, Next PROVE Over'
<1> USE Distinct
<1>0. Regular' <=> Regular BY RegularStays
<1>1. ASSUME NEW r \in Requests, CreateStep(r) \/ OperationStep(r) PROVE Over'
  <2>1. RequestEffect(r) /\ pc'[Closer] = pc[Closer] BY <1>1, RequestOK, CloserStays
  <2>2. pc[r] # "done" BY <2>1 DEF RequestEffect, Onward
  <2> QED BY <1>0, <2>1, <2>2 DEF RequestEffect, Others, Over
<1>2. ASSUME NEW t \in Threads, ManagerStep(t) PROVE Over'
  <2>1. ManagerEffect(t) BY <1>2, ManagerOK
  <2>2. pc[t] \notin {"done", "idle", "draining"} BY <2>1 DEF ManagerEffect, Pair
  <2>3. /\ pc'[Closer] = "done" => pc[Closer] = "done"
        /\ pc'[Closer] \in {"draining"} \cup Drain => pc[Closer] \in {"draining"} \cup Drain
    BY <2>1 DEF ManagerEffect, Pair, Accepting, AtClose, Drain
  <2> QED BY <1>0, <2>1, <2>2, <2>3 DEF ManagerEffect, Over
<1>3. ASSUME NEW c \in Containers, ContainerExits(c) PROVE Over'
  <2>1. \A t \in Threads : pc'[t] = pc[t] \/ (pc[t] = "waiting" /\ pc'[t] = "inspect")
    BY <1>3 DEF ContainerExits, Answered
  <2>2. pc'[Closer] = pc[Closer] BY <2>1 DEF Accepting, AtClose
  <2> QED BY <1>0, <2>1, <2>2 DEF Over
<1>4. CASE BootStep
  <2>1. BootEffect BY <1>4, BootOK
  <2> QED BY <1>0, <2>1 DEF BootEffect, Over
<1>5. CASE EndStep
  <2>1. CASE CloseBegin
    <3>1. Regular => BootFinished
      BY <2>1 DEF CloseBegin, Regular, Without
    <3> QED BY <1>0, <2>1, <3>1 DEF CloseBegin, BootFinished, Over, Placed
  <2>2. CASE AcceptFails \/ Drained
    BY <1>0, <2>2 DEF AcceptFails, Drained, Step, Over, Placed
  <2> QED BY <1>5, <2>1, <2>2 DEF EndStep
<1>6. CASE Ending
  BY <1>6 DEF Ending, Panic, InspectPanics, Dies, Exit, Crash, Starts, Over, Drain
<1> QED BY <1>1, <1>2, <1>3, <1>4, <1>5, <1>6, Groups

-----------------------------------------------------------------------------
(* The mutexes.  Except for the managers' own steps, who holds one keeps it  *)
(* and its container, unless the process ends.                               *)
Quiet ==
  /\ \A t \in Threads : pc'[t] \in Holding => pc'[t] = pc[t] /\ arg'[t] = arg[t]
  /\ UNCHANGED <<pfJob, fsJob>>

LEMMA QuietOK ==
  ASSUME Placed, TypeOK, Accepting, Next
  PROVE  \/ \E t \in Threads : ManagerStep(t)
         \/ Quiet
         \/ \A t \in Threads : pc'[t] \notin Holding
<1> USE Distinct DEF Holding
<1>1. ASSUME NEW r \in Requests, CreateStep(r) \/ OperationStep(r) PROVE Quiet
  <2>1. RequestEffect(r) BY <1>1, RequestOK
  <2>2. Accepting' BY AcceptingNext
  <2> QED BY <2>1, <2>2 DEF RequestEffect, Others, Onward, Quiet, Accepting
<1>2. ASSUME NEW c \in Containers, ContainerExits(c) PROVE Quiet
  BY <1>2 DEF ContainerExits, Answered, Quiet, managers, pfVars, fsVars
<1>3. CASE BootStep
  BY <1>3, BootOK DEF BootEffect, Quiet
<1>4. CASE EndStep
  BY <1>4 DEF EndStep, CloseBegin, AcceptFails, Drained, Step, Quiet, Placed, managers,
     pfVars, fsVars
<1>5. CASE Ending
  BY <1>5 DEF Ending, Panic, InspectPanics, Dies, Exit, Crash, Starts
<1> QED BY <1>1, <1>2, <1>3, <1>4, <1>5, Groups

LEMMA PortsHeldNext ==
  ASSUME Placed, TypeOK, Accepting, PortsHeld, Next PROVE PortsHeld'
<1> USE DEF Holding, PortsHeld, Holds, OneHolder, Doomed
<1>1. ASSUME NEW t \in Threads, ManagerStep(t) PROVE PortsHeld'
  <2>1. ManagerEffect(t) BY <1>1, ManagerOK
  <2>2. CASE SetupPFBegin(t)
    BY <2>1, <2>2 DEF ManagerEffect, SetupPFBegin, Step, PF!SetupBegin, PF!MuFree, PF!Idle
  <2>3. CASE SetupPFItem(t)
    <3>1. /\ UNCHANGED pc /\ pfJob.op = "setup"
          /\ \E i \in Ports : pfJob' = [pfJob EXCEPT !.todo = @ \ {i}]
      BY <2>3 DEF SetupPFItem, PF!SetupItem, PF!SetupItemFails
    <3>2. pfJob'.op = "setup" /\ pfJob'.on = pfJob.on
      BY <3>1 DEF TypeOK, PF!TypeOK, PF!Jobs, PF!Idle
    <3> QED BY <2>1, <3>1, <3>2 DEF ManagerEffect
  <2>4. CASE SetupPFEnd(t) \/ TearPFEnd(t)
    <3>1. pc[t] \in {"settingPF", "tearingPF"} /\ pc'[t] \in {"setupFS", "tearFS"}
      BY <2>4 DEF SetupPFEnd, TearPFEnd, Step, Placed
    <3>2. \A u \in Threads : pc'[u] \notin {"settingPF", "tearingPF"}
      BY <2>1, <3>1 DEF ManagerEffect
    <3> QED BY <3>2
  <2>5. CASE TearPFBegin(t)
    <3>1. /\ pc'[t] = "tearingPF" /\ pfJob.op = "idle"
          /\ pfJob'.op = "teardown" /\ pfJob'.on = Doomed(t)
      BY <2>5 DEF TearPFBegin, Step, Placed, PF!TeardownBegin, PF!MuFree, PF!Idle
    <3>2. \A u \in Threads : pc[u] \notin {"settingPF", "tearingPF"}
      BY <3>1
    <3>3. \A u \in Threads \ {t} : pc'[u] \notin {"settingPF", "tearingPF"}
      BY <2>1, <3>2 DEF ManagerEffect
    <3> QED BY <2>1, <3>1, <3>3 DEF ManagerEffect
  <2>6. CASE SetupFSBegin(t) \/ SetupFSItem(t) \/ SetupFSEnd(t) \/ TearFSBegin(t) \/ TearFSEnd(t)
    <3>1. UNCHANGED pfJob
      BY <2>6 DEF SetupFSBegin, SetupFSItem, SetupFSEnd, TearFSBegin, TearFSEnd, pfVars
    <3>2. pc'[t] \notin {"settingPF", "tearingPF"}
      BY <2>1, <2>6 DEF ManagerEffect, Pair, SetupFSBegin, SetupFSItem, SetupFSEnd,
         TearFSBegin, TearFSEnd, Step
    <3> QED BY <2>1, <3>1, <3>2 DEF ManagerEffect
  <2> QED BY <1>1, <2>2, <2>3, <2>4, <2>5, <2>6 DEF ManagerStep
<1>2. CASE Quiet BY <1>2 DEF Quiet
<1>3. CASE \A t \in Threads : pc'[t] \notin Holding BY <1>3
<1> QED BY <1>1, <1>2, <1>3, QuietOK

LEMMA MountsHeldNext ==
  ASSUME Placed, TypeOK, Accepting, MountsHeld, Next PROVE MountsHeld'
<1> USE DEF Holding, MountsHeld, Holds, OneHolder, Doomed
<1>1. ASSUME NEW t \in Threads, ManagerStep(t) PROVE MountsHeld'
  <2>1. ManagerEffect(t) BY <1>1, ManagerOK
  <2>2. CASE SetupFSBegin(t)
    BY <2>1, <2>2 DEF ManagerEffect, SetupFSBegin, Step, FS!SetupBegin, FS!MuFree, FS!Idle
  <2>3. CASE SetupFSItem(t)
    <3>1. /\ UNCHANGED pc /\ fsJob.op = "setup"
          /\ \E i \in Mounts : fsJob' = [fsJob EXCEPT !.todo = @ \ {i}]
      BY <2>3 DEF SetupFSItem, FS!SetupItem, FS!SetupItemFails
    <3>2. fsJob'.op = "setup" /\ fsJob'.on = fsJob.on
      BY <3>1 DEF TypeOK, FS!TypeOK, FS!Jobs, FS!Idle
    <3> QED BY <2>1, <3>1, <3>2 DEF ManagerEffect
  <2>4. CASE SetupFSEnd(t) \/ TearFSEnd(t)
    <3>1. pc[t] \in {"settingFS", "tearingFS"} /\ pc'[t] \in {"done", "sweep", "exit"}
      BY <2>4 DEF SetupFSEnd, TearFSEnd, Step, Placed
    <3>2. \A u \in Threads : pc'[u] \notin {"settingFS", "tearingFS"}
      BY <2>1, <3>1 DEF ManagerEffect
    <3> QED BY <3>2
  <2>5. CASE TearFSBegin(t)
    <3>1. /\ pc'[t] = "tearingFS" /\ fsJob.op = "idle"
          /\ fsJob'.op = "teardown" /\ fsJob'.on = Doomed(t)
      BY <2>5 DEF TearFSBegin, Step, Placed, FS!TeardownBegin, FS!MuFree, FS!Idle
    <3>2. \A u \in Threads : pc[u] \notin {"settingFS", "tearingFS"}
      BY <3>1
    <3>3. \A u \in Threads \ {t} : pc'[u] \notin {"settingFS", "tearingFS"}
      BY <2>1, <3>2 DEF ManagerEffect
    <3> QED BY <2>1, <3>1, <3>3 DEF ManagerEffect
  <2>6. CASE SetupPFBegin(t) \/ SetupPFItem(t) \/ SetupPFEnd(t) \/ TearPFBegin(t) \/ TearPFEnd(t)
    <3>1. UNCHANGED fsJob
      BY <2>6 DEF SetupPFBegin, SetupPFItem, SetupPFEnd, TearPFBegin, TearPFEnd, fsVars
    <3>2. pc'[t] \notin {"settingFS", "tearingFS"}
      BY <2>1, <2>6 DEF ManagerEffect, Pair, SetupPFBegin, SetupPFItem, SetupPFEnd,
         TearPFBegin, TearPFEnd, Step
    <3> QED BY <2>1, <3>1, <3>2 DEF ManagerEffect
  <2> QED BY <1>1, <2>2, <2>3, <2>4, <2>5, <2>6 DEF ManagerStep
<1>2. CASE Quiet BY <1>2 DEF Quiet
<1>3. CASE \A t \in Threads : pc'[t] \notin Holding BY <1>3
<1> QED BY <1>1, <1>2, <1>3, QuietOK

-----------------------------------------------------------------------------
(* Containers come into being once, and are set up afterwards.               *)
LEMMA Acts ==
  ASSUME Placed, NEW t \in Threads, pc[t] \in SettingUp
  PROVE  arg[t] \in Containers
BY DEF Placed, Given, SettingUp, Acting, Clearing

LEMMA DockerStep ==
  ASSUME Placed, TypeOK, Accepting, Next
  PROVE  \A c \in Containers : docker'[c] = "absent" => docker[c] = "absent"
<1>1. ASSUME NEW r \in Requests, CreateStep(r) \/ OperationStep(r)
      PROVE  \A c \in Containers : docker'[c] = "absent" => docker[c] = "absent"
  BY <1>1, RequestOK DEF RequestEffect, Others
<1>2. ASSUME NEW t \in Threads, ManagerStep(t) PROVE UNCHANGED docker
  BY <1>2, ManagerOK DEF ManagerEffect
<1>3. ASSUME NEW d \in Containers, ContainerExits(d)
      PROVE  \A c \in Containers : docker'[c] = "absent" => docker[c] = "absent"
  BY <1>3 DEF ContainerExits, TypeOK
<1>4. CASE BootStep BY <1>4, BootOK DEF BootEffect
<1>5. CASE EndStep BY <1>5 DEF EndStep, CloseBegin, AcceptFails, Drained
<1>6. CASE Ending BY <1>6 DEF Ending, Panic, InspectPanics, Dies, Exit, Crash
<1> QED BY <1>1, <1>2, <1>3, <1>4, <1>5, <1>6, Groups

LEMMA CreatedFirst ==
  ASSUME Placed, TypeOK, Accepting, Existing, Next
  PROVE  /\ \A t \in Threads : pc'[t] \in SettingUp => docker'[arg'[t]] # "absent"
         /\ \A c \in snap' : docker'[c] # "absent"
<1> DEFINE Goal == /\ \A t \in Threads : pc'[t] \in SettingUp => docker'[arg'[t]] # "absent"
                   /\ \A c \in snap' : docker'[c] # "absent"
<1> USE Distinct
<1>0. \A c \in Containers : docker'[c] = "absent" => docker[c] = "absent"
  BY DockerStep
<1>s. snap \subseteq Containers BY DEF Placed
<1>k. ASSUME \A t \in Threads : pc'[t] \in SettingUp =>
               (pc[t] \in SettingUp /\ arg'[t] = arg[t]) \/ docker'[arg'[t]] # "absent",
             snap' \subseteq snap
      PROVE  Goal
  <2>1. ASSUME NEW t \in Threads, pc'[t] \in SettingUp PROVE docker'[arg'[t]] # "absent"
    BY <1>0, <1>k, <2>1, Acts DEF Existing
  <2> QED BY <1>0, <1>s, <1>k, <2>1 DEF Existing
<1>1. ASSUME NEW r \in Requests, CreateStep(r) \/ OperationStep(r) PROVE Goal
  <2>1. RequestEffect(r) BY <1>1, RequestOK
  <2>2. Accepting' BY AcceptingNext
  <2>3. ASSUME NEW t \in Threads, pc'[t] \in SettingUp
        PROVE  (pc[t] \in SettingUp /\ arg'[t] = arg[t]) \/ docker'[arg'[t]] # "absent"
    <3>1. CASE t = r BY <2>1, <2>3, <3>1 DEF RequestEffect, Onward, SettingUp
    <3>2. CASE t # r /\ t # Listener
      BY <2>1, <2>3, <3>2 DEF RequestEffect, Others, SettingUp
    <3>3. CASE t = Listener BY <2>2, <2>3, <3>3 DEF Accepting, SettingUp
    <3> QED BY <3>1, <3>2, <3>3
  <2>4. snap' = snap BY <2>1 DEF RequestEffect, Others
  <2> QED BY <1>k, <2>3, <2>4
<1>2. ASSUME NEW t \in Threads, ManagerStep(t) PROVE Goal
  <2>1. ManagerEffect(t) BY <1>2, ManagerOK
  <2> QED BY <1>k, <2>1 DEF ManagerEffect, Pair, SettingUp
<1>3. ASSUME NEW c \in Containers, ContainerExits(c) PROVE Goal
  <2>1. UNCHANGED <<arg, snap>> /\ \A t \in Threads : pc'[t] \in SettingUp => pc'[t] = pc[t]
    BY <1>3 DEF ContainerExits, Answered, SettingUp, scan
  <2> QED BY <1>k, <2>1
<1>4. CASE BootStep
  <2>1. BootEffect BY <1>4, BootOK
  <2> QED BY <1>s, <2>1, Acts DEF BootEffect, Existing
<1>5. CASE EndStep
  <2>1. UNCHANGED <<arg, snap>> BY <1>5 DEF EndStep, CloseBegin, AcceptFails, Drained, scan
  <2>2. \A t \in Threads : pc'[t] \in SettingUp => pc'[t] = pc[t]
    BY <1>5 DEF EndStep, CloseBegin, AcceptFails, Drained, Step, SettingUp, Placed
  <2> QED BY <1>k, <2>1, <2>2
<1>6. CASE Ending
  <2>1. \A t \in Threads : pc'[t] \notin SettingUp
    BY <1>6 DEF Ending, Panic, InspectPanics, Dies, Exit, Crash, Starts, SettingUp
  <2>2. snap' \subseteq snap
    BY <1>6 DEF Ending, Panic, InspectPanics, Dies, Exit, Crash, scan
  <2> QED BY <1>k, <2>1, <2>2
<1> QED BY <1>1, <1>2, <1>3, <1>4, <1>5, <1>6, Groups

(* A request has no container before the answer to its create.               *)
LEMMA NoneBefore ==
  ASSUME Placed, TypeOK, Accepting, Existing, Next
  PROVE  \A q \in Requests : pc'[q] \in Asking => arg'[q] = None
<1> SUFFICES ASSUME NEW q \in Requests, pc'[q] \in Asking PROVE arg'[q] = None
  OBVIOUS
<1> USE Distinct DEF Asking
<1>k. ASSUME pc'[q] = pc[q], arg'[q] = arg[q] PROVE arg'[q] = None
  BY <1>k DEF Existing
<1>1. ASSUME NEW r \in Requests, CreateStep(r) \/ OperationStep(r) PROVE arg'[q] = None
  <2>1. RequestEffect(r) BY <1>1, RequestOK
  <2>2. CASE q = r BY <2>1, <2>2 DEF RequestEffect, Onward, Existing
  <2>3. CASE q # r BY <1>k, <2>1, <2>3 DEF RequestEffect, Others
  <2> QED BY <2>2, <2>3
<1>2. ASSUME NEW t \in Threads, ManagerStep(t) PROVE arg'[q] = None
  <2>1. ManagerEffect(t) BY <1>2, ManagerOK
  <2> QED BY <1>k, <2>1 DEF ManagerEffect, Pair
<1>3. ASSUME NEW c \in Containers, ContainerExits(c) PROVE arg'[q] = None
  BY <1>k, <1>3 DEF ContainerExits, Answered
<1>4. CASE BootStep
  BY <1>k, <1>4, BootOK DEF BootEffect
<1>5. CASE EndStep
  BY <1>k, <1>5 DEF EndStep, CloseBegin, AcceptFails, Drained, Step, Placed
<1>6. CASE Ending
  BY <1>k, <1>6 DEF Ending, Panic, InspectPanics, Dies, Exit, Crash, Starts
<1> QED BY <1>1, <1>2, <1>3, <1>4, <1>5, <1>6, Groups

(* Steps that bring Close into the part where it tears down.                 *)
LEMMA IntoDrain ==
  ASSUME Placed, TypeOK, Accepting, Over, Next, Regular, pc'[Closer] \in Drain
  PROVE  \/ pc[Closer] \in Drain /\ \/ \E r \in Requests : CreateStep(r) \/ OperationStep(r)
                                    \/ \E t \in Threads : ManagerStep(t)
                                    \/ \E c \in Containers : ContainerExits(c)
                                    \/ AcceptFails
         \/ Drained
<1> USE Distinct DEF Drain
<1>1. ASSUME NEW r \in Requests, CreateStep(r) \/ OperationStep(r) PROVE pc[Closer] \in Drain
  BY <1>1, RequestOK, CloserStays
<1>2. ASSUME NEW t \in Threads, ManagerStep(t) PROVE pc[Closer] \in Drain
  BY <1>2, ManagerOK DEF ManagerEffect, Pair, Accepting, AtClose
<1>3. ASSUME NEW c \in Containers, ContainerExits(c) PROVE pc[Closer] \in Drain
  BY <1>3 DEF ContainerExits, Answered
<1>4. ~BootStep
  BY BootOK DEF BootEffect, Over
<1>5. CASE EndStep
  BY <1>5 DEF EndStep, CloseBegin, AcceptFails, Step, Placed
<1>6. ~Ending
  BY DEF Ending, Panic, InspectPanics, Dies, Exit, Crash, Starts
<1> QED BY <1>1, <1>2, <1>3, <1>4, <1>5, <1>6, Groups DEF EndStep

(* ... and then a container that is created has not been met before.         *)
LEMMA ApartNext ==
  ASSUME Placed, TypeOK, Accepting, Counted, Over, Existing, Next, Regular, pc'[Closer] \in Drain
  PROVE  \A q \in Requests, t \in Threads :
           pc'[q] \in Answering /\ pc'[t] \in SettingUp => arg'[t] # arg'[q]
<1> SUFFICES ASSUME NEW q \in Requests, NEW t \in Threads,
                    pc'[q] \in Answering, pc'[t] \in SettingUp
             PROVE  arg'[t] # arg'[q]
  OBVIOUS
<1> USE Distinct DEF Answering, SettingUp
<1>k. ASSUME pc[Closer] \in Drain, pc'[q] = pc[q], arg'[q] = arg[q],
             pc[t] \in SettingUp, arg'[t] = arg[t]
      PROVE  arg'[t] # arg'[q]
  BY <1>k DEF Existing
<1>0. q # t OBVIOUS
<1>1. ASSUME pc[Closer] \in Drain, NEW r \in Requests, CreateStep(r) \/ OperationStep(r)
      PROVE  arg'[t] # arg'[q]
  <2>1. RequestEffect(r) BY <1>1, RequestOK
  <2>2. Accepting' BY AcceptingNext
  <2>3. t # Listener BY <2>2 DEF Accepting
  <2>4. CASE q = r
    <3>1. pc[t] \in SettingUp /\ arg'[t] = arg[t]
      BY <1>0, <2>1, <2>3, <2>4 DEF RequestEffect, Others
    <3>2. arg[t] \in Containers /\ docker[arg[t]] # "absent" /\ arg[t] # None
      BY <3>1, Acts, NamesAssumption DEF Existing
    <3>3. CASE pc[r] \in Answering /\ arg'[r] = arg[r]
      BY <1>1, <2>4, <3>1, <3>3 DEF Existing
    <3>4. CASE pc[r] = "sending" /\ arg'[r] = arg[r]
      BY <2>4, <3>1, <3>2, <3>4 DEF Existing, Asking
    <3> QED BY <2>1, <2>4, <3>1, <3>2, <3>3, <3>4 DEF RequestEffect, Onward
  <2>5. CASE q # r
    <3>1. pc'[q] = pc[q] /\ arg'[q] = arg[q]
      BY <2>1, <2>5 DEF RequestEffect, Others
    <3>2. CASE t # r
      <4>1. pc[t] \in SettingUp /\ arg'[t] = arg[t]
        BY <2>1, <2>3, <3>2 DEF RequestEffect, Others
      <4> QED BY <1>1, <1>k, <3>1, <4>1
    <3>3. CASE t = r
      <4>1. pc[Listener] # "accept" /\ ~(between > 0) BY <1>1 DEF Accepting, Drain, Counted
      <4>2. pc[r] # "idle" BY <2>1, <4>1 DEF RequestEffect, Onward
      <4>3. pc[r] # "open" BY <1>1, <2>5, <3>1 DEF Counted, Late, Handling
      <4>4. pc[r] = "check" /\ arg'[r] = arg[r]
        BY <2>1, <3>3, <4>2, <4>3 DEF RequestEffect, Onward
      <4> QED BY <1>1, <1>k, <3>1, <3>3, <4>4
    <3> QED BY <3>2, <3>3
  <2> QED BY <2>4, <2>5
<1>2. ASSUME pc[Closer] \in Drain, NEW u \in Threads, ManagerStep(u) PROVE arg'[t] # arg'[q]
  <2>1. ManagerEffect(u) BY <1>2, ManagerOK
  <2>2. pc'[q] = pc[q] BY <2>1 DEF ManagerEffect, Pair
  <2>3. pc[t] \in SettingUp BY <2>1 DEF ManagerEffect, Pair
  <2> QED BY <1>2, <1>k, <2>1, <2>2, <2>3 DEF ManagerEffect
<1>3. ASSUME pc[Closer] \in Drain, NEW c \in Containers, ContainerExits(c)
      PROVE  arg'[t] # arg'[q]
  BY <1>3, <1>k DEF ContainerExits, Answered
<1>4. ASSUME pc[Closer] \in Drain, AcceptFails PROVE arg'[t] # arg'[q]
  BY <1>4, <1>k DEF AcceptFails, Step, Placed
<1>5. CASE Drained
  BY <1>5 DEF Drained, Step, Placed, Counted, Handling
<1> QED BY <1>1, <1>2, <1>3, <1>4, <1>5, IntoDrain

LEMMA ExistingNext ==
  ASSUME Placed, TypeOK, Accepting, Counted, Over, Existing, Next PROVE Existing'
<1>1. Regular' <=> Regular BY RegularStays
<1> QED BY <1>1, CreatedFirst, NoneBefore, ApartNext DEF Existing
=============================================================================
