-------------------------- MODULE ProxySessionProofs --------------------------
(***************************************************************************)
(* The proxy's theorems about sessions, for any containers, requests,      *)
(* items and environments.                                                 *)
(*                                                                         *)
(* NothingLeft: Close leaves no session behind, where nothing failed and   *)
(* the boot scan is over when requests arrive and Close begins.  Close     *)
(* waits neither for the goroutines that set containers up nor for a       *)
(* connection it has accepted but not counted.  The argument: once wg has  *)
(* been found empty no handler is left, where connections bring their      *)
(* first request with them, however many they carry; and where one may be  *)
(* late there is at most one, which carries one request.  TeardownAll has  *)
(* deleted every entry; a container the late request creates gets one, but *)
(* nobody is left to start it; a setup for any other container finds none, *)
(* and creates nothing.                                                    *)
(*                                                                         *)
(* OneSync: a container has one sync per path.  The argument: until the    *)
(* boot scan is through nobody else sets up, and what it sets up had no    *)
(* session when it looked; after that a setup follows a container's first  *)
(* start, and there is one per container.                                  *)
(*                                                                         *)
(* AllClean: a container that stopped or was removed has no session and no *)
(* entry when all goroutines have finished.  The argument: what it still   *)
(* has, a teardown to come will end, be it that of the stop, the removal   *)
(* or the wait, or the boot scan's sweep after a crash; and no setup comes *)
(* behind the last of them.                                                *)
(*                                                                         *)
(* AllServed: a container that runs has every session its create asked     *)
(* for.  The argument: its entries are there from before its first start,  *)
(* and go only by a teardown for it, which needs that it stopped; until it *)
(* has a session, the thread that will create it is on its way.            *)
(*                                                                         *)
(* MutexesHeld: a taken mutex has one holder, at work with that manager.   *)
(***************************************************************************)
EXTENDS DockerProxyProofs


PortsGone == {"tearingPF", "tearFS", "tearingFS", "exit"}
MountsGone == {"tearingFS", "exit"}

(* After TeardownAll a manager has no entry from which anybody will set up.  *)
NoEntry(stored) ==
  /\ \A t \in Threads : pc[t] \in SettingUp => stored[arg[t]] = {}
  /\ (\E r \in Requests : pc[r] \in {"accepted", "open"}) =>
       \A c \in Containers : stored[c] = {}
NoEntries ==
  Regular => /\ pc[Closer] \in PortsGone => NoEntry(pfStored)
             /\ pc[Closer] \in MountsGone => NoEntry(fsStored)

(* ... and when it is through, no session.                                   *)
NoSessions ==
  Regular /\ ~Faulty =>
    /\ pc[Closer] \in {"tearFS", "tearingFS", "exit", "done"} =>
         \A c \in Containers, i \in Ports : pfLive[c][i] = 0
    /\ pc[Closer] \in {"exit", "done"} =>
         \A c \in Containers, i \in Mounts : fsLive[c][i] = 0

CloseInv ==
  Accepting /\ Counted /\ Over /\ PortsHeld /\ MountsHeld /\ Existing /\ NoEntries /\ NoSessions

-----------------------------------------------------------------------------
(* The entries.  What NoEntry says after a step, of a manager's map new.     *)
NoEntryAfter(new) ==
  /\ \A t \in Threads : pc'[t] \in SettingUp => new[arg'[t]] = {}
  /\ (\E r \in Requests : pc'[r] \in {"accepted", "open"}) =>
       \A c \in Containers : new[c] = {}

(* A late request does not store an entry for a container that is set up.    *)
LEMMA EntryOfRequest ==
  ASSUME Placed, TypeOK, Accepting, Counted, Existing, Next, Regular, pc[Closer] \in Drain,
         NEW r \in Requests, CreateStep(r) \/ OperationStep(r),
         NEW stored, NEW new, Stores(r, stored, new), NoEntry(stored)
  PROVE  NoEntryAfter(new)
<1> USE Distinct
<1>1. RequestEffect(r) BY RequestOK
<1>2. Accepting' BY AcceptingNext
<1>3. pc[Listener] # "accept" /\ between = 0 /\ pc[r] # "idle"
  <2>1. pc[Listener] # "accept" /\ between = 0 BY DEF Accepting, Counted, Drain
  <2> QED BY <1>1, <2>1 DEF RequestEffect, Onward
<1>4. ASSUME NEW t \in Threads, pc'[t] \in SettingUp PROVE new[arg'[t]] = {}
  <2>1. t # Listener BY <1>2, <1>4 DEF Accepting, SettingUp
  <2>2. CASE t = r
    <3>1. pc[r] \in {"check", "open"} /\ new = stored
      BY <1>1, <1>3, <1>4, <2>2 DEF RequestEffect, Onward, Stores, Answering
    <3>2. CASE pc[r] = "check"
      BY <1>1, <1>4, <2>2, <3>1, <3>2 DEF RequestEffect, Onward, NoEntry, SettingUp
    <3>3. CASE pc[r] = "open"
      BY <1>1, <1>4, <2>2, <3>1, <3>3 DEF RequestEffect, Onward, NoEntry
    <3> QED BY <3>1, <3>2, <3>3
  <2>3. CASE t # r
    <3>1. pc[t] \in SettingUp /\ arg'[t] = arg[t]
      BY <1>1, <1>4, <2>1, <2>3 DEF RequestEffect, Others, SettingUp
    <3>2. stored[arg[t]] = {} /\ arg[t] \in Containers
      BY <3>1, Acts DEF NoEntry
    <3>3. pc[r] \in Answering => arg[t] # arg[r]
      BY <3>1 DEF Existing
    <3> QED BY <3>1, <3>2, <3>3 DEF Stores
  <2> QED BY <2>2, <2>3
<1>5. ASSUME NEW q \in Requests, pc'[q] \in {"accepted", "open"}, NEW c \in Containers
      PROVE  new[c] = {}
  <2>1. pc[q] \in {"accepted", "open"}
    <3>1. CASE q = r
      BY <1>1, <1>3, <1>5, <3>1 DEF RequestEffect, Others, Connect, Accepts, IsNext, Add,
         ReadNext
    <3>2. CASE q # r
      BY <1>1, <1>5, <3>2 DEF RequestEffect, Others
    <3> QED BY <3>1, <3>2
  <2>2. pc[r] \notin Answering
    BY <2>1 DEF Counted, Late, Handling, Answering
  <2> QED BY <2>1, <2>2 DEF Stores, NoEntry
<1> QED BY <1>4, <1>5 DEF NoEntryAfter

(* Nothing else stores one, once the boot scan is over; TeardownAll deletes  *)
(* them all.                                                                 *)
LEMMA EntryOfManager ==
  ASSUME Placed, TypeOK, NEW t \in Threads, ManagerStep(t)
  PROVE  /\ \A c \in Containers : pfStored'[c] \in {pfStored[c], {}}
         /\ \A c \in Containers : fsStored'[c] \in {fsStored[c], {}}
         /\ t = Closer /\ pc[t] = "tearPF" => \A c \in Containers : pfStored'[c] = {}
         /\ t = Closer /\ pc[t] = "tearFS" => \A c \in Containers : fsStored'[c] = {}
<1>1. CASE TearPFBegin(t)
  BY <1>1 DEF TearPFBegin, Step, PF!TeardownBegin, fsVars, Doomed
<1>2. CASE TearFSBegin(t)
  BY <1>2 DEF TearFSBegin, Step, FS!TeardownBegin, pfVars, Doomed
<1>3. CASE ~TearPFBegin(t) /\ ~TearFSBegin(t)
  <2>1. UNCHANGED <<pfStored, fsStored>> /\ pc[t] \notin {"tearPF", "tearFS"}
    BY <1>3 DEF ManagerStep, SetupPFBegin, SetupPFItem, SetupPFEnd, SetupFSBegin,
       SetupFSItem, SetupFSEnd, TearPFEnd, TearFSEnd, Step, pfVars, fsVars,
       PF!SetupBegin, PF!SetupItem, PF!SetupItemFails, PF!SetupEnd, PF!TeardownEnd,
       FS!SetupBegin, FS!SetupItem, FS!SetupItemFails, FS!SetupEnd, FS!TeardownEnd
  <2> QED BY <2>1
<1> QED BY <1>1, <1>2, <1>3

LEMMA EntryKept ==
  ASSUME Placed, NEW stored, NEW new, NoEntry(stored),
         \A c \in Containers : new[c] \in {stored[c], {}},
         \A t \in Threads : pc'[t] \in SettingUp => pc[t] \in SettingUp /\ arg'[t] = arg[t],
         \A r \in Requests : pc'[r] \in {"accepted", "open"} => pc'[r] = pc[r]
  PROVE  NoEntryAfter(new)
<1>1. ASSUME NEW t \in Threads, pc'[t] \in SettingUp PROVE new[arg'[t]] = {}
  BY <1>1, Acts DEF NoEntry
<1> QED BY <1>1 DEF NoEntryAfter, NoEntry

LEMMA NoEntriesNext ==
  ASSUME Placed, TypeOK, Accepting, Counted, Over, Existing, NoEntries, Next
  PROVE  NoEntries'
<1> SUFFICES ASSUME Regular, pc'[Closer] \in PortsGone
             PROVE  /\ NoEntryAfter(pfStored')
                    /\ pc'[Closer] \in MountsGone => NoEntryAfter(fsStored')
  <2>1. Regular' <=> Regular BY RegularStays
  <2>2. MountsGone \subseteq PortsGone BY DEF MountsGone, PortsGone
  <2> QED BY <2>1, <2>2 DEF NoEntries, NoEntry, NoEntryAfter
<1> USE Distinct DEF PortsGone, MountsGone
<1>d. pc'[Closer] \in Drain BY DEF Drain
<1>1. ASSUME pc[Closer] \in Drain, NEW r \in Requests, CreateStep(r) \/ OperationStep(r)
      PROVE  /\ NoEntryAfter(pfStored')
             /\ pc'[Closer] \in MountsGone => NoEntryAfter(fsStored')
  <2>1. RequestEffect(r) /\ pc'[Closer] = pc[Closer] BY <1>1, RequestOK, CloserStays
  <2>2. Stores(r, pfStored, pfStored') /\ Stores(r, fsStored, fsStored')
    BY <2>1 DEF RequestEffect
  <2>3. NoEntry(pfStored) /\ (pc[Closer] \in MountsGone => NoEntry(fsStored))
    BY <2>1 DEF NoEntries
  <2>4. NoEntryAfter(pfStored') BY <1>1, <2>2, <2>3, EntryOfRequest
  <2>5. pc[Closer] \in MountsGone => NoEntryAfter(fsStored')
    BY <1>1, <2>2, <2>3, EntryOfRequest
  <2> QED BY <2>1, <2>4, <2>5
<1>2. ASSUME NEW t \in Threads, ManagerStep(t)
      PROVE  /\ NoEntryAfter(pfStored')
             /\ pc'[Closer] \in MountsGone => NoEntryAfter(fsStored')
  <2>1. ManagerEffect(t) BY <1>2, ManagerOK
  <2>2. /\ \A u \in Threads : pc'[u] \in SettingUp => pc[u] \in SettingUp /\ arg'[u] = arg[u]
        /\ \A r \in Requests : pc'[r] \in {"accepted", "open"} => pc'[r] = pc[r]
    BY <2>1 DEF ManagerEffect, Pair, SettingUp
  <2>3. NoEntryAfter(pfStored')
    <3>1. CASE pc[Closer] \in PortsGone
      BY <1>2, <2>2, <3>1, EntryOfManager, EntryKept DEF NoEntries
    <3>2. CASE pc[Closer] \notin PortsGone
      <4>1. t = Closer /\ pc[t] = "tearPF"
        BY <2>1, <3>2 DEF ManagerEffect, Pair, Accepting, AtClose
      <4>2. \A c \in Containers : pfStored'[c] = {} BY <1>2, <4>1, EntryOfManager
      <4>3. \A u \in Threads : pc'[u] \in SettingUp => arg'[u] \in Containers
        BY <2>2, Acts
      <4> QED BY <4>2, <4>3 DEF NoEntryAfter
    <3> QED BY <3>1, <3>2
  <2>4. ASSUME pc'[Closer] \in MountsGone PROVE NoEntryAfter(fsStored')
    <3>1. CASE pc[Closer] \in MountsGone
      BY <1>2, <2>2, <3>1, EntryOfManager, EntryKept DEF NoEntries
    <3>2. CASE pc[Closer] \notin MountsGone
      <4>1. t = Closer /\ pc[t] = "tearFS"
        BY <2>1, <2>4, <3>2 DEF ManagerEffect, Pair, Accepting, AtClose
      <4>2. \A c \in Containers : fsStored'[c] = {} BY <1>2, <4>1, EntryOfManager
      <4>3. \A u \in Threads : pc'[u] \in SettingUp => arg'[u] \in Containers
        BY <2>2, Acts
      <4> QED BY <4>2, <4>3 DEF NoEntryAfter
    <3> QED BY <3>1, <3>2
  <2> QED BY <2>3, <2>4
<1>3. ASSUME \/ \E c \in Containers : ContainerExits(c)
             \/ AcceptFails
      PROVE  /\ NoEntryAfter(pfStored')
             /\ pc'[Closer] \in MountsGone => NoEntryAfter(fsStored')
  <2>1. UNCHANGED <<pfStored, fsStored, arg>>
    BY <1>3 DEF ContainerExits, AcceptFails, managers, pfVars, fsVars
  <2>2. /\ \A u \in Threads : pc'[u] \in SettingUp => pc[u] \in SettingUp
        /\ \A r \in Requests : pc'[r] \in {"accepted", "open"} => pc'[r] = pc[r]
        /\ pc'[Closer] = pc[Closer]
    BY <1>3 DEF ContainerExits, Answered, AcceptFails, Step, SettingUp, Placed
  <2> QED BY <2>1, <2>2 DEF NoEntries, NoEntry, NoEntryAfter
<1>4. ~Drained
  BY DEF Drained, Step, Placed
<1> QED BY <1>d, <1>1, <1>2, <1>3, <1>4, IntoDrain

-----------------------------------------------------------------------------
(* The sessions.  A setup without an entry creates none ...                  *)
LEMMA NoSetup ==
  ASSUME Placed, TypeOK, PortsHeld, MountsHeld, PF!JobOwnsEntries, FS!JobOwnsEntries,
         NEW t \in Threads
  PROVE  /\ SetupPFItem(t) /\ NoEntry(pfStored) => UNCHANGED pfLive
         /\ SetupFSItem(t) /\ NoEntry(fsStored) => UNCHANGED fsLive
<1>1. ASSUME SetupPFItem(t), NoEntry(pfStored) PROVE UNCHANGED pfLive
  <2>1. pc[t] = "settingPF" BY <1>1 DEF SetupPFItem
  <2>2. pfJob.op = "setup" /\ pfJob.on = {arg[t]}
    BY <2>1 DEF PortsHeld, Holds
  <2>3. pfStored[arg[t]] = {} BY <1>1, <2>1 DEF NoEntry, SettingUp
  <2>4. pfJob.todo = {} BY <2>2, <2>3 DEF PF!JobOwnsEntries
  <2> QED BY <1>1, <2>4 DEF SetupPFItem, PF!SetupItem, PF!SetupItemFails
<1>2. ASSUME SetupFSItem(t), NoEntry(fsStored) PROVE UNCHANGED fsLive
  <2>1. pc[t] = "settingFS" BY <1>2 DEF SetupFSItem
  <2>2. fsJob.op = "setup" /\ fsJob.on = {arg[t]}
    BY <2>1 DEF MountsHeld, Holds
  <2>3. fsStored[arg[t]] = {} BY <1>2, <2>1 DEF NoEntry, SettingUp
  <2>4. fsJob.todo = {} BY <2>2, <2>3 DEF FS!JobOwnsEntries
  <2> QED BY <1>2, <2>4 DEF SetupFSItem, FS!SetupItem, FS!SetupItemFails
<1> QED BY <1>1, <1>2

(* ... a teardown leaves none more, and Close's none unless mutagen failed.  *)
LEMMA TeardownLeaves ==
  ASSUME TypeOK, PortsHeld, MountsHeld, NEW t \in Threads
  PROVE  /\ TearPFEnd(t) =>
              \A c \in Containers, i \in Ports :
                /\ pfLive'[c][i] \in {0, pfLive[c][i]}
                /\ t = Closer => pfLive'[c][i] = 0 \/ Faulty'
         /\ TearFSEnd(t) =>
              \A c \in Containers, i \in Mounts :
                /\ fsLive'[c][i] \in {0, fsLive[c][i]}
                /\ t = Closer => fsLive'[c][i] = 0 \/ Faulty'
<1>e. EnvOK BY DEF TypeOK, EnvOK
<1>1. ASSUME TearPFEnd(t), NEW c \in Containers, NEW i \in Ports
      PROVE  /\ pfLive'[c][i] \in {0, pfLive[c][i]}
             /\ t = Closer => pfLive'[c][i] = 0 \/ Faulty'
  <2>1. PICK kept \in SUBSET (Doomed(t) \X Ports) : PF!TeardownEnd(kept) /\ MayFail(kept # {})
    BY <1>1 DEF TearPFEnd
  <2>2. pfLive'[c][i] = IF c \in pfJob.on /\ <<c, i>> \notin kept THEN 0 ELSE pfLive[c][i]
    BY <2>1 DEF PF!TeardownEnd
  <2>3. t = Closer => pfJob.on = Containers
    BY <1>1 DEF TearPFEnd, Step, PortsHeld, Holds, Doomed
  <2>4. kept # {} => Faulty' BY <1>e, <2>1, FaultSeen DEF MayFail
  <2> QED BY <2>2, <2>3, <2>4
<1>2. ASSUME TearFSEnd(t), NEW c \in Containers, NEW i \in Mounts
      PROVE  /\ fsLive'[c][i] \in {0, fsLive[c][i]}
             /\ t = Closer => fsLive'[c][i] = 0 \/ Faulty'
  <2>1. PICK kept \in SUBSET (Doomed(t) \X Mounts) : FS!TeardownEnd(kept) /\ MayFail(kept # {})
    BY <1>2 DEF TearFSEnd
  <2>2. fsLive'[c][i] = IF c \in fsJob.on /\ <<c, i>> \notin kept THEN 0 ELSE fsLive[c][i]
    BY <2>1 DEF FS!TeardownEnd
  <2>3. t = Closer => fsJob.on = Containers
    BY <1>2 DEF TearFSEnd, Step, MountsHeld, Holds, Doomed
  <2>4. kept # {} => Faulty' BY <1>e, <2>1, FaultSeen DEF MayFail
  <2> QED BY <2>2, <2>3, <2>4
<1> QED BY <1>1, <1>2

LEMMA LiveElsewhere ==
  ASSUME NEW t \in Threads, ManagerStep(t)
  PROVE  /\ UNCHANGED pfLive \/ SetupPFItem(t) \/ TearPFEnd(t)
         /\ UNCHANGED fsLive \/ SetupFSItem(t) \/ TearFSEnd(t)
BY DEF ManagerStep, SetupPFBegin, SetupPFEnd, SetupFSBegin, SetupFSEnd, TearPFBegin,
   TearFSBegin, SetupPFItem, SetupFSItem, TearPFEnd, TearFSEnd, pfVars, fsVars,
   PF!SetupBegin, PF!SetupEnd, PF!TeardownBegin, FS!SetupBegin, FS!SetupEnd,
   FS!TeardownBegin

LEMMA NoSessionsNext ==
  ASSUME Placed, TypeOK, Accepting, Over, PortsHeld, MountsHeld, PF!JobOwnsEntries,
         FS!JobOwnsEntries, NoEntries, NoSessions, Next
  PROVE  NoSessions'
<1> USE Distinct
<1> DEFINE PG == {"tearFS", "tearingFS", "exit", "done"}
           MG == {"exit", "done"}
<1> SUFFICES ASSUME Regular, ~Faulty, ~Faulty'
             PROVE  /\ pc'[Closer] \in PG => \A c \in Containers, i \in Ports : pfLive'[c][i] = 0
                    /\ pc'[Closer] \in MG => \A c \in Containers, i \in Mounts : fsLive'[c][i] = 0
  <2>1. (Regular' <=> Regular) /\ (Faulty => Faulty') BY RegularStays
  <2> QED BY <2>1 DEF NoSessions
<1>k. ASSUME UNCHANGED <<pfLive, fsLive>>,
             pc'[Closer] \in PG => pc[Closer] \in PG, pc'[Closer] \in MG => pc[Closer] \in MG
      PROVE  /\ pc'[Closer] \in PG => \A c \in Containers, i \in Ports : pfLive'[c][i] = 0
             /\ pc'[Closer] \in MG => \A c \in Containers, i \in Mounts : fsLive'[c][i] = 0
  BY <1>k DEF NoSessions
<1>1. ASSUME NEW r \in Requests, CreateStep(r) \/ OperationStep(r)
      PROVE  UNCHANGED <<pfLive, fsLive>> /\ pc'[Closer] = pc[Closer]
  <2>1. RequestEffect(r) BY <1>1, RequestOK
  <2> QED BY <2>1, CloserStays DEF RequestEffect, Others
<1>2. ASSUME NEW t \in Threads, ManagerStep(t)
      PROVE  /\ pc'[Closer] \in PG => \A c \in Containers, i \in Ports : pfLive'[c][i] = 0
             /\ pc'[Closer] \in MG => \A c \in Containers, i \in Mounts : fsLive'[c][i] = 0
  <2>1. ManagerEffect(t) BY <1>2, ManagerOK
  <2>2. pc[Closer] # "done" /\ pc'[Closer] # "done"
    BY <2>1 DEF ManagerEffect, Pair, Over, Accepting, AtClose
  <2>3. ASSUME pc'[Closer] \in PG, NEW c \in Containers, NEW i \in Ports
        PROVE  pfLive'[c][i] = 0
    <3>1. CASE pc[Closer] \in PG
      <4>1. NoEntry(pfStored) BY <2>2, <3>1 DEF NoEntries, PortsGone
      <4>2. UNCHANGED pfLive \/ TearPFEnd(t) BY <1>2, <4>1, LiveElsewhere, NoSetup
      <4>3. pfLive[c][i] = 0 BY <3>1 DEF NoSessions
      <4> QED BY <4>2, <4>3, TeardownLeaves
    <3>2. CASE pc[Closer] \notin PG
      <4>1. t = Closer /\ pc[t] = "tearingPF"
        BY <2>1, <2>3, <3>2 DEF ManagerEffect, Pair, Accepting, AtClose
      <4>2. TearPFEnd(t)
        BY <1>2, <4>1 DEF ManagerStep, SetupPFBegin, SetupPFItem, SetupPFEnd, SetupFSBegin,
           SetupFSItem, SetupFSEnd, TearPFBegin, TearFSBegin, TearFSEnd, Step
      <4> QED BY <4>1, <4>2, TeardownLeaves
    <3> QED BY <3>1, <3>2
  <2>4. ASSUME pc'[Closer] \in MG, NEW c \in Containers, NEW i \in Mounts
        PROVE  fsLive'[c][i] = 0
    <3>1. CASE pc[Closer] \in MG
      <4>1. NoEntry(fsStored) BY <2>2, <3>1 DEF NoEntries, MountsGone
      <4>2. UNCHANGED fsLive \/ TearFSEnd(t) BY <1>2, <4>1, LiveElsewhere, NoSetup
      <4>3. fsLive[c][i] = 0 BY <3>1 DEF NoSessions
      <4> QED BY <4>2, <4>3, TeardownLeaves
    <3>2. CASE pc[Closer] \notin MG
      <4>1. t = Closer /\ pc[t] = "tearingFS"
        BY <2>1, <2>2, <2>4, <3>2 DEF ManagerEffect, Pair, Accepting, AtClose
      <4>2. TearFSEnd(t)
        BY <1>2, <4>1 DEF ManagerStep, SetupPFBegin, SetupPFItem, SetupPFEnd, SetupFSBegin,
           SetupFSItem, SetupFSEnd, TearPFBegin, TearPFEnd, TearFSBegin, Step
      <4> QED BY <4>1, <4>2, TeardownLeaves
    <3> QED BY <3>1, <3>2
  <2> QED BY <2>3, <2>4
<1>3. ASSUME NEW c \in Containers, ContainerExits(c)
      PROVE  UNCHANGED <<pfLive, fsLive>> /\ pc'[Closer] = pc[Closer]
  BY <1>3 DEF ContainerExits, Answered, Accepting, AtClose, managers, pfVars, fsVars
<1>4. CASE BootStep
  <2>1. UNCHANGED <<pfLive, fsLive>> /\ pc'[Closer] = pc[Closer]
    BY <1>4, BootOK DEF BootEffect
  <2> QED BY <1>k, <2>1
<1>5. CASE EndStep
  <2>1. UNCHANGED <<pfLive, fsLive>>
    BY <1>5 DEF EndStep, CloseBegin, AcceptFails, Drained, managers, pfVars, fsVars
  <2>2. pc'[Closer] \in PG => pc'[Closer] = pc[Closer]
    BY <1>5 DEF EndStep, CloseBegin, AcceptFails, Drained, Step, Placed
  <2> QED BY <1>k, <2>1, <2>2
<1>6. CASE Ending
  <2>1. UNCHANGED <<pfLive, fsLive>>
    BY <1>6 DEF Ending, Panic, InspectPanics, Dies, Exit, Crash, PF!Restart, FS!Restart
  <2>2. pc'[Closer] \in PG => pc[Closer] = "exit"
    BY <1>6 DEF Ending, Panic, InspectPanics, Dies, Exit, Crash, Starts
  <2> QED BY <1>k, <2>1, <2>2
<1> QED BY <1>k, <1>1, <1>2, <1>3, <1>4, <1>5, <1>6, Groups

-----------------------------------------------------------------------------
LEMMA CloseInvNext ==
  ASSUME Placed, TypeOK, PF!JobOwnsEntries, FS!JobOwnsEntries, CloseInv, [Next]_vars
  PROVE  CloseInv'
<1>1. CASE Next
  BY <1>1, AcceptingNext, CountedNext, OverNext, PortsHeldNext, MountsHeldNext,
     ExistingNext, NoEntriesNext, NoSessionsNext DEF CloseInv
<1>2. CASE UNCHANGED vars
  <2>1. (Regular' <=> Regular) /\ (Faulty' <=> Faulty)
    BY <1>2, RegularStays DEF vars, Faulty
  <2>2. Allowed' = Allowed BY <1>2, AllowedStays
  <2> QED BY <1>2, <2>1, <2>2 DEF CloseInv, Accepting, Counted, Without, Over, PortsHeld,
          MountsHeld, Holds, OneHolder, Doomed, Existing, NoEntries, NoEntry, NoSessions, vars, managers,
          pfVars, fsVars, scan
<1> QED BY <1>1, <1>2

LEMMA CloseInvInit == Init => CloseInv
<1> SUFFICES ASSUME Init PROVE CloseInv
  OBVIOUS
<1> USE Distinct
<1>1. \A t \in Threads : pc[t] \in {"list", "up", "accept", "idle"} /\ arg[t] = None
  BY DEF Init, Starts
<1>2. pc[Closer] = "up" /\ pc[Listener] = "accept" /\ snap = {}
  BY DEF Init, Starts
<1>3. between = 0 /\ \A r \in Requests : pc[r] = "idle"
  BY DEF Init, Starts
<1> QED BY <1>1, <1>2, <1>3 DEF CloseInv, Accepting, AtClose, Counted, Handling, Late, Over,
        Drain, PortsHeld, MountsHeld, Holds, OneHolder, Existing, SettingUp, Asking,
        NoEntries, PortsGone, MountsGone, NoSessions

(* When Close has returned, no session is left, for any number of containers *)
(* and requests and whatever was under way, if nothing failed, the boot scan *)
(* was over when requests arrived and when Close began, and connections that *)
(* are accepted late are not kept alive, or none is late (proxy.go, Close;   *)
(* port-forward.go and file-sync.go, TeardownAll).                           *)
THEOREM NothingLeft == Spec => []CloseLeavesNothing
<1>1. CloseInv => CloseLeavesNothing
  <2> SUFFICES ASSUME CloseInv, pc[Closer] = "done", NoneOf({"faults"}), Regular
               PROVE  PF!SessionContainers = {} /\ FS!SessionContainers = {}
    BY DEF CloseLeavesNothing, Regular
  <2>1. ~Faulty BY DEF NoneOf, Faulty
  <2> QED BY <2>1 DEF CloseInv, NoSessions, PF!SessionContainers, FS!SessionContainers
<1>2. Placed /\ TypeOK /\ PF!JobOwnsEntries /\ FS!JobOwnsEntries /\ CloseInv /\ [Next]_vars
        => CloseInv'
  BY CloseInvNext
<1> QED BY <1>1, <1>2, CloseInvInit, PlacedInit, PlacedNext, TypeCorrect, ProxyTracks, PTL
        DEF Spec

-----------------------------------------------------------------------------
(* One sync per path and container.                                          *)

Steady == Without({"duringBoot"})
BootAt == {"list", "listPF", "listFS", "sweep", "tearPF", "tearingPF", "tearFS",
           "tearingFS", "done"}
Started(c) == docker[c] \notin {"absent", "created"}

(* Until the boot scan and its goroutines are through nobody else sets up,   *)
(* and in the first daemon there is nothing to be found.                     *)
Scanning ==
  /\ pc[Boot] \in BootAt
  /\ pc[Boot] # "done" => \A c \in Containers : pc[c] = "idle"
  /\ \A c \in Containers : /\ pc[c] \in {"idle", "done"} \cup SettingUp
                           /\ pc[c] \in SettingUp => arg[c] = c
  /\ Steady /\ ~BootFinished =>
       \A r \in Requests : pc[r] \in {"idle", "accepted", "open", "done"}
  /\ Steady /\ NoneOf({"crashes"}) /\ pc[Boot] # "done" =>
       \A c \in Containers : docker[c] = "absent"

(* Containers are set up, and have syncs, after they were first started.     *)
AfterStart ==
  /\ \A t \in Threads : pc[t] \in SettingUp => Started(arg[t])
  /\ \A c \in snap : Started(c)
  /\ \A c \in Containers : ~Started(c) => \A i \in Mounts : fsLive[c][i] = 0

(* Where SingleSync is claimed, there is one setup per container, and what   *)
(* it is yet to create is not there.                                         *)
Once == Steady /\ NoneOf({"restarts"}) /\ (NoneOf({"faults"}) \/ NoneOf({"crashes"}))
Alone ==
  \A t, u \in Threads :
    pc[t] \in SettingUp /\ pc[u] \in SettingUp /\ arg[t] = arg[u] => t = u
ToCreate(t, i) ==
  \/ pc[t] \in SettingUp \ {"settingFS"}
  \/ pc[t] = "settingFS" /\ i \in fsJob.todo
Looked == {"sweep", "tearPF", "tearingPF", "tearFS", "tearingFS"}
Fresh ==
  /\ \A t \in Threads, i \in Mounts : ToCreate(t, i) => fsLive[arg[t]][i] = 0
  /\ pc[Boot] \in Looked => \A c \in snap \ old, i \in Mounts : fsLive[c][i] = 0
  /\ \A c \in Containers, i \in Mounts : fsLive[c][i] <= 1

SyncInv == Scanning /\ AfterStart /\ (Once => Alone /\ Fresh)

(* What was used of the environment's bounds stays used.                     *)
LEMMA OnceStays ==
  ASSUME TypeOK, Next \/ UNCHANGED vars
  PROVE  /\ Steady' <=> Steady
         /\ \A b \in Bounds : NoneOf({b})' => NoneOf({b})
         /\ Once' => Once
<1>1. EnvOK BY DEF TypeOK, EnvOK
<1>2. UNCHANGED env \/ Uses BY EnvStep DEF vars
<1>3. env'.world = env.world /\ \A b \in Bounds : env'.used[b] = 0 => env.used[b] = 0
  <2>1. CASE UNCHANGED env BY <2>1
  <2>2. CASE Uses
    <3>1. PICK d \in Bounds : env' = [env EXCEPT !.used[d] = @ + 1]
      BY <2>2 DEF Uses, Use
    <3>2. env' = [env EXCEPT !.used = [env.used EXCEPT ![d] = env.used[d] + 1]]
      BY <1>1, <3>1 DEF EnvOK
    <3>3. env'.world = env.world /\ env'.used = [env.used EXCEPT ![d] = env.used[d] + 1]
      BY <1>1, <3>2 DEF EnvOK
    <3>4. \A b \in Bounds : env.used[b] \in Nat BY <1>1 DEF EnvOK
    <3> QED BY <1>1, <3>3, <3>4 DEF EnvOK
  <2> QED BY <1>2, <2>1, <2>2
<1>4. Steady' <=> Steady BY <1>3 DEF Steady, Without, Allowed
<1> QED BY <1>3, <1>4 DEF NoneOf, Once, Bounds

LEMMA Spent ==
  ASSUME TypeOK, NEW b \in Bounds, Use(b)
  PROVE  ~NoneOf({b})'
<1>1. env \in [world : Environments, used : [Bounds -> Nat]] BY DEF TypeOK
<1>2. env' = [env EXCEPT !.used = [env.used EXCEPT ![b] = env.used[b] + 1]]
  BY <1>1 DEF Use
<1>3. env'.used[b] = env.used[b] + 1 /\ env.used[b] \in Nat BY <1>1, <1>2
<1> QED BY <1>3 DEF NoneOf

(* Requests keep away until the boot scan is through.                        *)
LEMMA RequestsWait ==
  ASSUME Scanning, Steady, ~BootFinished, NEW r \in Requests, CreateStep(r) \/ OperationStep(r)
  PROVE  Connect(r) \/ Add(r) \/ ReadNext(r) \/ HangUp(r)
<1>1. pc[r] \in {"idle", "accepted", "open", "done"} BY DEF Scanning
<1>2. \A kind : ~CanSend(r, kind) BY DEF CanSend, Steady, Without
<1>3. CASE CreateStep(r)
  BY <1>1, <1>2, <1>3 DEF CreateStep, CreatePorts, CreateMounts, CreateSend, CreateLost,
     AnswerUnread, CreatedPorts, CreatedMounts, Step
<1>4. CASE OperationStep(r)
  BY <1>1, <1>2, <1>4 DEF OperationStep, CheckRunning, Resolve, RemoveSend, RemoveRefused,
     WaitBroken, Inspect, InspectUnknown, Start, Stop, Remove, Wait, WaitUnknown, Step
<1> QED BY <1>3, <1>4

(* Where the boot scan has come to, and who may work beside it.              *)
LEMMA ScanningNext ==
  ASSUME Placed, TypeOK, Accepting, Scanning, Next PROVE Scanning'
<1> USE Distinct DEF BootAt, SettingUp
<1> DEFINE Quietly == {"idle", "accepted", "open", "done"}
<1>0. (Steady' <=> Steady) /\ (NoneOf({"crashes"})' => NoneOf({"crashes"}))
  BY OnceStays DEF Bounds
<1>k. ASSUME \A t \in {Boot} \cup Containers : pc'[t] = pc[t] /\ arg'[t] = arg[t],
             Steady /\ ~BootFinished =>
               /\ \A r \in Requests : pc'[r] \in Quietly
               /\ UNCHANGED docker
      PROVE  Scanning'
  <2>1. BootFinished' <=> BootFinished BY <1>k DEF BootFinished
  <2>2. pc[Boot] # "done" => ~BootFinished BY DEF BootFinished
  <2>3. /\ pc'[Boot] \in BootAt
        /\ pc'[Boot] # "done" => \A c \in Containers : pc'[c] = "idle"
        /\ \A c \in Containers : /\ pc'[c] \in {"idle", "done"} \cup SettingUp
                                 /\ pc'[c] \in SettingUp => arg'[c] = c
    BY <1>k DEF Scanning
  <2> QED BY <1>0, <1>k, <2>1, <2>2, <2>3 DEF Scanning
<1>1. ASSUME NEW r \in Requests, CreateStep(r) \/ OperationStep(r) PROVE Scanning'
  <2>1. RequestEffect(r) BY <1>1, RequestOK
  <2>2. \A t \in {Boot} \cup Containers : pc'[t] = pc[t] /\ arg'[t] = arg[t]
    BY <2>1 DEF RequestEffect, Others, Scanning
  <2>3. ASSUME Steady, ~BootFinished
        PROVE  (\A q \in Requests : pc'[q] \in Quietly) /\ UNCHANGED docker
    <3>1. Connect(r) \/ Add(r) \/ ReadNext(r) \/ HangUp(r)
      BY <1>1, <2>3, RequestsWait
    <3>2. \A q \in Requests : pc[q] \in Quietly BY <2>3 DEF Scanning
    <3> QED BY <3>1, <3>2 DEF Connect, Add, ReadNext, HangUp, Step, Placed
  <2> QED BY <1>k, <2>2, <2>3
<1>2. ASSUME NEW t \in Threads, ManagerStep(t) PROVE Scanning'
  <2>1. ManagerEffect(t) BY <1>2, ManagerOK
  <2>2. BootFinished => BootFinished'
    BY <2>1 DEF ManagerEffect, Pair, BootFinished
  <2>3. pc[Boot] # "done" => ~BootFinished BY DEF BootFinished
  <2>4. /\ pc'[Boot] \in BootAt
        /\ pc'[Boot] # "done" <=> pc[Boot] # "done"
        /\ pc'[Boot] # "done" => \A c \in Containers : pc'[c] = "idle"
    BY <2>1 DEF ManagerEffect, Pair, Scanning
  <2>5. \A c \in Containers : /\ pc'[c] \in {"idle", "done"} \cup SettingUp
                              /\ pc'[c] \in SettingUp => arg'[c] = c
    BY <2>1 DEF ManagerEffect, Pair, Scanning
  <2>6. Steady /\ ~BootFinished' => \A r \in Requests : pc'[r] \in Quietly
    BY <2>1, <2>2 DEF ManagerEffect, Pair, Scanning
  <2>7. Steady' /\ NoneOf({"crashes"})' /\ pc'[Boot] # "done" =>
          \A c \in Containers : docker'[c] = "absent"
    BY <1>0, <2>1, <2>4 DEF ManagerEffect, Scanning
  <2> QED BY <1>0, <2>4, <2>5, <2>6, <2>7 DEF Scanning
<1>3. ASSUME NEW c \in Containers, ContainerExits(c) PROVE Scanning'
  <2>1. UNCHANGED arg /\ docker[c] = "running"
        /\ \A t \in Threads : pc'[t] = pc[t] \/ (pc[t] = "waiting" /\ pc'[t] = "inspect")
    BY <1>3 DEF ContainerExits, Answered
  <2>2. \A t \in {Boot} \cup Containers : pc'[t] = pc[t] BY <2>1 DEF Scanning
  <2>3. BootFinished' <=> BootFinished BY <2>2 DEF BootFinished
  <2>4. ~(Steady /\ NoneOf({"crashes"}) /\ pc[Boot] # "done") BY <2>1 DEF Scanning
  <2>5. Steady /\ ~BootFinished => \A r \in Requests : pc'[r] \in Quietly
    BY <2>1 DEF Scanning
  <2> QED BY <1>0, <2>1, <2>2, <2>3, <2>4, <2>5 DEF Scanning
<1>4. CASE BootStep
  <2>1. BootEffect BY <1>4, BootOK
  <2>2. ~BootFinished BY <2>1 DEF BootEffect, BootFinished
  <2>3. UNCHANGED docker /\ \A r \in Requests : pc'[r] = pc[r]
    BY <2>1 DEF BootEffect
  <2>4. /\ pc'[Boot] \in BootAt
        /\ pc'[Boot] # "done" => pc[Boot] # "done" /\ \A c \in Containers : pc'[c] = "idle"
        /\ \A c \in Containers : /\ pc'[c] \in {"idle", "done"} \cup SettingUp
                                 /\ pc'[c] \in SettingUp => arg'[c] = c
    <3>1. CASE ListRunning \/ ListForwards \/ ListSyncs
      BY <3>1 DEF ListRunning, ListForwards, ListSyncs, Step, Scanning, Placed
    <3>2. ASSUME NEW c \in Containers, Sweep(c) PROVE <2>4!1 /\ <2>4!2 /\ <2>4!3
      BY <3>2 DEF Sweep, Step, Scanning, Placed
    <3>3. CASE Spawn BY <3>3 DEF Spawn, Scanning
    <3>4. ASSUME NEW c \in Containers, ScanPorts(c) \/ ScanMounts(c)
          PROVE  <2>4!1 /\ <2>4!2 /\ <2>4!3
      BY <3>4 DEF ScanPorts, ScanMounts, Step, Scanning, Placed
    <3> QED BY <1>4, <3>1, <3>2, <3>3, <3>4 DEF BootStep, ScanStep
  <2> QED BY <1>0, <2>2, <2>3, <2>4 DEF Scanning
<1>5. CASE EndStep
  <2>1. UNCHANGED <<arg, docker>> /\ \A t \in Requests \cup Containers \cup {Boot} : pc'[t] = pc[t]
    BY <1>5 DEF EndStep, CloseBegin, AcceptFails, Drained, Step, Placed
  <2>2. Steady /\ ~BootFinished => \A r \in Requests : pc'[r] \in Quietly
    BY <2>1 DEF Scanning
  <2> QED BY <1>k, <2>1, <2>2
<1>6. CASE Ending
  <2>1. /\ pc'[Boot] \in {"list", "done"}
        /\ \A r \in Requests : pc'[r] \in Quietly
        /\ \A c \in Containers : pc'[c] \in {"idle", "done"}
        /\ pc'[Boot] = "list" => Crash /\ \A c \in Containers : pc'[c] = "idle"
    BY <1>6 DEF Ending, Panic, InspectPanics, Dies, Exit, Crash, Starts
  <2>2. Crash => ~NoneOf({"crashes"})' BY Spent DEF Crash, Bounds
  <2> QED BY <2>1, <2>2 DEF Scanning
<1> QED BY <1>1, <1>2, <1>3, <1>4, <1>5, <1>6, Groups

(* What was started once goes on to have been.                               *)
LEMMA StartedStays ==
  ASSUME Placed, TypeOK, Accepting, Next
  PROVE  \A c \in Containers : Started(c) => Started(c)'
<1>1. ASSUME NEW r \in Requests, CreateStep(r) \/ OperationStep(r)
      PROVE  \A c \in Containers : Started(c) => Started(c)'
  BY <1>1, RequestOK DEF RequestEffect, Others, Started
<1>2. ASSUME NEW t \in Threads, ManagerStep(t) PROVE UNCHANGED docker
  BY <1>2, ManagerOK DEF ManagerEffect
<1>3. ASSUME NEW d \in Containers, ContainerExits(d)
      PROVE  \A c \in Containers : Started(c) => Started(c)'
  BY <1>3 DEF ContainerExits, TypeOK, Started
<1>4. CASE BootStep BY <1>4, BootOK DEF BootEffect, Started
<1>5. CASE EndStep BY <1>5 DEF EndStep, CloseBegin, AcceptFails, Drained, Started
<1>6. CASE Ending BY <1>6 DEF Ending, Panic, InspectPanics, Dies, Exit, Crash, Started
<1> QED BY <1>1, <1>2, <1>3, <1>4, <1>5, <1>6, Groups DEF Started

(* Who sets up was at it before, or a start request began to, or the boot    *)
(* scan's goroutines did.                                                    *)
Kept(t) == pc[t] \in SettingUp /\ arg'[t] = arg[t]
Begins(r) ==
  /\ \A t \in Threads \ {r} : pc'[t] \in SettingUp => Kept(t)
  /\ arg'[r] \in Containers /\ docker'[arg'[r]] = "running"
  /\ docker[arg'[r]] = "created" \/ Use("restarts")

LEMMA Enters ==
  ASSUME Placed, TypeOK, Accepting, Scanning, Next
  PROVE  \/ \A t \in Threads : pc'[t] \in SettingUp => Kept(t)
         \/ \E r \in Requests : Begins(r)
         \/ Spawn
<1> DEFINE All == \A t \in Threads : pc'[t] \in SettingUp => Kept(t)
<1> USE Distinct DEF SettingUp, Kept
<1>1. ASSUME NEW r \in Requests, CreateStep(r) \/ OperationStep(r) PROVE All \/ Begins(r)
  <2>1. RequestEffect(r) BY <1>1, RequestOK
  <2>2. Accepting' BY AcceptingNext
  <2>3. \A t \in Threads \ {r} : pc'[t] \in SettingUp => Kept(t)
    BY <2>1, <2>2 DEF RequestEffect, Others, Accepting
  <2> QED BY <2>1, <2>3 DEF RequestEffect, Onward, Begins
<1>2. ASSUME NEW t \in Threads, ManagerStep(t) PROVE All
  BY <1>2, ManagerOK DEF ManagerEffect, Pair
<1>3. ASSUME NEW c \in Containers, ContainerExits(c) PROVE All
  BY <1>3 DEF ContainerExits, Answered
<1>4. CASE BootStep
  BY <1>4 DEF BootStep, ScanStep, ListRunning, ListForwards, ListSyncs, Sweep, ScanPorts,
     ScanMounts, Step, Placed
<1>5. CASE EndStep
  BY <1>5 DEF EndStep, CloseBegin, AcceptFails, Drained, Step, Placed
<1>6. CASE Ending
  BY <1>6 DEF Ending, Panic, InspectPanics, Dies, Exit, Crash, Starts
<1> QED BY <1>1, <1>2, <1>3, <1>4, <1>5, <1>6, Groups

(* Syncs become fewer, or a setup creates one.                               *)
Creates(t, i) ==
  /\ pc[t] = "settingFS" /\ arg[t] \in Containers /\ i \in fsJob.todo
  /\ UNCHANGED <<pc, arg, docker, snap, old>>
  /\ fsJob' = [fsJob EXCEPT !.todo = @ \ {i}]
  /\ fsLive' = [fsLive EXCEPT ![arg[t]][i] = @ + 1]

LEMMA SyncStep ==
  ASSUME Placed, TypeOK, Accepting, PortsHeld, MountsHeld, Next
  PROVE  \/ \A c \in Containers, i \in Mounts : fsLive'[c][i] \in {0, fsLive[c][i]}
         \/ \E t \in Threads, i \in Mounts : Creates(t, i)
<1>1. ASSUME NEW r \in Requests, CreateStep(r) \/ OperationStep(r) PROVE UNCHANGED fsLive
  BY <1>1, RequestOK DEF RequestEffect, Others
<1>2. ASSUME NEW t \in Threads, ManagerStep(t)
      PROVE  \/ \A c \in Containers, i \in Mounts : fsLive'[c][i] \in {0, fsLive[c][i]}
             \/ \E i \in Mounts : Creates(t, i)
  <2>1. CASE SetupFSItem(t)
    <3>1. PICK i \in Mounts : FS!SetupItem(i) \/ FS!SetupItemFails(i)
      BY <2>1 DEF SetupFSItem
    <3>2. pc[t] = "settingFS" /\ fsJob.on = {arg[t]} /\ arg[t] \in Containers
      BY <2>1, Acts DEF SetupFSItem, MountsHeld, Holds, SettingUp
    <3>3. CASE FS!SetupItem(i)
      BY <2>1, <3>2, <3>3 DEF FS!SetupItem, SetupFSItem, Creates, scan
    <3>4. CASE FS!SetupItemFails(i)
      BY <3>4 DEF FS!SetupItemFails
    <3> QED BY <3>1, <3>3, <3>4
  <2> QED BY <1>2, <2>1, LiveElsewhere, TeardownLeaves
<1>3. ASSUME NEW c \in Containers, ContainerExits(c) PROVE UNCHANGED fsLive
  BY <1>3 DEF ContainerExits, managers, fsVars
<1>4. CASE BootStep BY <1>4, BootOK DEF BootEffect
<1>5. CASE EndStep BY <1>5 DEF EndStep, CloseBegin, AcceptFails, Drained, managers, fsVars
<1>6. CASE Ending
  BY <1>6 DEF Ending, Panic, InspectPanics, Dies, Exit, Crash, FS!Restart
<1> QED BY <1>1, <1>2, <1>3, <1>4, <1>5, <1>6, Groups

(* What a setup is yet to create it was before.                              *)
LEMMA ToCreateBefore ==
  ASSUME Placed, TypeOK, Accepting, Scanning, MountsHeld, Next,
         NEW t \in Threads, NEW i \in Mounts, pc[t] \in SettingUp, ToCreate(t, i)'
  PROVE  ToCreate(t, i)
<1> SUFFICES ASSUME pc[t] = "settingFS" PROVE i \in fsJob.todo
  BY DEF ToCreate
<1> USE Distinct DEF ToCreate, SettingUp
<1>k. ASSUME pc'[t] = pc[t], UNCHANGED fsJob PROVE i \in fsJob.todo
  BY <1>k
<1>1. ASSUME NEW r \in Requests, CreateStep(r) \/ OperationStep(r) PROVE i \in fsJob.todo
  <2>1. RequestEffect(r) BY <1>1, RequestOK
  <2>2. t # r /\ t # Listener
    BY <2>1 DEF RequestEffect, Onward, Holding, Accepting
  <2> QED BY <1>k, <2>1, <2>2 DEF RequestEffect, Others
<1>2. ASSUME NEW u \in Threads, ManagerStep(u) PROVE i \in fsJob.todo
  <2>1. ManagerEffect(u) BY <1>2, ManagerOK
  <2>2. fsJob.op = "setup" BY DEF MountsHeld, Holds
  <2>3. CASE SetupFSItem(u)
    <3>1. PICK j \in Mounts : fsJob' = [fsJob EXCEPT !.todo = @ \ {j}]
      BY <2>3 DEF SetupFSItem, FS!SetupItem, FS!SetupItemFails
    <3>2. fsJob'.todo \subseteq fsJob.todo
      BY <2>2, <3>1 DEF TypeOK, FS!TypeOK, FS!Jobs, FS!Idle
    <3> QED BY <2>3, <3>2 DEF SetupFSItem
  <2>4. ~SetupFSBegin(u) /\ ~TearFSBegin(u)
    BY <2>2 DEF SetupFSBegin, TearFSBegin, FS!SetupBegin, FS!TeardownBegin, FS!MuFree, FS!Idle
  <2>5. ~SetupFSEnd(u) /\ ~TearFSEnd(u)
    BY DEF SetupFSEnd, TearFSEnd, Step, Placed, MountsHeld, OneHolder
  <2>6. CASE SetupPFBegin(u) \/ SetupPFItem(u) \/ SetupPFEnd(u) \/ TearPFBegin(u) \/ TearPFEnd(u)
    <3>1. UNCHANGED fsJob
      BY <2>6 DEF SetupPFBegin, SetupPFItem, SetupPFEnd, TearPFBegin, TearPFEnd, fsVars
    <3>2. u # t
      BY <2>6 DEF SetupPFBegin, SetupPFItem, SetupPFEnd, TearPFBegin, TearPFEnd, Step
    <3> QED BY <1>k, <2>1, <3>1, <3>2 DEF ManagerEffect
  <2> QED BY <1>2, <2>3, <2>4, <2>5, <2>6 DEF ManagerStep
<1>3. ASSUME NEW c \in Containers, ContainerExits(c) PROVE i \in fsJob.todo
  BY <1>k, <1>3 DEF ContainerExits, Answered, managers, fsVars
<1>4. CASE BootStep
  <2>1. UNCHANGED fsJob BY <1>4, BootOK DEF BootEffect
  <2>2. t # Boot BY DEF Scanning, BootAt
  <2>3. pc'[t] = pc[t]
    BY <1>4, <2>2 DEF BootStep, ScanStep, ListRunning, ListForwards, ListSyncs, Sweep, Spawn,
       ScanPorts, ScanMounts, Step, Placed, Scanning
  <2> QED BY <1>k, <2>1, <2>3
<1>5. CASE EndStep
  <2>1. UNCHANGED fsJob
    BY <1>5 DEF EndStep, CloseBegin, AcceptFails, Drained, managers, fsVars
  <2>2. pc'[t] = pc[t]
    BY <1>5 DEF EndStep, CloseBegin, AcceptFails, Drained, Step, Placed, Accepting, AtClose
  <2> QED BY <1>k, <2>1, <2>2
<1>6. ~Ending
  BY DEF Ending, Panic, InspectPanics, Dies, Exit, Crash, Starts
<1> QED BY <1>1, <1>2, <1>3, <1>4, <1>5, <1>6, Groups

LEMMA AfterStartNext ==
  ASSUME Placed, TypeOK, Accepting, PortsHeld, MountsHeld, Scanning, AfterStart, Next
  PROVE  AfterStart'
<1> USE Distinct
<1>0. \A c \in Containers : Started(c) => Started(c)' BY StartedStays
<1>k. ASSUME NEW t \in Threads, Kept(t) PROVE docker'[arg'[t]] \notin {"absent", "created"}
  BY <1>0, <1>k, Acts DEF Kept, AfterStart, Started
<1>s. snap \subseteq Containers BY DEF Placed
<1>1. ASSUME NEW t \in Threads, pc'[t] \in SettingUp
      PROVE  docker'[arg'[t]] \notin {"absent", "created"}
  <2>1. CASE Kept(t) BY <1>k, <2>1
  <2>2. CASE \E r \in Requests : Begins(r) BY <1>1, <1>k, <2>2 DEF Begins
  <2>3. CASE Spawn
    <3>1. CASE t \in snap \ old
      BY <1>s, <2>3, <3>1 DEF Spawn, AfterStart, Started
    <3>2. CASE t \notin snap \ old
      <4>1. Kept(t) BY <1>1, <2>3, <3>2 DEF Spawn, Kept, SettingUp
      <4> QED BY <1>k, <4>1
    <3> QED BY <3>1, <3>2
  <2> QED BY <1>1, <2>1, <2>2, <2>3, Enters
<1>2. ASSUME NEW c \in snap' PROVE docker'[c] \notin {"absent", "created"}
  <2>k. ASSUME c \in snap \/ docker[c] = "running", c \in Containers
        PROVE  docker'[c] \notin {"absent", "created"}
    BY <1>0, <2>k DEF AfterStart, Started
  <2>1. ASSUME NEW r \in Requests, CreateStep(r) \/ OperationStep(r) PROVE c \in snap
    BY <2>1, RequestOK DEF RequestEffect, Others
  <2>2. ASSUME NEW t \in Threads, ManagerStep(t) PROVE c \in snap
    BY <2>2, ManagerOK DEF ManagerEffect
  <2>3. ASSUME NEW d \in Containers, ContainerExits(d) PROVE c \in snap
    BY <2>3 DEF ContainerExits, scan
  <2>4. CASE BootStep
    <3>1. c \in snap \/ docker[c] = "running" BY <2>4, BootOK DEF BootEffect
    <3>2. c \in Containers BY PlacedNext DEF Placed
    <3> QED BY <2>k, <3>1, <3>2
  <2>5. CASE EndStep
    BY <1>s, <2>k, <2>5 DEF EndStep, CloseBegin, AcceptFails, Drained, scan
  <2>6. CASE Ending
    BY <1>s, <2>k, <2>6 DEF Ending, Panic, InspectPanics, Dies, Exit, Crash, scan
  <2> QED BY <1>s, <2>k, <2>1, <2>2, <2>3, <2>4, <2>5, <2>6, Groups
<1>3. ASSUME NEW c \in Containers, docker'[c] \in {"absent", "created"}, NEW i \in Mounts
      PROVE  fsLive'[c][i] = 0
  <2>1. ~Started(c) BY <1>0, <1>3 DEF Started
  <2>2. fsLive[c][i] = 0 BY <2>1 DEF AfterStart
  <2>3. ASSUME NEW t \in Threads, NEW j \in Mounts, Creates(t, j) PROVE fsLive'[c][i] = 0
    <3>1. c # arg[t] BY <2>1, <2>3 DEF Creates, AfterStart, SettingUp
    <3> QED BY <2>2, <2>3, <3>1 DEF Creates, TypeOK, FS!TypeOK
  <2> QED BY <2>2, <2>3, SyncStep
<1> QED BY <1>1, <1>2, <1>3 DEF AfterStart, Started

(* While the boot scan is under way, only its own goroutines set up.         *)
LEMMA NobodyElse ==
  ASSUME Accepting, Scanning, Steady, pc[Boot] # "done"
  PROVE  \A t \in Threads : pc[t] \notin SettingUp
<1> TAKE t \in Threads
<1>1. ~BootFinished BY DEF BootFinished
<1> QED BY <1>1, Distinct DEF Scanning, BootAt, SettingUp, Accepting, AtClose, Threads

LEMMA AloneNext ==
  ASSUME Placed, TypeOK, Accepting, Scanning, AfterStart, Once, Once', Alone, Next
  PROVE  Alone'
<1> USE Distinct
<1> SUFFICES ASSUME NEW t \in Threads, NEW u \in Threads, pc'[t] \in SettingUp,
                    pc'[u] \in SettingUp, arg'[t] = arg'[u]
             PROVE  t = u
  BY DEF Alone
<1>k. Kept(t) /\ Kept(u) => t = u
  BY DEF Kept, Alone
<1>1. ASSUME NEW r \in Requests, Begins(r) PROVE t = u
  <2>1. ~Use("restarts") BY Spent DEF Once, NoneOf, Bounds
  <2>2. ~Started(arg'[r]) BY <1>1, <2>1 DEF Begins, Started
  <2>3. ~(Kept(t) /\ arg'[t] = arg'[r]) /\ ~(Kept(u) /\ arg'[u] = arg'[r])
    BY <2>2 DEF Kept, AfterStart
  <2> QED BY <1>1, <1>k, <2>3 DEF Begins
<1>2. CASE Spawn
  <2>1. \A v \in Threads : pc[v] \notin SettingUp BY <1>2, NobodyElse DEF Spawn, Once
  <2>2. t \in snap \ old /\ u \in snap \ old BY <1>2, <2>1 DEF Spawn, SettingUp
  <2> QED BY <1>2, <2>2 DEF Spawn
<1> QED BY <1>k, <1>1, <1>2, Enters

(* The boot scan looks at what there is, and keeps to it.                    *)
LEMMA Looks ==
  ASSUME Placed, TypeOK, Accepting, Scanning, Next, pc'[Boot] \in Looked
  PROVE  \/ pc[Boot] \in Looked /\ snap' \ old' \subseteq snap \ old
         \/ ListSyncs
<1> USE Distinct DEF Looked
<1>1. ASSUME NEW r \in Requests, CreateStep(r) \/ OperationStep(r)
      PROVE  pc[Boot] \in Looked /\ UNCHANGED <<snap, old>>
  BY <1>1, RequestOK DEF RequestEffect, Others, Scanning, BootAt
<1>2. ASSUME NEW t \in Threads, ManagerStep(t)
      PROVE  pc[Boot] \in Looked /\ UNCHANGED <<snap, old>>
  BY <1>2, ManagerOK DEF ManagerEffect, Pair, Scanning, BootAt
<1>3. ASSUME NEW c \in Containers, ContainerExits(c)
      PROVE  pc[Boot] \in Looked /\ UNCHANGED <<snap, old>>
  BY <1>3 DEF ContainerExits, Answered, scan
<1>4. CASE BootStep
  <2>1. ~ListRunning /\ ~ListForwards /\ ~Spawn
    BY DEF ListRunning, ListForwards, Spawn, Step, Placed
  <2>2. ASSUME NEW c \in Containers, Sweep(c)
        PROVE  pc[Boot] \in Looked /\ snap' \ old' \subseteq snap \ old
    BY <2>2 DEF Sweep, Step
  <2>3. ASSUME NEW c \in Containers, ScanPorts(c) \/ ScanMounts(c)
        PROVE  pc[Boot] \in Looked /\ UNCHANGED <<snap, old>>
    BY <2>3 DEF ScanPorts, ScanMounts, Step, scan, Placed
  <2> QED BY <1>4, <2>1, <2>2, <2>3 DEF BootStep, ScanStep
<1>5. CASE EndStep
  BY <1>5 DEF EndStep, CloseBegin, AcceptFails, Drained, Step, Placed, scan
<1>6. ~Ending
  BY DEF Ending, Panic, InspectPanics, Dies, Exit, Crash, Starts
<1> QED BY <1>1, <1>2, <1>3, <1>4, <1>5, <1>6, Groups

LEMMA FreshNext ==
  ASSUME Placed, TypeOK, Accepting, PortsHeld, MountsHeld, Scanning, AfterStart, Once, Once',
         Alone, Fresh, Next
  PROVE  Fresh'
<1> USE Distinct
<1>0. fsLive \in [Containers -> [Mounts -> 0..MaxSessions]] BY DEF TypeOK, FS!TypeOK
<1>s. snap \subseteq Containers BY DEF Placed
<1>l. ASSUME NEW c \in Containers, NEW i \in Mounts, fsLive[c][i] = 0,
             \A t \in Threads : Creates(t, i) => arg[t] # c
      PROVE  fsLive'[c][i] = 0
  <2>1. ASSUME NEW t \in Threads, NEW j \in Mounts, Creates(t, j) PROVE fsLive'[c][i] = 0
    BY <1>0, <1>l, <2>1 DEF Creates
  <2> QED BY <1>l, <2>1, SyncStep
<1>1. ASSUME NEW t \in Threads, NEW i \in Mounts, ToCreate(t, i)'
      PROVE  fsLive'[arg'[t]][i] = 0
  <2>0. pc'[t] \in SettingUp BY <1>1 DEF ToCreate, SettingUp
  <2>1. CASE Kept(t)
    <3>1. ToCreate(t, i) BY <1>1, <2>1, ToCreateBefore DEF Kept
    <3>2. arg[t] \in Containers /\ fsLive[arg[t]][i] = 0
      BY <2>1, <3>1, Acts DEF Kept, Fresh
    <3>3. ASSUME NEW u \in Threads, Creates(u, i), arg[u] = arg[t] PROVE FALSE
      <4>1. u = t BY <2>1, <3>3 DEF Alone, Kept, Creates, SettingUp
      <4>2. pc[t] = "settingFS" /\ pc'[t] = "settingFS" /\ fsJob' = [fsJob EXCEPT !.todo = @ \ {i}]
        BY <3>3, <4>1 DEF Creates
      <4>3. i \notin fsJob'.todo
        BY <4>2 DEF MountsHeld, Holds, TypeOK, FS!TypeOK, FS!Jobs, FS!Idle
      <4> QED BY <1>1, <4>2, <4>3 DEF ToCreate
    <3> QED BY <1>l, <2>1, <3>2, <3>3 DEF Kept
  <2>2. ASSUME NEW r \in Requests, Begins(r) PROVE fsLive'[arg'[t]][i] = 0
    <3>1. ~Use("restarts") BY Spent DEF Once, NoneOf, Bounds
    <3>2. docker[arg'[r]] = "created" /\ docker'[arg'[r]] = "running" /\ arg'[r] \in Containers
      BY <2>2, <3>1 DEF Begins
    <3>3. fsLive[arg'[r]][i] = 0 BY <3>2 DEF AfterStart, Started
    <3>4. \A u \in Threads : ~Creates(u, i) BY <3>2 DEF Creates
    <3>5. fsLive'[arg'[r]][i] = 0 BY <1>l, <3>2, <3>3, <3>4
    <3> QED BY <2>0, <2>1, <2>2, <3>5 DEF Begins
  <2>3. CASE Spawn
    <3>1. \A v \in Threads : pc[v] \notin SettingUp BY <2>3, NobodyElse DEF Spawn, Once
    <3>2. t \in snap \ old /\ arg'[t] = t BY <2>0, <2>3, <3>1 DEF Spawn, SettingUp
    <3>3. fsLive[t][i] = 0 /\ t \in Containers
      BY <1>s, <2>3, <3>2 DEF Spawn, Fresh, Looked
    <3>4. \A u \in Threads : ~Creates(u, i) BY <3>1 DEF Creates, SettingUp
    <3> QED BY <1>l, <3>2, <3>3, <3>4
  <2> QED BY <2>0, <2>1, <2>2, <2>3, Enters
<1>2. ASSUME pc'[Boot] \in Looked, NEW c \in snap' \ old', NEW i \in Mounts
      PROVE  fsLive'[c][i] = 0
  <2>1. CASE pc[Boot] \in Looked /\ snap' \ old' \subseteq snap \ old
    <3>1. \A v \in Threads : pc[v] \notin SettingUp
      BY <2>1, NobodyElse DEF Looked, Once
    <3>2. \A u \in Threads : ~Creates(u, i) BY <3>1 DEF Creates, SettingUp
    <3>3. fsLive[c][i] = 0 /\ c \in Containers BY <1>2, <1>s, <2>1 DEF Fresh
    <3> QED BY <1>l, <3>2, <3>3
  <2>2. CASE ListSyncs
    <3>1. snap' = snap /\ UNCHANGED fsLive /\ c \in Containers /\ pc[Boot] = "listFS"
      BY <1>2, <1>s, <2>2 DEF ListSyncs, Step, managers, fsVars
    <3>2. PICK lost \in BOOLEAN :
            /\ MayFail(lost)
            /\ old' = old \cup (IF lost THEN {} ELSE FS!SessionContainers)
      BY <2>2 DEF ListSyncs
    <3>3. CASE lost
      <4>1. ~NoneOf({"faults"})' BY <3>2, <3>3, Spent DEF MayFail, Fault, Bounds
      <4>2. NoneOf({"crashes"}) BY <4>1, OnceStays DEF Once, Bounds
      <4>3. docker[c] = "absent" BY <3>1, <4>2 DEF Scanning, Once
      <4> QED BY <1>2, <3>1, <4>3 DEF AfterStart, Started
    <3>4. CASE ~lost
      <4>1. c \notin FS!SessionContainers BY <1>2, <3>2, <3>4
      <4>2. fsLive[c][i] \in Nat /\ ~(fsLive[c][i] > 0)
        BY <1>0, <3>1, <4>1, SessionsAssumption DEF FS!SessionContainers
      <4> QED BY <3>1, <4>2
    <3> QED BY <3>3, <3>4
  <2> QED BY <1>2, <2>1, <2>2, Looks
<1>3. ASSUME NEW c \in Containers, NEW i \in Mounts PROVE fsLive'[c][i] <= 1
  <2>0. fsLive[c][i] \in Nat /\ fsLive[c][i] <= 1
    BY <1>0, SessionsAssumption DEF Fresh
  <2>1. ASSUME NEW t \in Threads, NEW j \in Mounts, Creates(t, j) PROVE fsLive'[c][i] <= 1
    <3>1. fsLive[arg[t]][j] = 0 BY <2>1 DEF Creates, ToCreate, Fresh
    <3> QED BY <1>0, <2>0, <2>1, <3>1 DEF Creates
  <2> QED BY <2>0, <2>1, SyncStep
<1> QED BY <1>1, <1>2, <1>3 DEF Fresh

LEMMA SyncInvNext ==
  ASSUME Placed, TypeOK, CloseInv, SyncInv, [Next]_vars
  PROVE  SyncInv'
<1>1. CASE Next
  <2>1. Once' => Once BY <1>1, OnceStays
  <2> QED BY <1>1, <2>1, ScanningNext, AfterStartNext, AloneNext, FreshNext DEF CloseInv, SyncInv
<1>2. CASE UNCHANGED vars
  <2>1. UNCHANGED <<pc, arg, docker, snap, old, env, fsLive, fsJob>>
    BY <1>2 DEF vars, scan, managers, fsVars
  <2>2. Scanning' BY <2>1 DEF SyncInv, Scanning, Steady, Without, Allowed, NoneOf, BootFinished
  <2>3. AfterStart' BY <2>1 DEF SyncInv, AfterStart, Started
  <2>4. Once' => Once BY <1>2, OnceStays
  <2>5. Once => Alone' /\ Fresh' BY <2>1 DEF SyncInv, Alone, Fresh, ToCreate
  <2> QED BY <2>2, <2>3, <2>4, <2>5 DEF SyncInv
<1> QED BY <1>1, <1>2

LEMMA SyncInvInit == Init => SyncInv
<1> SUFFICES ASSUME Init PROVE SyncInv
  OBVIOUS
<1> USE Distinct
<1>1. /\ pc[Boot] = "list" /\ \A c \in Containers : pc[c] = "idle" /\ docker[c] = "absent"
      /\ \A r \in Requests : pc[r] = "idle"
      /\ \A t \in Threads : pc[t] \notin SettingUp
      /\ snap = {} /\ \A c \in Containers, i \in Mounts : fsLive[c][i] = 0
  BY DEF Init, Starts, SettingUp, FS!Init
<1> QED BY <1>1 DEF SyncInv, Scanning, BootAt, AfterStart, Alone, Fresh, ToCreate, Looked, SettingUp

(* A container has at most one sync per host path, for any number of         *)
(* containers, paths and connections, with a crash or with failures, while   *)
(* no container that exited is started again and requests come after the     *)
(* boot scan (file-sync.go, SetupSyncs; proxy.go, syncWithRunningContainers).*)
THEOREM OneSync == Spec => []SingleSync
<1>1. SyncInv => SingleSync
  BY DEF SyncInv, Once, Steady, SingleSync, Fresh
<1>2. Placed /\ TypeOK /\ CloseInv /\ SyncInv /\ [Next]_vars => SyncInv'
  BY SyncInvNext
<1>3. Placed /\ TypeOK /\ PF!JobOwnsEntries /\ FS!JobOwnsEntries /\ CloseInv /\ [Next]_vars
        => CloseInv'
  BY CloseInvNext
<1> QED BY <1>1, <1>2, <1>3, SyncInvInit, CloseInvInit, PlacedInit, PlacedNext, TypeCorrect,
        ProxyTracks, PTL DEF Spec

-----------------------------------------------------------------------------
(* A container that runs is served, one that stopped is clean.                *)

(* What both properties ask: Close was not called, nothing failed, and       *)
(* clients know containers from the answers to their creates.                *)
Plain ==
  /\ pc[Closer] = "up" /\ ~Faulty
  /\ Without({"early", "duringBoot"}) /\ DistinctNames
Tidy == Plain /\ Without({"unattended", "waitByName"})
Serving ==
  Plain /\ NoneOf({"crashes", "restarts"}) /\ Without({"startByName", "waitUnstarted"})

Stopped(c) == docker[c] \in {"exited", "gone"}

(* A request that names a container means the one it was given.              *)
Meant ==
  \A r \in Requests :
    pc[r] \in {"removing", "resolve", "waiting", "inspect"} =>
      /\ arg[r] \in Containers /\ ref[r] \in {arg[r], NameOf[arg[r]]}
      /\ docker[arg[r]] # "absent"
      /\ pc[r] \in {"waiting", "inspect"} /\ Without({"waitByName"}) => ref[r] = arg[r]

(* Nobody uses a container whose create is being answered.                   *)
Unused ==
  \A r \in Requests :
    pc[r] \in {"created", "endFS"} /\ arg[r] # None =>
      /\ docker[arg[r]] = "created"
      /\ \A q \in Requests : pc[q] = "removing" => arg[q] # arg[r]

(* What a create request asked for is there until it is moved.               *)
Asked ==
  \A r \in Requests :
    /\ pc[r] \in {"mounts", "sending", "created", "refused"} => pfPending[r] = Ports
    /\ pc[r] \in {"sending", "created", "refused", "endFS"} => fsPending[r] = Mounts

(* Until the boot scan is through there is no entry, and what it listed as   *)
(* running runs.                                                             *)
Listed ==
  /\ Steady /\ pc[Boot] # "done" =>
       \A c \in Containers : pfStored[c] = {} /\ fsStored[c] = {}
  /\ Steady /\ Without({"unattended"}) =>
       /\ pc[Boot] # "done" => \A c \in snap : docker[c] = "running"
       /\ \A c \in Containers : pc[c] \in {"storePF", "storeFS"} => docker[c] = "running"

(* Of a container that stopped, nothing is left, or somebody comes to tear   *)
(* it down, or the boot scan will find what is left.                         *)
PortsClean(c) == pfStored[c] = {} /\ \A i \in Ports : pfLive[c][i] = 0
MountsClean(c) == fsStored[c] = {} /\ \A i \in Mounts : fsLive[c][i] = 0
Comes(t, c) ==
  /\ arg[t] = c
  /\ pc[t] \in {"tearPF", "tearingPF", "inspect"} \/ (pc[t] = "resolve" /\ docker[c] = "exited")
Ahead(c, before) ==
  pc[Boot] \in before \/ (pc[Boot] \in {"listFS"} \cup Looked /\ c \in old)
PortsCleared(c) ==
  PortsClean(c) \/ Ahead(c, {"list", "listPF"}) \/ \E t \in Threads : Comes(t, c)
MountsCleared(c) ==
  \/ MountsClean(c) \/ Ahead(c, {"list", "listPF", "listFS"})
  \/ \E t \in Threads : Comes(t, c) \/ (arg[t] = c /\ pc[t] \in {"tearFS", "tearingFS"})
Cleared ==
  Tidy => \A c \in Containers : Stopped(c) => PortsCleared(c) /\ MountsCleared(c)

(* A container is torn down after it stopped.                                *)
Justified ==
  \A r \in Requests : pc[r] \in Clearing \cup {"resolve", "inspect"} => Stopped(arg[r])

(* A container that is to run has its entries, or its create is at it.       *)
At(label, c) == \E r \in Requests : pc[r] = label /\ arg[r] = c
Entered ==
  \A c \in Containers : docker[c] \in {"created", "running"} =>
    \/ At("created", c)
    \/ pfStored[c] = Ports /\ (At("endFS", c) \/ fsStored[c] = Mounts)

(* One that runs has its sessions, or a start is at creating them.           *)
PortsCome(r) ==
  \/ pc[r] \in {"check", "setupPF"}
  \/ pc[r] = "settingPF" /\ \A i \in Ports : i \in pfJob.todo \/ pfLive[arg[r]][i] > 0
MountsCome(r) ==
  \/ pc[r] \in {"check", "setupPF", "settingPF", "setupFS"}
  \/ pc[r] = "settingFS" /\ \A i \in Mounts : i \in fsJob.todo \/ fsLive[arg[r]][i] > 0
Attended ==
  \A c \in Containers : docker[c] = "running" =>
    /\ (\A i \in Ports : pfLive[c][i] > 0) \/ \E r \in Requests : arg[r] = c /\ PortsCome(r)
    /\ (\A i \in Mounts : fsLive[c][i] > 0) \/ \E r \in Requests : arg[r] = c /\ MountsCome(r)

-----------------------------------------------------------------------------
(* Nothing fails in a step after which nothing has failed.                   *)
LEMMA NoFault ==
  ASSUME TypeOK, ~Faulty'
  PROVE  ~Fault /\ \A failed \in BOOLEAN : MayFail(failed) => ~failed /\ UNCHANGED env
<1>1. EnvOK BY DEF TypeOK, EnvOK
<1>2. ~Fault BY <1>1, FaultSeen
<1> QED BY <1>2 DEF MayFail

(* Close, once called, is not taken back, nor is what was spent.             *)
LEMMA UpBefore == ASSUME Placed, TypeOK, Accepting, Next, pc'[Closer] = "up" PROVE pc[Closer] = "up"
<1> USE Distinct
<1>1. ASSUME NEW r \in Requests, CreateStep(r) \/ OperationStep(r) PROVE pc[Closer] = "up"
  BY <1>1, RequestOK, CloserStays
<1>2. ASSUME NEW t \in Threads, ManagerStep(t) PROVE pc[Closer] = "up"
  BY <1>2, ManagerOK DEF ManagerEffect, Pair
<1>3. ASSUME NEW c \in Containers, ContainerExits(c) PROVE pc[Closer] = "up"
  BY <1>3 DEF ContainerExits, Answered
<1>4. CASE BootStep
  BY <1>4, BootOK DEF BootEffect
<1>5. CASE EndStep
  BY <1>5 DEF EndStep, CloseBegin, AcceptFails, Drained, Step, Placed
<1>6. CASE Ending
  BY <1>6 DEF Ending, Panic, InspectPanics, Dies, Exit, Crash
<1> QED BY <1>1, <1>2, <1>3, <1>4, <1>5, <1>6, Groups

LEMMA PlainBefore ==
  ASSUME Placed, TypeOK, Accepting, Next
  PROVE  (Plain' => Plain) /\ (Tidy' => Tidy) /\ (Serving' => Serving)
<1>1. EnvOK BY DEF TypeOK, EnvOK
<1>2. UNCHANGED env \/ Uses BY EnvStep
<1>3. env'.world = env.world
  BY <1>1, <1>2 DEF Uses, Use, EnvOK
<1>4. Faulty => Faulty' BY <1>1, <1>2, UsesOK
<1>5. Plain' => Plain BY <1>3, <1>4, UpBefore DEF Plain, Without, Allowed, DistinctNames
<1>6. Tidy' => Tidy BY <1>3, <1>5 DEF Tidy, Without, Allowed
<1>7. NoneOf({"crashes", "restarts"})' => NoneOf({"crashes", "restarts"})
  BY OnceStays DEF NoneOf, Bounds
<1>8. Serving' => Serving BY <1>3, <1>5, <1>7 DEF Serving, Without, Allowed
<1> QED BY <1>5, <1>6, <1>8

(* What is not a crash ends with Close, and no crash leaves a daemon serving.*)
LEMMA NotEnding ==
  ASSUME TypeOK, Ending
  PROVE  /\ Plain' => Crash
         /\ ~Serving'
         /\ \A r \in Requests : pc'[r] \in {"idle", "done"}
<1> USE Distinct
<1>1. Plain' => Crash
  BY DEF Ending, Panic, InspectPanics, Dies, Exit, Plain
<1>2. Crash => ~Serving'
  <2>1. Crash => ~NoneOf({"crashes"})' BY Spent DEF Crash, Bounds
  <2> QED BY <2>1 DEF Serving, NoneOf
<1>3. \A r \in Requests : pc'[r] \in {"idle", "done"}
  BY DEF Ending, Panic, InspectPanics, Dies, Exit, Crash, Starts
<1> QED BY <1>1, <1>2, <1>3 DEF Serving

-----------------------------------------------------------------------------
(* What an id or name designates.                                            *)
LEMMA TargetNamed ==
  ASSUME NEW x, Target(x) # None
  PROVE  Target(x) \in Containers /\ Exists(Target(x)) /\ x \in {Target(x), NameOf[Target(x)]}
<1> DEFINE found == {c \in Containers : Exists(c) /\ x \in {c, NameOf[c]}}
<1>1. found # {} BY DEF Target
<1>2. (CHOOSE c \in found : TRUE) \in found BY <1>1
<1> QED BY <1>1, <1>2 DEF Target

LEMMA TargetMeant ==
  ASSUME DistinctNames, NEW c \in Containers, NEW x \in {c, NameOf[c]}
  PROVE  Target(x) = IF Exists(c) THEN c ELSE None
<1>1. Target(x) \in {c, None}
  <2> SUFFICES ASSUME Target(x) # None PROVE Target(x) = c
    OBVIOUS
  <2>1. Target(x) \in Containers /\ x \in {Target(x), NameOf[Target(x)]}
    BY TargetNamed
  <2> QED BY <2>1, NamesAssumption DEF DistinctNames
<1>2. None # c BY NamesAssumption
<1>3. CASE Exists(c)
  <2> DEFINE found == {d \in Containers : Exists(d) /\ x \in {d, NameOf[d]}}
  <2>1. found # {} BY <1>3
  <2>2. (CHOOSE d \in found : TRUE) \in found BY <2>1
  <2>3. Target(x) # None BY <2>1, <2>2, NamesAssumption DEF Target
  <2> QED BY <1>1, <1>3, <2>3
<1>4. CASE ~Exists(c)
  <2>1. Target(x) # c BY <1>2, <1>4, TargetNamed
  <2> QED BY <1>1, <1>4, <2>1
<1> QED BY <1>3, <1>4

(* What happens to containers: by whom they are created, started, stopped    *)
(* and removed.                                                              *)
LEMMA DockerMoves ==
  ASSUME Placed, TypeOK, Next, NEW c \in Containers, docker'[c] # docker[c]
  PROVE  \/ \E r \in Requests : /\ CreateSend(r) /\ docker[c] = "absent" /\ docker'[c] = "created"
                                /\ arg'[r] = c /\ pc'[r] = "created"
         \/ \E r \in Requests, x \in Containers \cup Names :
              Target(x) = c /\ (Start(r, x) \/ Stop(r, x))
         \/ \E r \in Requests : RemoveSend(r) /\ Target(ref[r]) = c
         \/ ContainerExits(c)
<1>1. RestOK BY DEF TypeOK, RestOK
<1>2. ASSUME NEW r \in Requests, CreateStep(r)
      PROVE  /\ CreateSend(r) /\ docker[c] = "absent" /\ docker'[c] = "created"
             /\ arg'[r] = c /\ pc'[r] = "created"
  BY <1>1, <1>2, Distinct DEF CreateStep, CreatePorts, CreateMounts, CreateSend, CreateLost,
     AnswerUnread, CreatedPorts, CreatedMounts, RestOK, Placed
<1>3. ASSUME NEW r \in Requests, OperationStep(r)
      PROVE  \/ \E x \in Containers \cup Names : Target(x) = c /\ (Start(r, x) \/ Stop(r, x))
             \/ RemoveSend(r) /\ Target(ref[r]) = c
  <2>1. CASE RemoveSend(r) BY <1>1, <2>1 DEF RemoveSend, RestOK
  <2>2. ASSUME NEW x \in Containers \cup Names, Start(r, x) \/ Stop(r, x) PROVE Target(x) = c
    BY <1>1, <2>2 DEF Start, Stop, RestOK
  <2> QED BY <1>3, <2>1, <2>2 DEF OperationStep, Connect, Add, ReadNext, HangUp,
      InspectUnknown, CheckRunning, Resolve,
          RemoveRefused, WaitBroken, Inspect, Remove, Wait, WaitUnknown
<1>4. ASSUME NEW t \in Threads, ManagerStep(t) PROVE FALSE
  BY <1>4, ManagerOK DEF ManagerEffect
<1>5. ASSUME NEW d \in Containers, ContainerExits(d) PROVE ContainerExits(c)
  BY <1>1, <1>5 DEF ContainerExits, RestOK
<1>6. ~BootStep BY BootOK DEF BootEffect
<1>7. ~EndStep BY DEF EndStep, CloseBegin, AcceptFails, Drained
<1>8. ~Ending BY DEF Ending, Panic, InspectPanics, Dies, Exit, Crash
<1> QED BY <1>2, <1>3, <1>4, <1>5, <1>6, <1>7, <1>8, Groups

-----------------------------------------------------------------------------
(* Which step of a request takes it where.                                   *)
LEMMA OwnOperation ==
  ASSUME Placed, NEW r \in Requests, OperationStep(r)
  PROVE  \/ Connect(r) /\ pc[r] = "idle" /\ pc'[r] = "accepted"
         \/ Add(r) /\ pc[r] = "accepted" /\ pc'[r] = "open"
         \/ ReadNext(r) /\ pc[r] = "idle" /\ pc'[r] = "open"
         \/ HangUp(r) /\ pc[r] = "open" /\ pc'[r] = "done"
         \/ InspectUnknown(r) /\ pc[r] = "unknown" /\ pc'[r] = "done"
         \/ CheckRunning(r) /\ pc[r] = "check" /\ pc'[r] \in {"setupPF", "done"}
         \/ Resolve(r) /\ pc[r] = "resolve" /\ pc'[r] \in {"tearPF", "done"}
         \/ RemoveSend(r) /\ pc[r] = "removing" /\ pc'[r] \in {"tearPF", "done"}
         \/ RemoveRefused(r) /\ pc[r] = "removing" /\ pc'[r] = "done"
         \/ WaitBroken(r) /\ pc[r] = "waiting" /\ pc'[r] = "done"
         \/ Inspect(r) /\ pc[r] = "inspect" /\ pc'[r] \in {"tearPF", "done"}
         \/ /\ pc[r] \in {"idle", "open"}
            /\ \E x \in Containers \cup Names :
                 \/ Start(r, x) /\ pc'[r] \in {"check", "done"}
                 \/ Stop(r, x) /\ pc'[r] \in {"tearPF", "resolve", "done"}
                 \/ Remove(r, x) /\ pc'[r] = "removing"
                 \/ Wait(r, x) /\ pc'[r] \in {"waiting", "inspect"}
                 \/ WaitUnknown(r, x) /\ pc'[r] = "unknown"
<1> USE Distinct DEF Placed
<1>1. CASE Connect(r) BY <1>1 DEF Connect, Accepts, IsNext
<1>2. CASE Add(r) BY <1>2 DEF Add
<1>3. CASE \/ ReadNext(r) \/ HangUp(r) \/ InspectUnknown(r)
           \/ RemoveRefused(r) \/ WaitBroken(r)
  BY <1>3 DEF ReadNext, IsNext, HangUp, InspectUnknown, RemoveRefused, WaitBroken, Step
<1>4. CASE CheckRunning(r) BY <1>4 DEF CheckRunning, Step
<1>5. CASE Resolve(r) BY <1>5 DEF Resolve
<1>6. CASE RemoveSend(r) BY <1>6 DEF RemoveSend, Answered
<1>7. CASE Inspect(r) BY <1>7 DEF Inspect, Step
<1>8. ASSUME NEW x \in Containers \cup Names, Start(r, x)
      PROVE  pc[r] \in {"idle", "open"} /\ pc'[r] \in {"check", "done"}
  BY <1>8 DEF Start, CanSend, Accepts, IsNext
<1>9. ASSUME NEW x \in Containers \cup Names, Stop(r, x)
      PROVE  pc[r] \in {"idle", "open"} /\ pc'[r] \in {"tearPF", "resolve", "done"}
  BY <1>9 DEF Stop, CanSend, Accepts, IsNext, Answered
<1>10. ASSUME NEW x \in Containers \cup Names, Remove(r, x)
       PROVE  pc[r] \in {"idle", "open"} /\ pc'[r] = "removing"
  BY <1>10 DEF Remove, CanSend, Accepts, IsNext
<1>11. ASSUME NEW x \in Containers \cup Names, Wait(r, x) \/ WaitUnknown(r, x)
       PROVE  /\ pc[r] \in {"idle", "open"}
              /\ Wait(r, x) => pc'[r] \in {"waiting", "inspect"}
              /\ WaitUnknown(r, x) => pc'[r] = "unknown"
  BY <1>11 DEF Wait, WaitUnknown, CanSend, Accepts, IsNext
<1> QED BY <1>1, <1>2, <1>3, <1>4, <1>5, <1>6, <1>7, <1>8, <1>9, <1>10, <1>11 DEF OperationStep

LEMMA OwnCreate ==
  ASSUME Placed, NEW r \in Requests, CreateStep(r)
  PROVE  \/ CreatePorts(r) /\ pc[r] \in {"idle", "open"} /\ pc'[r] = "mounts"
         \/ CreateMounts(r) /\ pc[r] = "mounts" /\ pc'[r] = "sending"
         \/ CreateSend(r) /\ pc[r] = "sending" /\ pc'[r] \in {"created", "refused"}
         \/ CreateLost(r) /\ pc[r] \in {"sending", "created", "refused"} /\ pc'[r] = "done"
         \/ AnswerUnread(r) /\ pc[r] = "created" /\ pc'[r] = "refused"
         \/ CreatedPorts(r) /\ pc[r] \in {"created", "refused"} /\ pc'[r] = "endFS"
         \/ CreatedMounts(r) /\ pc[r] = "endFS" /\ pc'[r] = "done"
BY Distinct DEF CreateStep, CreatePorts, CreateMounts, CreateSend, CreateLost, AnswerUnread,
   CreatedPorts, CreatedMounts, CanSend, Accepts, IsNext, Step, Placed

(* The steps of others leave a request alone, but that a container that      *)
(* stops answers those who wait for it.                                      *)
Stays(r) ==
  /\ arg'[r] = arg[r] /\ ref'[r] = ref[r]
  /\ pfPending'[r] = pfPending[r] /\ fsPending'[r] = fsPending[r]
  /\ pc'[r] = pc[r] \/ (pc[r] = "waiting" /\ pc'[r] = "inspect" /\ docker'[arg[r]] \in {"exited", "gone"})

LEMMA AnsweredStops ==
  ASSUME Placed, TypeOK, NEW c \in Containers, NEW state \in {"exited", "gone"},
         docker' = [docker EXCEPT ![c] = state], NEW r \in Requests
  PROVE  \/ Answered(pc, c)[r] = pc[r]
         \/ pc[r] = "waiting" /\ Answered(pc, c)[r] = "inspect" /\ docker'[arg[r]] \in {"exited", "gone"}
BY Distinct DEF Answered, TypeOK

LEMMA RequestStays ==
  ASSUME Placed, TypeOK, Accepting, Scanning, PendingOwed, Next, NEW r \in Requests
  PROVE  CreateStep(r) \/ OperationStep(r) \/ ManagerStep(r) \/ Ending \/ Stays(r)
<1> USE Distinct
<1> DEFINE Same == arg'[r] = arg[r] /\ ref'[r] = ref[r]
           Told == \/ pc'[r] = pc[r]
                   \/ pc[r] = "waiting" /\ pc'[r] = "inspect" /\ docker'[arg[r]] \in {"exited", "gone"}
<1>1. ASSUME NEW q \in Requests \ {r}, CreateStep(q) PROVE Stays(r)
  <2>1. pfPending'[r] = pfPending[r] /\ fsPending'[r] = fsPending[r]
    BY <1>1 DEF CreateStep, CreatePorts, CreateMounts, CreateSend, CreateLost, AnswerUnread,
       CreatedPorts, CreatedMounts, managers, pfVars, fsVars, PF!StoreStart, FS!StoreStart,
       PF!StoreEnd, FS!StoreEnd, PendingOwed
  <2>2. Same /\ pc'[r] = pc[r]
    BY <1>1 DEF CreateStep, CreatePorts, CreateMounts, CreateSend, CreateLost, AnswerUnread,
       CreatedPorts, CreatedMounts, Step, Placed
  <2> QED BY <2>1, <2>2 DEF Stays
<1>2. ASSUME NEW q \in Requests \ {r}, OperationStep(q) PROVE Stays(r)
  <2>1. UNCHANGED <<pfPending, fsPending>>
    BY <1>2, OperationCalm DEF Calm
  <2>2. Same
    BY <1>2 DEF OperationStep, Connect, Add, ReadNext, HangUp, InspectUnknown,
       CheckRunning, Resolve, RemoveSend, RemoveRefused, WaitBroken, Inspect, Start, Stop,
       Remove, Wait, WaitUnknown, TypeOK
  <2>3. CASE RemoveSend(q)
    <3>1. PICK c \in Containers, to \in Labels :
            /\ docker' = [docker EXCEPT ![c] = "gone"]
            /\ pc' = [Answered(pc, c) EXCEPT ![q] = to]
      BY <2>3, TargetNamed DEF RemoveSend, Labels
    <3>2. pc'[r] = Answered(pc, c)[r] BY <3>1
    <3> QED BY <2>1, <2>2, <3>1, <3>2, AnsweredStops DEF Stays
  <2>4. ASSUME NEW x \in Containers \cup Names, Stop(q, x) PROVE Stays(r)
    <3>1. PICK c \in Containers, to \in Labels :
            /\ docker' = [docker EXCEPT ![c] = "exited"]
            /\ pc' = [Answered(pc, c) EXCEPT ![q] = to]
      BY <2>4, TargetNamed DEF Stop, Labels
    <3>2. pc'[r] = Answered(pc, c)[r] BY <3>1
    <3> QED BY <2>1, <2>2, <3>1, <3>2, AnsweredStops DEF Stays
  <2>5. ASSUME NEW x \in Containers \cup Names,
               Start(q, x) \/ Remove(q, x) \/ Wait(q, x) \/ WaitUnknown(q, x)
        PROVE  pc'[r] = pc[r]
    BY <2>5 DEF Start, Remove, Wait, WaitUnknown, Placed
  <2>6. CASE \/ Connect(q) \/ Add(q) \/ ReadNext(q) \/ HangUp(q) \/ InspectUnknown(q)
             \/ CheckRunning(q) \/ Resolve(q)
             \/ RemoveRefused(q) \/ WaitBroken(q) \/ Inspect(q)
    BY <2>1, <2>2, <2>6 DEF Connect, Add, ReadNext, HangUp, InspectUnknown, CheckRunning,
       Resolve, RemoveRefused, WaitBroken, Inspect, Step, Placed, Stays
  <2> QED BY <1>2, <2>1, <2>2, <2>3, <2>4, <2>5, <2>6 DEF OperationStep, Stays
<1>3. ASSUME NEW t \in Threads \ {r}, ManagerStep(t) PROVE Stays(r)
  <2>1. UNCHANGED <<pfPending, fsPending>> BY <1>3, OthersCalm DEF Calm
  <2>2. UNCHANGED ref
    BY <1>3 DEF ManagerStep, SetupPFBegin, SetupPFItem, SetupPFEnd, SetupFSBegin, SetupFSItem,
       SetupFSEnd, TearPFBegin, TearPFEnd, TearFSBegin, TearFSEnd
  <2> QED BY <1>3, <2>1, <2>2, ManagerOK DEF ManagerEffect, Stays
<1>4. ASSUME NEW c \in Containers, ContainerExits(c) PROVE Stays(r)
  <2>1. UNCHANGED <<pfPending, fsPending>> BY <1>4, OthersCalm DEF Calm
  <2> QED BY <1>4, <2>1, AnsweredStops DEF ContainerExits, Stays
<1>5. CASE BootStep
  <2>1. UNCHANGED <<pfPending, fsPending>> BY <1>5, OthersCalm DEF Calm
  <2> QED BY <1>5, <2>1, BootOK DEF BootEffect, Stays
<1>6. CASE EndStep
  <2>1. UNCHANGED <<pfPending, fsPending, arg, ref>>
    BY <1>6 DEF EndStep, CloseBegin, AcceptFails, Drained, managers, pfVars, fsVars
  <2> QED BY <1>6, <2>1 DEF EndStep, CloseBegin, AcceptFails, Drained, Step, Placed, Stays
<1> QED BY <1>1, <1>2, <1>3, <1>4, <1>5, <1>6, Groups

-----------------------------------------------------------------------------
LEMMA MeantNext ==
  ASSUME Placed, TypeOK, Accepting, Scanning, PendingOwed, Plain => Meant, Plain', Next
  PROVE  Meant'
<1> DEFINE Naming == {"removing", "resolve", "waiting", "inspect"}
<1> SUFFICES ASSUME NEW r \in Requests, pc'[r] \in Naming
             PROVE  /\ arg'[r] \in Containers /\ ref'[r] \in {arg'[r], NameOf[arg'[r]]}
                    /\ docker'[arg'[r]] # "absent"
                    /\ pc'[r] \in {"waiting", "inspect"} /\ Without({"waitByName"})'
                         => ref'[r] = arg'[r]
  BY DEF Meant
<1> USE Distinct
<1>0. Meant /\ (Without({"waitByName"})' <=> Without({"waitByName"}))
  <2>1. EnvOK BY DEF TypeOK, EnvOK
  <2>2. env'.world = env.world BY <2>1, EnvStep DEF Uses, Use, EnvOK
  <2> QED BY <2>2, PlainBefore DEF Without, Allowed
<1>a. \A c \in Containers : docker[c] # "absent" => docker'[c] # "absent" BY DockerStep
<1>1. CASE Stays(r)
  BY <1>0, <1>1, <1>a DEF Stays, Meant
<1>2. CASE OperationStep(r)
  <2>1. PICK x \in Containers \cup Names : Stop(r, x) \/ Remove(r, x) \/ Wait(r, x)
    BY <1>2, OwnOperation
  <2>2. ref'[r] = x BY <2>1 DEF Stop, Remove, Wait, TypeOK
  <2>3. CASE Stop(r, x) \/ Remove(r, x)
    <3>1. Target(x) # None /\ arg'[r] = Target(x)
      BY <2>3, NoFault DEF Stop, Remove, Placed, Plain
    <3>2. pc'[r] \notin {"waiting", "inspect"}
      BY <2>3 DEF Stop, Remove, Placed, Answered
    <3> QED BY <1>a, <2>2, <3>1, <3>2, TargetNamed DEF Exists
  <2>4. CASE Wait(r, x)
    <3>1. arg'[r] = IF x \in Containers THEN x ELSE Target(x) BY <2>4 DEF Wait, Placed
    <3>2. arg'[r] # None /\ docker[arg'[r]] # "absent" BY <2>4, <3>1 DEF Wait
    <3>3. x \in Containers \/ ~Without({"waitByName"}) BY <2>4 DEF Wait, Without, Allowed
    <3> QED BY <1>0, <1>a, <2>2, <3>1, <3>2, <3>3, TargetNamed
  <2> QED BY <2>1, <2>3, <2>4
<1>3. ~CreateStep(r) BY OwnCreate
<1>4. ~ManagerStep(r) BY ManagerOK DEF ManagerEffect, Pair
<1>5. ~Ending BY NotEnding
<1> QED BY <1>1, <1>2, <1>3, <1>4, <1>5, RequestStays

LEMMA UnusedNext ==
  ASSUME Placed, TypeOK, Accepting, Scanning, Existing, PendingOwed, Plain => Meant /\ Unused,
         Plain', Next
  PROVE  Unused'
<1> USE Distinct
<1>0. Plain /\ Meant /\ Unused BY PlainBefore
<1>n. None \notin Containers BY NamesAssumption
<1>t. \A q \in Requests : RemoveSend(q) => Target(ref[q]) = arg[q]
  BY <1>0, TargetMeant DEF RemoveSend, Meant, Plain
<1> SUFFICES ASSUME NEW r \in Requests, pc'[r] \in {"created", "endFS"}, arg'[r] # None
             PROVE  /\ docker'[arg'[r]] = "created"
                    /\ \A q \in Requests : pc'[q] = "removing" => arg'[q] # arg'[r]
  BY DEF Unused
<1>1. CASE pc[r] \in {"created", "endFS"} /\ arg'[r] = arg[r]
  <2>1. arg[r] \in Containers /\ docker[arg[r]] = "created"
    BY <1>0, <1>1 DEF Unused, Placed
  <2>2. ~Known(arg[r]) BY <1>0, <1>1 DEF Known, Plain, Without
  <2>3. docker'[arg[r]] = "created"
    <3> SUFFICES ASSUME docker'[arg[r]] # docker[arg[r]] PROVE FALSE
      BY <2>1
    <3>1. \A q \in Requests : ~(RemoveSend(q) /\ Target(ref[q]) = arg[r])
      BY <1>0, <1>1, <1>t DEF Unused, RemoveSend
    <3>2. \A q \in Requests, x \in Containers \cup Names :
            ~(Target(x) = arg[r] /\ (Start(q, x) \/ Stop(q, x)))
      BY <2>2 DEF Start, Stop
    <3> QED BY <2>1, <3>1, <3>2, DockerMoves DEF ContainerExits
  <2>4. ASSUME NEW q \in Requests, pc'[q] = "removing" PROVE arg'[q] # arg[r]
    <3>1. CASE Stays(q) BY <1>0, <1>1, <2>4, <3>1 DEF Stays, Unused
    <3>2. CASE OperationStep(q)
      <4>1. PICK x \in Containers \cup Names : Remove(q, x)
        BY <2>4, <3>2, OwnOperation
      <4>2. arg'[q] = Target(x) BY <4>1, NoFault DEF Remove, Placed, Plain
      <4> QED BY <2>2, <4>1, <4>2 DEF Remove
    <3>3. ~CreateStep(q) BY <2>4, OwnCreate
    <3>4. ~ManagerStep(q) BY <2>4, ManagerOK DEF ManagerEffect, Pair
    <3>5. ~Ending BY <2>4, NotEnding
    <3> QED BY <3>1, <3>2, <3>3, <3>4, <3>5, RequestStays
  <2> QED BY <1>1, <2>3, <2>4
<1>2. CASE CreateSend(r)
  <2>1. arg[r] = None BY <1>2 DEF CreateSend, Existing, Asking
  <2>2. PICK c \in Containers : /\ docker[c] = "absent" /\ docker' = [docker EXCEPT ![c] = "created"]
                                /\ arg' = [arg EXCEPT ![r] = c] /\ pc' = [pc EXCEPT ![r] = "created"]
    BY <1>2, <2>1 DEF CreateSend
  <2>3. arg'[r] = c /\ docker'[c] = "created" BY <2>2 DEF Placed, TypeOK
  <2>4. ASSUME NEW q \in Requests, pc'[q] = "removing" PROVE arg'[q] # c
    <3>1. pc[q] = "removing" /\ arg'[q] = arg[q] BY <2>2, <2>4 DEF Placed
    <3> QED BY <1>0, <2>2, <3>1 DEF Meant
  <2> QED BY <2>3, <2>4
<1>3. CASE ~CreateSend(r)
  <2>1. CASE Stays(r) BY <1>1, <2>1 DEF Stays
  <2>2. CASE CreateStep(r)
    <3>1. CreatedPorts(r) /\ pc[r] \in {"created", "refused"} BY <1>3, <2>2, OwnCreate
    <3>2. arg'[r] = arg[r] BY <3>1 DEF CreatedPorts
    <3>3. pc[r] # "refused" BY <3>2 DEF Existing, Asking
    <3> QED BY <1>1, <3>1, <3>2, <3>3
  <2>3. ~OperationStep(r) BY OwnOperation
  <2>4. ~ManagerStep(r) BY ManagerOK DEF ManagerEffect, Pair
  <2>5. ~Ending BY NotEnding
  <2> QED BY <2>1, <2>2, <2>3, <2>4, <2>5, RequestStays
<1> QED BY <1>2, <1>3

LEMMA AskedNext ==
  ASSUME Placed, TypeOK, Accepting, Scanning, PendingOwed, Asked, Next
  PROVE  Asked'
<1> USE Distinct
<1> DEFINE P == {"mounts", "sending", "created", "refused"}
           F == {"sending", "created", "refused", "endFS"}
<1> SUFFICES ASSUME NEW r \in Requests
             PROVE  /\ pc'[r] \in P => pfPending'[r] = Ports
                    /\ pc'[r] \in F => fsPending'[r] = Mounts
  BY DEF Asked
<1>0. pfPending \in [Requests -> SUBSET Ports] /\ fsPending \in [Requests -> SUBSET Mounts]
  BY DEF PendingOwed
<1>1. CASE Stays(r) BY <1>1 DEF Stays, Asked
<1>2. CASE CreateStep(r)
  <2>1. CASE CreatePorts(r)
    <3>1. pc'[r] = "mounts" BY <2>1 DEF CreatePorts, Placed
    <3>2. pfPending'[r] = Ports BY <1>0, <2>1 DEF CreatePorts, PF!StoreStart
    <3> QED BY <3>1, <3>2
  <2>2. CASE CreateMounts(r)
    <3>1. pc[r] = "mounts" /\ pc'[r] = "sending" BY <2>2 DEF CreateMounts, Step, Placed
    <3>2. pfPending'[r] = pfPending[r] /\ fsPending'[r] = Mounts
      BY <1>0, <2>2 DEF CreateMounts, FS!StoreStart, pfVars
    <3> QED BY <3>1, <3>2 DEF Asked
  <2>3. CASE CreateSend(r) \/ CreateLost(r) \/ AnswerUnread(r)
    <3>1. UNCHANGED <<pfPending, fsPending>>
      BY <2>3 DEF CreateSend, CreateLost, AnswerUnread, managers, pfVars, fsVars
    <3>2. pc'[r] \in P \cup F => pc[r] \in P \cap F
      BY <2>3 DEF CreateSend, CreateLost, AnswerUnread, Step, Placed
    <3> QED BY <3>1, <3>2 DEF Asked
  <2>4. CASE CreatedPorts(r)
    <3>1. pc[r] \in F /\ pc'[r] = "endFS" BY <2>4 DEF CreatedPorts, Step, Placed
    <3>2. fsPending'[r] = fsPending[r] BY <2>4 DEF CreatedPorts, fsVars
    <3> QED BY <3>1, <3>2 DEF Asked
  <2>5. CASE CreatedMounts(r)
    BY <2>5 DEF CreatedMounts, Step, Placed
  <2> QED BY <1>2, <2>1, <2>2, <2>3, <2>4, <2>5 DEF CreateStep
<1>3. CASE OperationStep(r)
  BY <1>3, OwnOperation
<1>4. CASE ManagerStep(r) BY <1>4, ManagerOK DEF ManagerEffect, Pair
<1>5. CASE Ending BY <1>5, NotEnding
<1> QED BY <1>1, <1>2, <1>3, <1>4, <1>5, RequestStays

-----------------------------------------------------------------------------
(* How the entries and sessions of a container change.                       *)
LEMMA PortEntry ==
  ASSUME Placed, TypeOK, Next, NEW c \in Containers
  PROVE  \/ pfStored'[c] = pfStored[c]
         \/ pfStored'[c] = {} /\ (Ending \/ \E t \in Threads : TearPFBegin(t) /\ c \in Doomed(t))
         \/ \E r \in Requests : /\ CreatedPorts(r) /\ arg[r] = c
                                /\ pfStored'[c] = pfPending[r] /\ pfPending[r] # {}
         \/ ScanPorts(c) /\ pfStored'[c] = Ports
<1>0. pfStored \in [Containers -> SUBSET Ports] BY DEF TypeOK, PF!TypeOK
<1>1. ASSUME NEW r \in Requests, CreateStep(r)
      PROVE  \/ pfStored'[c] = pfStored[c]
             \/ CreatedPorts(r) /\ arg[r] = c /\ pfStored'[c] = pfPending[r] /\ pfPending[r] # {}
  <2>1. CASE CreatedPorts(r)
    BY <1>0, <2>1 DEF CreatedPorts, PF!StoreEnd
  <2> QED BY <1>1, <2>1 DEF CreateStep, CreatePorts, CreateMounts, CreateSend, CreateLost,
          AnswerUnread, CreatedMounts, managers, pfVars, PF!StoreStart
<1>2. ASSUME NEW r \in Requests, OperationStep(r) PROVE UNCHANGED pfStored
  BY <1>2 DEF OperationStep, Connect, Add, ReadNext, HangUp, InspectUnknown, CheckRunning,
     Resolve, RemoveSend, RemoveRefused, WaitBroken, Inspect, Start, Stop, Remove, Wait,
     WaitUnknown,
     managers, pfVars
<1>3. ASSUME NEW t \in Threads, ManagerStep(t)
      PROVE  \/ pfStored'[c] = pfStored[c]
             \/ pfStored'[c] = {} /\ TearPFBegin(t) /\ c \in Doomed(t)
  BY <1>3 DEF ManagerStep, SetupPFBegin, SetupPFItem, SetupPFEnd, SetupFSBegin, SetupFSItem,
     SetupFSEnd, TearPFBegin, TearPFEnd, TearFSBegin, TearFSEnd, pfVars, PF!SetupBegin,
     PF!SetupItem, PF!SetupItemFails, PF!SetupEnd, PF!TeardownBegin, PF!TeardownEnd
<1>4. ASSUME NEW d \in Containers, ContainerExits(d) PROVE UNCHANGED pfStored
  BY <1>4 DEF ContainerExits, managers, pfVars
<1>5. CASE BootStep
  <2>1. ASSUME NEW d \in Containers, ScanPorts(d)
        PROVE  pfStored'[c] = pfStored[c] \/ (ScanPorts(c) /\ pfStored'[c] = Ports)
    BY <1>0, <2>1 DEF ScanPorts, PF!StoreForContainer
  <2> QED BY <1>5, <2>1 DEF BootStep, ScanStep, ListRunning, ListForwards, ListSyncs, Sweep,
          Spawn, ScanMounts, managers, pfVars
<1>6. CASE EndStep
  BY <1>6 DEF EndStep, CloseBegin, AcceptFails, Drained, managers, pfVars
<1>7. CASE Ending
  BY <1>7 DEF Ending, Panic, InspectPanics, Dies, Exit, Crash, PF!Restart
<1> QED BY <1>1, <1>2, <1>3, <1>4, <1>5, <1>6, <1>7, Groups

LEMMA MountEntry ==
  ASSUME Placed, TypeOK, Next, NEW c \in Containers
  PROVE  \/ fsStored'[c] = fsStored[c]
         \/ fsStored'[c] = {} /\ (Ending \/ \E t \in Threads : TearFSBegin(t) /\ c \in Doomed(t))
         \/ \E r \in Requests : /\ CreatedMounts(r) /\ arg[r] = c
                                /\ fsStored'[c] = fsPending[r] /\ fsPending[r] # {}
         \/ ScanMounts(c) /\ fsStored'[c] = Mounts
<1>0. fsStored \in [Containers -> SUBSET Mounts] BY DEF TypeOK, FS!TypeOK
<1>1. ASSUME NEW r \in Requests, CreateStep(r)
      PROVE  \/ fsStored'[c] = fsStored[c]
             \/ CreatedMounts(r) /\ arg[r] = c /\ fsStored'[c] = fsPending[r] /\ fsPending[r] # {}
  <2>1. CASE CreatedMounts(r)
    BY <1>0, <2>1 DEF CreatedMounts, FS!StoreEnd
  <2> QED BY <1>1, <2>1 DEF CreateStep, CreatePorts, CreateMounts, CreateSend, CreateLost,
          AnswerUnread, CreatedPorts, managers, fsVars, FS!StoreStart
<1>2. ASSUME NEW r \in Requests, OperationStep(r) PROVE UNCHANGED fsStored
  BY <1>2 DEF OperationStep, Connect, Add, ReadNext, HangUp, InspectUnknown, CheckRunning,
     Resolve, RemoveSend, RemoveRefused, WaitBroken, Inspect, Start, Stop, Remove, Wait,
     WaitUnknown,
     managers, fsVars
<1>3. ASSUME NEW t \in Threads, ManagerStep(t)
      PROVE  \/ fsStored'[c] = fsStored[c]
             \/ fsStored'[c] = {} /\ TearFSBegin(t) /\ c \in Doomed(t)
  BY <1>3 DEF ManagerStep, SetupPFBegin, SetupPFItem, SetupPFEnd, SetupFSBegin, SetupFSItem,
     SetupFSEnd, TearPFBegin, TearPFEnd, TearFSBegin, TearFSEnd, fsVars, FS!SetupBegin,
     FS!SetupItem, FS!SetupItemFails, FS!SetupEnd, FS!TeardownBegin, FS!TeardownEnd
<1>4. ASSUME NEW d \in Containers, ContainerExits(d) PROVE UNCHANGED fsStored
  BY <1>4 DEF ContainerExits, managers, fsVars
<1>5. CASE BootStep
  <2>1. ASSUME NEW d \in Containers, ScanMounts(d)
        PROVE  fsStored'[c] = fsStored[c] \/ (ScanMounts(c) /\ fsStored'[c] = Mounts)
    BY <1>0, <2>1 DEF ScanMounts, FS!StoreForContainer
  <2> QED BY <1>5, <2>1 DEF BootStep, ScanStep, ListRunning, ListForwards, ListSyncs, Sweep,
          Spawn, ScanPorts, managers, fsVars
<1>6. CASE EndStep
  BY <1>6 DEF EndStep, CloseBegin, AcceptFails, Drained, managers, fsVars
<1>7. CASE Ending
  BY <1>7 DEF Ending, Panic, InspectPanics, Dies, Exit, Crash, FS!Restart
<1> QED BY <1>1, <1>2, <1>3, <1>4, <1>5, <1>6, <1>7, Groups

LEMMA PortLive ==
  ASSUME Placed, TypeOK, Accepting, PortsHeld, Next, NEW c \in Containers, NEW i \in Ports
  PROVE  \/ pfLive'[c][i] = pfLive[c][i]
         \/ \E t \in Threads : TearPFEnd(t) /\ c \in Doomed(t)
         \/ \E t \in Threads : /\ SetupPFItem(t) /\ arg[t] = c /\ i \in pfJob.todo
                               /\ pfLive'[c][i] = pfLive[c][i] + 1
<1>0. pfLive \in [Containers -> [Ports -> 0..MaxSessions]] BY DEF TypeOK, PF!TypeOK
<1>1. ASSUME NEW r \in Requests, CreateStep(r) \/ OperationStep(r) PROVE UNCHANGED pfLive
  BY <1>1, RequestOK DEF RequestEffect, Others
<1>2. ASSUME NEW t \in Threads, ManagerStep(t), pfLive'[c][i] # pfLive[c][i]
      PROVE  \/ TearPFEnd(t) /\ c \in Doomed(t)
             \/ /\ SetupPFItem(t) /\ arg[t] = c /\ i \in pfJob.todo
                /\ pfLive'[c][i] = pfLive[c][i] + 1
  <2>1. CASE SetupPFItem(t)
    <3>1. PICK j \in Ports : PF!SetupItem(j) \/ PF!SetupItemFails(j)
      BY <2>1 DEF SetupPFItem
    <3>2. pfJob.on = {arg[t]} /\ arg[t] \in Containers
      BY <2>1, Acts DEF SetupPFItem, PortsHeld, Holds, SettingUp
    <3>3. j \in pfJob.todo /\ pfLive' = [pfLive EXCEPT ![arg[t]][j] = @ + 1]
      BY <1>2, <3>1, <3>2 DEF PF!SetupItem, PF!SetupItemFails
    <3> QED BY <1>0, <1>2, <2>1, <3>2, <3>3
  <2>2. CASE TearPFEnd(t)
    <3>1. pfJob.on = Doomed(t) BY <2>2 DEF TearPFEnd, Step, PortsHeld, Holds
    <3>2. PICK kept \in SUBSET (Doomed(t) \X Ports) : PF!TeardownEnd(kept)
      BY <2>2 DEF TearPFEnd
    <3>3. pfLive'[c][i] = IF c \in pfJob.on /\ <<c, i>> \notin kept THEN 0 ELSE pfLive[c][i]
      BY <3>2 DEF PF!TeardownEnd
    <3> QED BY <1>2, <2>2, <3>1, <3>3
  <2> QED BY <1>2, <2>1, <2>2, LiveElsewhere
<1>3. ASSUME NEW d \in Containers, ContainerExits(d) PROVE UNCHANGED pfLive
  BY <1>3 DEF ContainerExits, managers, pfVars
<1>4. CASE BootStep BY <1>4, BootOK DEF BootEffect
<1>5. CASE EndStep BY <1>5 DEF EndStep, CloseBegin, AcceptFails, Drained, managers, pfVars
<1>6. CASE Ending
  BY <1>6 DEF Ending, Panic, InspectPanics, Dies, Exit, Crash, PF!Restart
<1> QED BY <1>1, <1>2, <1>3, <1>4, <1>5, <1>6, Groups

LEMMA MountLive ==
  ASSUME Placed, TypeOK, Accepting, MountsHeld, Next, NEW c \in Containers, NEW i \in Mounts
  PROVE  \/ fsLive'[c][i] = fsLive[c][i]
         \/ \E t \in Threads : TearFSEnd(t) /\ c \in Doomed(t)
         \/ \E t \in Threads : /\ SetupFSItem(t) /\ arg[t] = c /\ i \in fsJob.todo
                               /\ fsLive'[c][i] = fsLive[c][i] + 1
<1>0. fsLive \in [Containers -> [Mounts -> 0..MaxSessions]] BY DEF TypeOK, FS!TypeOK
<1>1. ASSUME NEW r \in Requests, CreateStep(r) \/ OperationStep(r) PROVE UNCHANGED fsLive
  BY <1>1, RequestOK DEF RequestEffect, Others
<1>2. ASSUME NEW t \in Threads, ManagerStep(t), fsLive'[c][i] # fsLive[c][i]
      PROVE  \/ TearFSEnd(t) /\ c \in Doomed(t)
             \/ /\ SetupFSItem(t) /\ arg[t] = c /\ i \in fsJob.todo
                /\ fsLive'[c][i] = fsLive[c][i] + 1
  <2>1. CASE SetupFSItem(t)
    <3>1. PICK j \in Mounts : FS!SetupItem(j) \/ FS!SetupItemFails(j)
      BY <2>1 DEF SetupFSItem
    <3>2. fsJob.on = {arg[t]} /\ arg[t] \in Containers
      BY <2>1, Acts DEF SetupFSItem, MountsHeld, Holds, SettingUp
    <3>3. j \in fsJob.todo /\ fsLive' = [fsLive EXCEPT ![arg[t]][j] = @ + 1]
      BY <1>2, <3>1, <3>2 DEF FS!SetupItem, FS!SetupItemFails
    <3> QED BY <1>0, <1>2, <2>1, <3>2, <3>3
  <2>2. CASE TearFSEnd(t)
    <3>1. fsJob.on = Doomed(t) BY <2>2 DEF TearFSEnd, Step, MountsHeld, Holds
    <3>2. PICK kept \in SUBSET (Doomed(t) \X Mounts) : FS!TeardownEnd(kept)
      BY <2>2 DEF TearFSEnd
    <3>3. fsLive'[c][i] = IF c \in fsJob.on /\ <<c, i>> \notin kept THEN 0 ELSE fsLive[c][i]
      BY <3>2 DEF FS!TeardownEnd
    <3> QED BY <1>2, <2>2, <3>1, <3>3
  <2> QED BY <1>2, <2>1, <2>2, LiveElsewhere
<1>3. ASSUME NEW d \in Containers, ContainerExits(d) PROVE UNCHANGED fsLive
  BY <1>3 DEF ContainerExits, managers, fsVars
<1>4. CASE BootStep BY <1>4, BootOK DEF BootEffect
<1>5. CASE EndStep BY <1>5 DEF EndStep, CloseBegin, AcceptFails, Drained, managers, fsVars
<1>6. CASE Ending
  BY <1>6 DEF Ending, Panic, InspectPanics, Dies, Exit, Crash, FS!Restart
<1> QED BY <1>1, <1>2, <1>3, <1>4, <1>5, <1>6, Groups

(* A setup's job is its own.                                                 *)
LEMMA PortJob ==
  ASSUME Placed, TypeOK, Accepting, PortsHeld, Next, ~Ending,
         NEW t \in Threads, pc[t] = "settingPF"
  PROVE  SetupPFItem(t) \/ SetupPFEnd(t) \/ UNCHANGED pfJob
<1>1. pfJob.op = "setup" BY DEF PortsHeld, Holds
<1>2. ASSUME NEW u \in Threads, ManagerStep(u)
      PROVE  SetupPFItem(t) \/ SetupPFEnd(t) \/ UNCHANGED pfJob
  <2>1. CASE SetupPFItem(u) \/ SetupPFEnd(u) \/ TearPFEnd(u)
    <3>1. u = t BY <2>1 DEF SetupPFItem, SetupPFEnd, TearPFEnd, Step, PortsHeld, OneHolder
    <3> QED BY <2>1, <3>1 DEF TearPFEnd, Step
  <2>2. ~SetupPFBegin(u) /\ ~TearPFBegin(u)
    BY <1>1 DEF SetupPFBegin, TearPFBegin, PF!SetupBegin, PF!TeardownBegin, PF!MuFree, PF!Idle
  <2>3. CASE SetupFSBegin(u) \/ SetupFSItem(u) \/ SetupFSEnd(u) \/ TearFSBegin(u) \/ TearFSEnd(u)
    BY <2>3 DEF SetupFSBegin, SetupFSItem, SetupFSEnd, TearFSBegin, TearFSEnd, pfVars
  <2> QED BY <1>2, <2>1, <2>2, <2>3 DEF ManagerStep
<1>3. ASSUME NEW r \in Requests, CreateStep(r) \/ OperationStep(r) PROVE UNCHANGED pfJob
  BY <1>3, RequestOK DEF RequestEffect, Others
<1>4. ASSUME NEW c \in Containers, ContainerExits(c) PROVE UNCHANGED pfJob
  BY <1>4 DEF ContainerExits, managers, pfVars
<1>5. CASE BootStep BY <1>5, BootOK DEF BootEffect
<1>6. CASE EndStep BY <1>6 DEF EndStep, CloseBegin, AcceptFails, Drained, managers, pfVars
<1> QED BY <1>2, <1>3, <1>4, <1>5, <1>6, Groups

LEMMA MountJob ==
  ASSUME Placed, TypeOK, Accepting, MountsHeld, Next, ~Ending,
         NEW t \in Threads, pc[t] = "settingFS"
  PROVE  SetupFSItem(t) \/ SetupFSEnd(t) \/ UNCHANGED fsJob
<1>1. fsJob.op = "setup" BY DEF MountsHeld, Holds
<1>2. ASSUME NEW u \in Threads, ManagerStep(u)
      PROVE  SetupFSItem(t) \/ SetupFSEnd(t) \/ UNCHANGED fsJob
  <2>1. CASE SetupFSItem(u) \/ SetupFSEnd(u) \/ TearFSEnd(u)
    <3>1. u = t BY <2>1 DEF SetupFSItem, SetupFSEnd, TearFSEnd, Step, MountsHeld, OneHolder
    <3> QED BY <2>1, <3>1 DEF TearFSEnd, Step
  <2>2. ~SetupFSBegin(u) /\ ~TearFSBegin(u)
    BY <1>1 DEF SetupFSBegin, TearFSBegin, FS!SetupBegin, FS!TeardownBegin, FS!MuFree, FS!Idle
  <2>3. CASE SetupPFBegin(u) \/ SetupPFItem(u) \/ SetupPFEnd(u) \/ TearPFBegin(u) \/ TearPFEnd(u)
    BY <2>3 DEF SetupPFBegin, SetupPFItem, SetupPFEnd, TearPFBegin, TearPFEnd, fsVars
  <2> QED BY <1>2, <2>1, <2>2, <2>3 DEF ManagerStep
<1>3. ASSUME NEW r \in Requests, CreateStep(r) \/ OperationStep(r) PROVE UNCHANGED fsJob
  BY <1>3, RequestOK DEF RequestEffect, Others
<1>4. ASSUME NEW c \in Containers, ContainerExits(c) PROVE UNCHANGED fsJob
  BY <1>4 DEF ContainerExits, managers, fsVars
<1>5. CASE BootStep BY <1>5, BootOK DEF BootEffect
<1>6. CASE EndStep BY <1>6 DEF EndStep, CloseBegin, AcceptFails, Drained, managers, fsVars
<1> QED BY <1>2, <1>3, <1>4, <1>5, <1>6, Groups

-----------------------------------------------------------------------------
(* The boot scan.  Containers are left alone until it is through, ...        *)
LEMMA ScanUndisturbed ==
  ASSUME Placed, TypeOK, Scanning, Steady, Without({"unattended"}), ~BootFinished, Next
  PROVE  UNCHANGED docker
<1> SUFFICES ASSUME NEW c \in Containers PROVE docker'[c] = docker[c]
  <2>1. docker \in [Containers -> {"absent", "created", "running", "exited", "gone"}]
        /\ docker' \in [Containers -> {"absent", "created", "running", "exited", "gone"}]
    BY RestNext DEF TypeOK, RestOK
  <2> QED BY <2>1
<1>1. ASSUME NEW r \in Requests, CreateSend(r) \/ RemoveSend(r)
             \/ \E x \in Containers \cup Names : Start(r, x) \/ Stop(r, x)
      PROVE  FALSE
  BY <1>1 DEF Scanning, CreateSend, RemoveSend, Start, Stop, CanSend, Steady, Without
<1>2. ~ContainerExits(c)
  BY DEF Scanning, ContainerExits, Without, TypeOK
<1> QED BY <1>1, <1>2, DockerMoves

LEMMA BootBefore ==
  ASSUME Placed, TypeOK, Accepting, Scanning, Next, ~Ending, pc'[Boot] # "done"
  PROVE  pc[Boot] # "done"
<1> USE Distinct
<1>1. ASSUME NEW r \in Requests, CreateStep(r) \/ OperationStep(r) PROVE pc[Boot] # "done"
  BY <1>1, RequestOK DEF RequestEffect, Others
<1>2. ASSUME NEW t \in Threads, ManagerStep(t) PROVE pc[Boot] # "done"
  BY <1>2, ManagerOK DEF ManagerEffect, Pair
<1>3. ASSUME NEW c \in Containers, ContainerExits(c) PROVE pc[Boot] # "done"
  BY <1>3 DEF ContainerExits, Answered
<1>4. CASE BootStep
  BY <1>4 DEF BootStep, ScanStep, ListRunning, ListForwards, ListSyncs, Sweep, Spawn,
     ScanPorts, ScanMounts, Step, Placed
<1>5. CASE EndStep
  BY <1>5 DEF EndStep, CloseBegin, AcceptFails, Drained, Step, Placed
<1> QED BY <1>1, <1>2, <1>3, <1>4, <1>5, Groups

(* ... and nothing is stored.                                                *)
LEMMA ListedNext ==
  ASSUME Placed, TypeOK, Accepting, Scanning, Listed, Next
  PROVE  Listed'
<1> USE Distinct
<1>0. EnvOK BY DEF TypeOK, EnvOK
<1>w. env'.world = env.world BY <1>0, EnvStep DEF Uses, Use, EnvOK
<1>1. ASSUME Steady, pc'[Boot] # "done", NEW c \in Containers
      PROVE  pfStored'[c] = {} /\ fsStored'[c] = {}
  <2>1. CASE Ending
    BY <2>1 DEF Ending, Panic, InspectPanics, Dies, Exit, Crash, PF!Restart, FS!Restart
  <2>2. CASE ~Ending
    <3>1. pc[Boot] # "done" BY <1>1, <2>2, BootBefore
    <3>2. pfStored[c] = {} /\ fsStored[c] = {} BY <1>1, <3>1 DEF Listed
    <3>3. ~BootFinished BY <3>1 DEF BootFinished
    <3>4. \A r \in Requests : ~CreatedPorts(r) /\ ~CreatedMounts(r)
      BY <1>1, <3>3 DEF Scanning, CreatedPorts, CreatedMounts, Step
    <3>5. ~ScanPorts(c) /\ ~ScanMounts(c)
      BY <3>1 DEF Scanning, ScanPorts, ScanMounts, Step
    <3> QED BY <3>2, <3>4, <3>5, PortEntry, MountEntry
  <2> QED BY <2>1, <2>2
<1> DEFINE Store == {"storePF", "storeFS"}
           Goal == /\ pc'[Boot] # "done" => \A c \in snap' : docker'[c] = "running"
                   /\ \A c \in Containers : pc'[c] \in Store => docker'[c] = "running"
<1>2. ASSUME Steady, Without({"unattended"}) PROVE Goal
  <2>s. snap \subseteq Containers BY DEF Placed
  <2>u. ~BootFinished => UNCHANGED docker BY <1>2, ScanUndisturbed
  <2>k. ASSUME snap' = snap, \A c \in Containers : pc'[c] \in Store => pc[c] \in Store,
               pc'[Boot] # "done" => pc[Boot] # "done"
        PROVE  Goal
    <3>1. pc[Boot] # "done" => ~BootFinished BY DEF BootFinished
    <3>2. \A c \in Containers : pc[c] \in Store => ~BootFinished BY DEF BootFinished
    <3> QED BY <1>2, <2>s, <2>u, <2>k, <3>1, <3>2 DEF Listed
  <2>1. ASSUME NEW r \in Requests, CreateStep(r) \/ OperationStep(r) PROVE Goal
    BY <2>k, <2>1, RequestOK DEF RequestEffect, Others
  <2>2. ASSUME NEW t \in Threads, ManagerStep(t) PROVE Goal
    BY <2>k, <2>2, ManagerOK DEF ManagerEffect, Pair
  <2>3. ASSUME NEW c \in Containers, ContainerExits(c) PROVE Goal
    BY <2>k, <2>3 DEF ContainerExits, Answered, scan
  <2>4. CASE BootStep
    <3>1. UNCHANGED docker BY <2>4, BootOK DEF BootEffect
    <3>2. CASE ListRunning
      BY <1>2, <3>1, <3>2 DEF ListRunning, Placed, Listed
    <3>3. CASE ListForwards \/ ListSyncs
      <4>1. snap' = snap /\ pc[Boot] # "done" BY <3>3 DEF ListForwards, ListSyncs, Step
      <4>2. \A c \in Containers : pc'[c] = pc[c] BY <3>3 DEF ListForwards, ListSyncs, Step, Placed
      <4> QED BY <2>k, <4>1, <4>2
    <3>4. ASSUME NEW c \in Containers, Sweep(c) PROVE Goal
      BY <2>k, <3>4 DEF Sweep, Step, Placed
    <3>5. CASE Spawn
      BY <1>2, <3>1, <3>5 DEF Spawn, Listed
    <3>6. ASSUME NEW c \in Containers, ScanPorts(c) \/ ScanMounts(c) PROVE Goal
      <4>1. snap' = snap /\ pc'[Boot] = pc[Boot]
        BY <3>6 DEF ScanPorts, ScanMounts, Step, scan, Placed
      <4>2. \A d \in Containers : pc'[d] \in Store => pc[d] \in Store
        BY <3>6 DEF ScanPorts, ScanMounts, Step, Placed
      <4> QED BY <2>k, <4>1, <4>2
    <3> QED BY <2>4, <3>2, <3>3, <3>4, <3>5, <3>6 DEF BootStep, ScanStep
  <2>5. CASE EndStep
    <3>1. snap' = snap BY <2>5 DEF EndStep, CloseBegin, AcceptFails, Drained, scan
    <3>2. \A t \in Containers \cup {Boot} : pc'[t] = pc[t]
      BY <2>5 DEF EndStep, CloseBegin, AcceptFails, Drained, Step, Placed
    <3> QED BY <2>k, <3>1, <3>2
  <2>6. CASE Ending
    <3>1. \A c \in Containers : pc'[c] \in {"idle", "done"}
      BY <2>6 DEF Ending, Panic, InspectPanics, Dies, Exit, Crash, Starts
    <3>2. pc'[Boot] = "done" \/ snap' = {}
      BY <2>6 DEF Ending, Panic, InspectPanics, Dies, Exit, Crash
    <3> QED BY <3>1, <3>2
  <2> QED BY <2>1, <2>2, <2>3, <2>4, <2>5, <2>6, Groups
<1> QED BY <1>1, <1>2, <1>w DEF Listed, Steady, Without, Allowed

-----------------------------------------------------------------------------
(* Without restarts a container that stopped stays so, ...                   *)
LEMMA StoppedStays ==
  ASSUME Placed, TypeOK, Next, NoneOf({"restarts"})', ~Faulty', NEW c \in Containers,
         Stopped(c)
  PROVE  Stopped(c)'
<1> SUFFICES ASSUME docker'[c] # docker[c] PROVE Stopped(c)'
  BY DEF Stopped
<1>1. ASSUME NEW r \in Requests, NEW x \in Containers \cup Names, Target(x) = c, Start(r, x)
      PROVE  FALSE
  <2>1. docker[c] = "exited" BY <1>1, TargetNamed, NamesAssumption DEF Stopped, Exists
  <2>2. Use("restarts") BY <1>1, <2>1, NoFault DEF Start
  <2> QED BY <2>2, Spent DEF Bounds
<1>2. ASSUME NEW r \in Requests, NEW x \in Containers \cup Names, Target(x) = c, Stop(r, x)
      PROVE  docker'[c] = "exited"
  BY <1>2 DEF Stop, TypeOK
<1>3. ASSUME NEW r \in Requests, RemoveSend(r), Target(ref[r]) = c PROVE docker'[c] = "gone"
  BY <1>3 DEF RemoveSend, TypeOK
<1>4. ContainerExits(c) => docker'[c] = "exited" BY DEF ContainerExits, TypeOK
<1> QED BY <1>1, <1>2, <1>3, <1>4, DockerMoves DEF Stopped

(* ... and only such are torn down.                                          *)
LEMMA JustifiedNext ==
  ASSUME Placed, TypeOK, Accepting, Scanning, PendingOwed, Plain => Meant,
         Serving => Justified, Serving', Next
  PROVE  Justified'
<1> USE Distinct
<1>0. Serving /\ Plain /\ Meant /\ Justified BY PlainBefore DEF Serving
<1>s. \A c \in Containers : Stopped(c) => Stopped(c)'
  <2>1. NoneOf({"restarts"})' /\ ~Faulty' BY DEF Serving, Plain, NoneOf
  <2> QED BY <2>1, StoppedStays
<1>t. ASSUME NEW r \in Requests, pc[r] \in {"resolve", "removing"}, Target(ref[r]) # None
      PROVE  Target(ref[r]) = arg[r] /\ arg[r] \in Containers
  BY <1>0, <1>t, TargetMeant DEF Meant, Plain
<1> SUFFICES ASSUME NEW r \in Requests, pc'[r] \in Clearing \cup {"resolve", "inspect"}
             PROVE  Stopped(arg[r])'
  BY DEF Justified
<1>a. pc[r] \in Clearing \cup {"resolve", "inspect"} => arg[r] \in Containers /\ Stopped(arg[r])
  BY <1>0 DEF Justified, Meant, Placed, Given, Acting, Clearing
<1>1. CASE Stays(r)
  BY <1>1, <1>a, <1>s DEF Stays, Stopped
<1>2. CASE OperationStep(r)
  <2>1. CASE Resolve(r)
    <3>1. arg'[r] = Target(ref[r]) /\ Target(ref[r]) # None /\ pc[r] = "resolve"
      BY <1>0, <2>1, NoFault DEF Resolve, Placed, Serving, Plain, Clearing
    <3> QED BY <1>a, <1>s, <1>t, <3>1
  <2>2. CASE RemoveSend(r)
    <3>1. Target(ref[r]) # None /\ docker' = [docker EXCEPT ![Target(ref[r])] = "gone"]
          /\ arg' = arg /\ pc[r] = "removing"
      BY <2>2 DEF RemoveSend
    <3>2. docker'[arg[r]] = "gone" BY <1>t, <3>1 DEF TypeOK
    <3> QED BY <3>1, <3>2 DEF Stopped
  <2>3. CASE Inspect(r)
    BY <1>a, <1>s, <2>3 DEF Inspect, Step
  <2>4. ASSUME NEW x \in Containers \cup Names, Stop(r, x) PROVE Stopped(arg[r])'
    <3>1. Target(x) \in Containers BY <2>4, TargetNamed DEF Stop
    <3>2. arg'[r] = Target(x) /\ docker'[Target(x)] = "exited"
      BY <2>4, <3>1 DEF Stop, Placed, TypeOK
    <3> QED BY <3>2 DEF Stopped
  <2>5. ASSUME NEW x \in Containers \cup Names, Wait(r, x) PROVE Stopped(arg[r])'
    <3>1. arg'[r] \in Containers /\ docker[arg'[r]] # "absent"
      BY <2>5, TargetOK DEF Wait, Placed
    <3>2. docker[arg'[r]] \notin {"running", "created"}
      BY <1>0, <2>5 DEF Wait, Placed, Serving, Without, Clearing
    <3>3. docker' = docker BY <2>5 DEF Wait
    <3> QED BY <3>1, <3>2, <3>3 DEF Stopped, TypeOK
  <2> QED BY <1>2, <2>1, <2>2, <2>3, <2>4, <2>5, OwnOperation DEF Clearing
<1>3. ~CreateStep(r) BY OwnCreate DEF Clearing
<1>4. CASE ManagerStep(r)
  <2>1. ManagerEffect(r) BY <1>4, ManagerOK
  <2>2. pc[r] \in Clearing /\ arg'[r] = arg[r] BY <2>1 DEF ManagerEffect, Pair, Clearing
  <2> QED BY <1>a, <1>s, <2>2
<1>5. ~Ending BY NotEnding
<1> QED BY <1>1, <1>2, <1>3, <1>4, <1>5, RequestStays

LEMMA TearsNone ==
  ASSUME Placed, TypeOK, Accepting, Scanning, Serving, Justified, NEW t \in Threads,
         pc[t] \in Clearing, NEW c \in Doomed(t)
  PROVE  docker[c] \notin {"created", "running"}
<1> USE Distinct
<1>1. t # Closer /\ t # Listener /\ t \notin Containers
  BY DEF Accepting, Scanning, Serving, Plain, Clearing, SettingUp
<1>2. c = arg[t] /\ c \in Containers BY <1>1 DEF Doomed, Placed, Given, Clearing, Acting
<1>3. CASE t \in Requests BY <1>2, <1>3 DEF Justified, Stopped
<1>4. CASE t = Boot
  <2>1. Steady /\ NoneOf({"crashes"}) BY DEF Serving, Plain, Steady, Without, NoneOf
  <2> QED BY <1>2, <1>4, <2>1 DEF Scanning, Clearing
<1> QED BY <1>1, <1>3, <1>4 DEF Threads

-----------------------------------------------------------------------------
(* The entries of a container that is to run are not taken from it ...       *)
LEMMA EntriesStay ==
  ASSUME Placed, TypeOK, Accepting, Scanning, Asked, Serving, Justified, Next, ~Ending,
         NEW c \in Containers, docker[c] \in {"created", "running"}
  PROVE  /\ pfStored[c] = Ports => pfStored'[c] = Ports
         /\ fsStored[c] = Mounts => fsStored'[c] = Mounts
<1>1. \A t \in Threads : c \in Doomed(t) => ~TearPFBegin(t) /\ ~TearFSBegin(t)
  BY TearsNone DEF TearPFBegin, TearFSBegin, Step, Clearing
<1>2. \A r \in Requests : CreatedPorts(r) => pfPending[r] = Ports
  BY DEF CreatedPorts, Step, Asked
<1>3. \A r \in Requests : CreatedMounts(r) => fsPending[r] = Mounts
  BY DEF CreatedMounts, Step, Asked
<1> QED BY <1>1, <1>2, <1>3, PortEntry, MountEntry

LEMMA EnteredNext ==
  ASSUME Placed, TypeOK, Accepting, Scanning, PendingOwed, Asked,
         Serving => Justified /\ Entered, Serving', Next
  PROVE  Entered'
<1> USE Distinct
<1>0. Serving /\ Justified /\ Entered BY PlainBefore
<1>e. ~Ending BY NotEnding
<1>f. \A r \in Requests : ~CreateLost(r) /\ ~AnswerUnread(r)
  BY NoFault DEF CreateLost, AnswerUnread, Serving, Plain
<1>p. pfStored \in [Containers -> SUBSET Ports] /\ fsStored \in [Containers -> SUBSET Mounts]
  BY DEF TypeOK, PF!TypeOK, FS!TypeOK
<1> SUFFICES ASSUME NEW c \in Containers, docker'[c] \in {"created", "running"}
             PROVE  \/ At("created", c)'
                    \/ pfStored'[c] = Ports /\ (At("endFS", c)' \/ fsStored'[c] = Mounts)
  BY DEF Entered
<1>c. None # c BY NamesAssumption
<1>1. CASE docker'[c] = docker[c]
  <2>1. ASSUME NEW r \in Requests, pc[r] = "created", arg[r] = c
        PROVE  \/ pc'[r] = "created" /\ arg'[r] = c
               \/ pc'[r] = "endFS" /\ arg'[r] = c /\ pfStored'[c] = Ports
    <3>1. CASE Stays(r) BY <2>1, <3>1 DEF Stays
    <3>2. CASE CreateStep(r)
      <4>1. CreatedPorts(r) BY <1>f, <2>1, <3>2, OwnCreate
      <4>2. pfPending[r] = Ports BY <2>1 DEF Asked
      <4>3. pfStored'[c] = Ports
        BY <1>c, <1>p, <2>1, <4>1, <4>2 DEF CreatedPorts, PF!StoreEnd
      <4> QED BY <2>1, <4>1, <4>3 DEF CreatedPorts, Step, Placed
    <3>3. ~OperationStep(r) BY <2>1, OwnOperation
    <3>4. ~ManagerStep(r) BY <2>1, ManagerOK DEF ManagerEffect, Pair
    <3> QED BY <1>e, <3>1, <3>2, <3>3, <3>4, RequestStays
  <2>2. ASSUME NEW r \in Requests, pc[r] = "endFS", arg[r] = c
        PROVE  (pc'[r] = "endFS" /\ arg'[r] = c) \/ fsStored'[c] = Mounts
    <3>1. CASE Stays(r) BY <2>2, <3>1 DEF Stays
    <3>2. CASE CreateStep(r)
      <4>1. CreatedMounts(r) BY <2>2, <3>2, OwnCreate
      <4>2. fsPending[r] = Mounts BY <2>2 DEF Asked
      <4> QED BY <1>c, <1>p, <2>2, <4>1, <4>2 DEF CreatedMounts, FS!StoreEnd
    <3>3. ~OperationStep(r) BY <2>2, OwnOperation
    <3>4. ~ManagerStep(r) BY <2>2, ManagerOK DEF ManagerEffect, Pair
    <3> QED BY <1>e, <3>1, <3>2, <3>3, <3>4, RequestStays
  <2>3. /\ pfStored[c] = Ports => pfStored'[c] = Ports
        /\ fsStored[c] = Mounts => fsStored'[c] = Mounts
    BY <1>0, <1>1, <1>e, EntriesStay
  <2> QED BY <1>0, <1>1, <2>1, <2>2, <2>3 DEF Entered, At
<1>2. CASE docker'[c] # docker[c]
  <2>1. ASSUME NEW r \in Requests, CreateSend(r), arg'[r] = c, pc'[r] = "created"
        PROVE  At("created", c)'
    BY <2>1 DEF At
  <2>2. ASSUME NEW r \in Requests, NEW x \in Containers \cup Names, Target(x) = c, Start(r, x)
        PROVE  pfStored'[c] = Ports /\ fsStored'[c] = Mounts
    <3>1. ~Use("restarts") BY Spent DEF Serving, NoneOf, Bounds
    <3>0. ~Fault BY NoFault DEF Serving, Plain
    <3>2. docker[c] = "created" BY <1>c, <2>2, <3>0, <3>1, TargetNamed DEF Start, Exists
    <3>3. Known(c) BY <2>2 DEF Start
    <3>4. ~At("created", c) /\ ~At("endFS", c)
      BY <1>0, <3>3 DEF Known, At, Serving, Plain, Without
    <3>5. pfStored[c] = Ports /\ fsStored[c] = Mounts BY <1>0, <3>2, <3>4 DEF Entered
    <3> QED BY <2>2, <3>5 DEF Start, managers, pfVars, fsVars
  <2>3. ASSUME NEW r \in Requests, NEW x \in Containers \cup Names, Target(x) = c, Stop(r, x)
        PROVE  FALSE
    BY <2>3 DEF Stop, TypeOK
  <2>4. ASSUME NEW r \in Requests, RemoveSend(r), Target(ref[r]) = c PROVE FALSE
    BY <2>4 DEF RemoveSend, TypeOK
  <2>5. ~ContainerExits(c) BY DEF ContainerExits, TypeOK
  <2> QED BY <1>2, <2>1, <2>2, <2>3, <2>4, <2>5, DockerMoves
<1> QED BY <1>1, <1>2

(* ... nor are its sessions.                                                 *)
LEMMA LiveStays ==
  ASSUME Placed, TypeOK, Accepting, Scanning, PortsHeld, MountsHeld, Serving, Justified, Next,
         NEW c \in Containers, docker[c] = "running"
  PROVE  /\ \A i \in Ports : pfLive[c][i] > 0 => pfLive'[c][i] > 0
         /\ \A i \in Mounts : fsLive[c][i] > 0 => fsLive'[c][i] > 0
<1>0. /\ \A i \in Ports : pfLive[c][i] \in Nat
      /\ \A i \in Mounts : fsLive[c][i] \in Nat
  BY SessionsAssumption DEF TypeOK, PF!TypeOK, FS!TypeOK
<1>1. \A t \in Threads : c \in Doomed(t) => ~TearPFEnd(t) /\ ~TearFSEnd(t)
  BY TearsNone DEF TearPFEnd, TearFSEnd, Step, Clearing
<1> QED BY <1>0, <1>1, PortLive, MountLive

(* A setup begins with all that was asked for, ...                           *)
LEMMA AllToDo ==
  ASSUME Placed, TypeOK, Unused, Entered, NEW c \in Containers, docker[c] = "running"
  PROVE  pfStored[c] = Ports /\ fsStored[c] = Mounts
<1>1. c # None BY NamesAssumption
<1>2. ~At("created", c) /\ ~At("endFS", c) BY <1>1 DEF At, Unused
<1> QED BY <1>2 DEF Entered

(* ... and what it takes off is there.                                       *)
LEMMA PortsAdvance ==
  ASSUME Placed, TypeOK, Accepting, Scanning, PendingOwed, PortsHeld, MountsHeld, Serving, Serving',
         Unused, Justified, Entered, Next, NEW c \in Containers, docker[c] = "running",
         NEW r \in Requests, arg[r] = c, PortsCome(r)
  PROVE  (\A i \in Ports : pfLive'[c][i] > 0) \/ (arg'[r] = c /\ PortsCome(r)')
<1> USE Distinct
<1>e. ~Ending BY NotEnding
<1>l. \A i \in Ports : pfLive[c][i] > 0 => pfLive'[c][i] > 0 BY LiveStays
<1>1. CASE pc[r] = "check"
  <2>1. CASE CheckRunning(r)
    BY <1>1, <2>1, NoFault DEF CheckRunning, Step, Placed, PortsCome, Serving, Plain
  <2>2. ~CreateStep(r) /\ ~ManagerStep(r) /\ (OperationStep(r) => CheckRunning(r))
    BY <1>1, OwnCreate, OwnOperation, ManagerOK DEF ManagerEffect, Pair
  <2> QED BY <1>1, <1>e, <2>1, <2>2, RequestStays DEF Stays, PortsCome
<1>2. CASE pc[r] = "setupPF"
  <2>1. CASE SetupPFBegin(r)
    <3>1. pfJob' = [op |-> "setup", on |-> {c}, todo |-> pfStored[c]]
      BY <2>1 DEF SetupPFBegin, PF!SetupBegin
    <3>2. pfJob'.todo = Ports BY <3>1, AllToDo
    <3> QED BY <2>1, <3>2 DEF SetupPFBegin, Step, Placed, PortsCome
  <2>2. ~CreateStep(r) /\ ~OperationStep(r) BY <1>2, OwnCreate, OwnOperation
  <2>3. ManagerStep(r) => SetupPFBegin(r)
    BY <1>2 DEF ManagerStep, SetupPFItem, SetupPFEnd, SetupFSBegin, SetupFSItem, SetupFSEnd,
       TearPFBegin, TearPFEnd, TearFSBegin, TearFSEnd, Step
  <2> QED BY <1>2, <1>e, <2>1, <2>2, <2>3, RequestStays DEF Stays, PortsCome
<1>3. CASE pc[r] = "settingPF"
  <2>0. \A i \in Ports : i \in pfJob.todo \/ pfLive[c][i] > 0 BY <1>3 DEF PortsCome
  <2>1. CASE SetupPFItem(r)
    <3>1. PICK j \in Ports : PF!SetupItem(j)
      BY <2>1, NoFault DEF SetupPFItem, Serving, Plain
    <3>2. pfJob.on = {c} /\ pfJob \in PF!Jobs
      BY <1>3 DEF PortsHeld, Holds, TypeOK, PF!TypeOK
    <3>3. pfJob'.todo = pfJob.todo \ {j} BY <3>1, <3>2 DEF PF!SetupItem, PF!Jobs, PF!Idle
    <3>4. pfLive'[c][j] > 0
      <4>1. pfLive \in [Containers -> [Ports -> 0..MaxSessions]] BY DEF TypeOK, PF!TypeOK
      <4>2. pfLive' = [pfLive EXCEPT ![c][j] = @ + 1] BY <3>1, <3>2 DEF PF!SetupItem
      <4>3. pfLive'[c][j] = pfLive[c][j] + 1 /\ pfLive[c][j] \in Nat
        BY <4>1, <4>2, SessionsAssumption
      <4> QED BY <4>3
    <3>5. pc'[r] = "settingPF" /\ arg'[r] = c BY <1>3, <2>1 DEF SetupPFItem
    <3> QED BY <1>l, <2>0, <3>3, <3>4, <3>5 DEF PortsCome
  <2>2. CASE SetupPFEnd(r)
    BY <1>l, <2>0, <2>2 DEF SetupPFEnd, PF!SetupEnd
  <2>3. CASE UNCHANGED pfJob /\ ~SetupPFItem(r) /\ ~SetupPFEnd(r)
    <3>1. ~CreateStep(r) /\ ~OperationStep(r) BY <1>3, OwnCreate, OwnOperation
    <3>2. ~ManagerStep(r)
      BY <1>3, <2>3 DEF ManagerStep, SetupPFBegin, SetupFSBegin, SetupFSItem, SetupFSEnd,
         TearPFBegin, TearPFEnd, TearFSBegin, TearFSEnd, Step
    <3>3. pc'[r] = "settingPF" /\ arg'[r] = c
      BY <1>3, <1>e, <3>1, <3>2, RequestStays DEF Stays
    <3> QED BY <1>l, <2>0, <2>3, <3>3 DEF PortsCome
  <2> QED BY <1>3, <1>e, <2>1, <2>2, <2>3, PortJob
<1> QED BY <1>1, <1>2, <1>3 DEF PortsCome

LEMMA MountsAdvance ==
  ASSUME Placed, TypeOK, Accepting, Scanning, PendingOwed, PortsHeld, MountsHeld, Serving, Serving',
         Unused, Justified, Entered, Next, NEW c \in Containers, docker[c] = "running",
         NEW r \in Requests, arg[r] = c, MountsCome(r)
  PROVE  (\A i \in Mounts : fsLive'[c][i] > 0) \/ (arg'[r] = c /\ MountsCome(r)')
<1> USE Distinct
<1>e. ~Ending BY NotEnding
<1>l. \A i \in Mounts : fsLive[c][i] > 0 => fsLive'[c][i] > 0 BY LiveStays
<1>1. CASE pc[r] = "check"
  <2>1. CASE CheckRunning(r)
    BY <1>1, <2>1, NoFault DEF CheckRunning, Step, Placed, MountsCome, Serving, Plain
  <2>2. ~CreateStep(r) /\ ~ManagerStep(r) /\ (OperationStep(r) => CheckRunning(r))
    BY <1>1, OwnCreate, OwnOperation, ManagerOK DEF ManagerEffect, Pair
  <2> QED BY <1>1, <1>e, <2>1, <2>2, RequestStays DEF Stays, MountsCome
<1>2. CASE pc[r] \in {"setupPF", "settingPF"}
  <2>1. ~CreateStep(r) /\ ~OperationStep(r) BY <1>2, OwnCreate, OwnOperation
  <2>2. CASE ManagerStep(r)
    BY <1>2, <2>2, ManagerOK DEF ManagerEffect, Pair, MountsCome
  <2> QED BY <1>2, <1>e, <2>1, <2>2, RequestStays DEF Stays, MountsCome
<1>3. CASE pc[r] = "setupFS"
  <2>1. CASE SetupFSBegin(r)
    <3>1. fsJob' = [op |-> "setup", on |-> {c}, todo |-> fsStored[c]]
      BY <2>1 DEF SetupFSBegin, FS!SetupBegin
    <3>2. fsJob'.todo = Mounts BY <3>1, AllToDo
    <3> QED BY <2>1, <3>2 DEF SetupFSBegin, Step, Placed, MountsCome
  <2>2. ~CreateStep(r) /\ ~OperationStep(r) BY <1>3, OwnCreate, OwnOperation
  <2>3. ManagerStep(r) => SetupFSBegin(r)
    BY <1>3 DEF ManagerStep, SetupFSItem, SetupFSEnd, SetupPFBegin, SetupPFItem, SetupPFEnd,
       TearPFBegin, TearPFEnd, TearFSBegin, TearFSEnd, Step
  <2> QED BY <1>3, <1>e, <2>1, <2>2, <2>3, RequestStays DEF Stays, MountsCome
<1>4. CASE pc[r] = "settingFS"
  <2>0. \A i \in Mounts : i \in fsJob.todo \/ fsLive[c][i] > 0 BY <1>4 DEF MountsCome
  <2>1. CASE SetupFSItem(r)
    <3>1. PICK j \in Mounts : FS!SetupItem(j)
      BY <2>1, NoFault DEF SetupFSItem, Serving, Plain
    <3>2. fsJob.on = {c} /\ fsJob \in FS!Jobs
      BY <1>4 DEF MountsHeld, Holds, TypeOK, FS!TypeOK
    <3>3. fsJob'.todo = fsJob.todo \ {j} BY <3>1, <3>2 DEF FS!SetupItem, FS!Jobs, FS!Idle
    <3>4. fsLive'[c][j] > 0
      <4>1. fsLive \in [Containers -> [Mounts -> 0..MaxSessions]] BY DEF TypeOK, FS!TypeOK
      <4>2. fsLive' = [fsLive EXCEPT ![c][j] = @ + 1] BY <3>1, <3>2 DEF FS!SetupItem
      <4>3. fsLive'[c][j] = fsLive[c][j] + 1 /\ fsLive[c][j] \in Nat
        BY <4>1, <4>2, SessionsAssumption
      <4> QED BY <4>3
    <3>5. pc'[r] = "settingFS" /\ arg'[r] = c BY <1>4, <2>1 DEF SetupFSItem
    <3> QED BY <1>l, <2>0, <3>3, <3>4, <3>5 DEF MountsCome
  <2>2. CASE SetupFSEnd(r)
    BY <1>l, <2>0, <2>2 DEF SetupFSEnd, FS!SetupEnd
  <2>3. CASE UNCHANGED fsJob /\ ~SetupFSItem(r) /\ ~SetupFSEnd(r)
    <3>1. ~CreateStep(r) /\ ~OperationStep(r) BY <1>4, OwnCreate, OwnOperation
    <3>2. ~ManagerStep(r)
      BY <1>4, <2>3 DEF ManagerStep, SetupFSBegin, SetupPFBegin, SetupPFItem, SetupPFEnd,
         TearPFBegin, TearPFEnd, TearFSBegin, TearFSEnd, Step
    <3>3. pc'[r] = "settingFS" /\ arg'[r] = c
      BY <1>4, <1>e, <3>1, <3>2, RequestStays DEF Stays
    <3> QED BY <1>l, <2>0, <2>3, <3>3 DEF MountsCome
  <2> QED BY <1>4, <1>e, <2>1, <2>2, <2>3, MountJob
<1> QED BY <1>1, <1>2, <1>3, <1>4 DEF MountsCome

LEMMA AttendedNext ==
  ASSUME Placed, TypeOK, Accepting, Scanning, PendingOwed, PortsHeld, MountsHeld, Plain => Unused,
         Serving => Justified /\ Entered /\ Attended, Serving', Next
  PROVE  Attended'
<1>0. Serving /\ Unused /\ Justified /\ Entered /\ Attended BY PlainBefore DEF Serving
<1> SUFFICES ASSUME NEW c \in Containers, docker'[c] = "running"
             PROVE  /\ \/ \A i \in Ports : pfLive'[c][i] > 0
                       \/ \E r \in Requests : arg'[r] = c /\ PortsCome(r)'
                    /\ \/ \A i \in Mounts : fsLive'[c][i] > 0
                       \/ \E r \in Requests : arg'[r] = c /\ MountsCome(r)'
  BY DEF Attended
<1>1. CASE docker[c] = "running"
  <2>1. /\ \A i \in Ports : pfLive[c][i] > 0 => pfLive'[c][i] > 0
        /\ \A i \in Mounts : fsLive[c][i] > 0 => fsLive'[c][i] > 0
    BY <1>0, <1>1, LiveStays
  <2>2. \/ \A i \in Ports : pfLive'[c][i] > 0
        \/ \E r \in Requests : arg'[r] = c /\ PortsCome(r)'
    BY <1>0, <1>1, <2>1, PortsAdvance DEF Attended
  <2>3. \/ \A i \in Mounts : fsLive'[c][i] > 0
        \/ \E r \in Requests : arg'[r] = c /\ MountsCome(r)'
    BY <1>0, <1>1, <2>1, MountsAdvance DEF Attended
  <2> QED BY <2>2, <2>3
<1>2. CASE docker[c] # "running"
  <2>1. ASSUME NEW r \in Requests, NEW x \in Containers \cup Names, Target(x) = c, Start(r, x)
        PROVE  arg'[r] = c /\ PortsCome(r)' /\ MountsCome(r)'
    <3>1. x \in Containers BY <1>0, <2>1 DEF Start, Serving, Without
    <3>2. x = c BY <2>1, <3>1, TargetNamed, NamesAssumption
    <3>3. ~Fault BY NoFault DEF Serving, Plain
    <3>4. arg'[r] = c /\ pc'[r] = "check" BY <2>1, <3>2, <3>3, Distinct DEF Start, Placed
    <3> QED BY <3>4 DEF PortsCome, MountsCome
  <2>2. ASSUME NEW r \in Requests, NEW x \in Containers \cup Names, Target(x) = c, Stop(r, x)
        PROVE  FALSE
    BY <2>2, <1>2 DEF Stop
  <2>3. ASSUME NEW r \in Requests, RemoveSend(r), Target(ref[r]) = c PROVE FALSE
    BY <2>3 DEF RemoveSend, TypeOK
  <2>4. ~ContainerExits(c) BY <1>2 DEF ContainerExits
  <2> QED BY <1>2, <2>1, <2>2, <2>3, <2>4, DockerMoves
<1> QED BY <1>1, <1>2

-----------------------------------------------------------------------------
(* What is clean of a container that stopped stays so.                       *)
LEMMA PortsStayClean ==
  ASSUME Placed, TypeOK, Accepting, PortsHeld, MountsHeld, Existing, PF!JobOwnsEntries,
         Listed, Steady, Without({"unattended"}), Unused, Next, ~Ending,
         NEW c \in Containers, Stopped(c), PortsClean(c)
  PROVE  PortsClean(c)'
<1> USE Distinct
<1>1. ASSUME NEW r \in Requests, CreatedPorts(r), arg[r] = c PROVE FALSE
  <2>1. pc[r] = "created"
    BY <1>1, NamesAssumption DEF CreatedPorts, Step, Existing, Asking
  <2> QED BY <1>1, <2>1, NamesAssumption DEF Unused, Stopped
<1>2. ~ScanPorts(c) BY DEF ScanPorts, Step, Listed, Stopped
<1>3. pfStored'[c] = {} BY <1>1, <1>2, PortEntry DEF PortsClean
<1>4. ASSUME NEW i \in Ports PROVE pfLive'[c][i] = 0
  <2>1. ASSUME NEW t \in Threads, TearPFEnd(t) PROVE pfLive'[c][i] = 0
    BY <2>1, TeardownLeaves DEF PortsClean
  <2>2. ASSUME NEW t \in Threads, SetupPFItem(t), arg[t] = c PROVE i \notin pfJob.todo
    BY <2>2 DEF SetupPFItem, PortsHeld, Holds, PF!JobOwnsEntries, PortsClean
  <2> QED BY <2>1, <2>2, PortLive DEF PortsClean
<1> QED BY <1>3, <1>4 DEF PortsClean

LEMMA MountsStayClean ==
  ASSUME Placed, TypeOK, Accepting, PortsHeld, MountsHeld, Existing, FS!JobOwnsEntries,
         Listed, Steady, Without({"unattended"}), Unused, Next, ~Ending,
         NEW c \in Containers, Stopped(c), MountsClean(c)
  PROVE  MountsClean(c)'
<1> USE Distinct
<1>1. ASSUME NEW r \in Requests, CreatedMounts(r), arg[r] = c PROVE FALSE
  <2>1. pc[r] = "endFS" BY <1>1 DEF CreatedMounts, Step
  <2> QED BY <1>1, <2>1, NamesAssumption DEF Unused, Stopped
<1>2. ~ScanMounts(c) BY DEF ScanMounts, Step, Listed, Stopped
<1>3. fsStored'[c] = {} BY <1>1, <1>2, MountEntry DEF MountsClean
<1>4. ASSUME NEW i \in Mounts PROVE fsLive'[c][i] = 0
  <2>1. ASSUME NEW t \in Threads, TearFSEnd(t) PROVE fsLive'[c][i] = 0
    BY <2>1, TeardownLeaves DEF MountsClean
  <2>2. ASSUME NEW t \in Threads, SetupFSItem(t), arg[t] = c PROVE i \notin fsJob.todo
    BY <2>2 DEF SetupFSItem, MountsHeld, Holds, FS!JobOwnsEntries, MountsClean
  <2> QED BY <2>1, <2>2, MountLive DEF MountsClean
<1> QED BY <1>3, <1>4 DEF MountsClean

(* A teardown that nothing fails leaves nothing of its container.            *)
LEMMA TornDown ==
  ASSUME Placed, TypeOK, PortsHeld, MountsHeld, PF!JobOwnsEntries, FS!JobOwnsEntries,
         ~Faulty', NEW t \in Threads, NEW c \in Containers, c \in Doomed(t)
  PROVE  /\ TearPFEnd(t) => PortsClean(c)'
         /\ TearFSEnd(t) => MountsClean(c)'
<1>1. ASSUME TearPFEnd(t) PROVE PortsClean(c)'
  <2>1. PF!TeardownEnd({})
    BY <1>1, NoFault DEF TearPFEnd
  <2>2. pfJob.op = "teardown" /\ c \in pfJob.on
    BY <1>1 DEF TearPFEnd, Step, PortsHeld, Holds
  <2>3. pfStored[c] = {} BY <2>2 DEF PF!JobOwnsEntries
  <2>4. \A i \in Ports : pfLive'[c][i] = 0 BY <2>1, <2>2 DEF PF!TeardownEnd
  <2> QED BY <2>1, <2>3, <2>4 DEF PF!TeardownEnd, PortsClean
<1>2. ASSUME TearFSEnd(t) PROVE MountsClean(c)'
  <2>1. FS!TeardownEnd({})
    BY <1>2, NoFault DEF TearFSEnd
  <2>2. fsJob.op = "teardown" /\ c \in fsJob.on
    BY <1>2 DEF TearFSEnd, Step, MountsHeld, Holds
  <2>3. fsStored[c] = {} BY <2>2 DEF FS!JobOwnsEntries
  <2>4. \A i \in Mounts : fsLive'[c][i] = 0 BY <2>1, <2>2 DEF FS!TeardownEnd
  <2> QED BY <2>1, <2>3, <2>4 DEF FS!TeardownEnd, MountsClean
<1> QED BY <1>1, <1>2

(* Whoever comes to tear down a container comes on, and gets to it.          *)
LEMMA RequestComes ==
  ASSUME Placed, TypeOK, Accepting, Scanning, PendingOwed, Meant, Tidy, ~Faulty', Next, ~Ending,
         NEW c \in Containers, Stopped(c), docker'[c] = docker[c], NEW r \in Requests, Comes(r, c)
  PROVE  Comes(r, c)' \/ TearPFEnd(r)
<1> USE Distinct
<1>1. CASE Stays(r) BY <1>1 DEF Stays, Comes
<1>2. ~CreateStep(r) BY OwnCreate DEF Comes
<1>3. CASE OperationStep(r)
  <2>1. CASE Resolve(r)
    <3>1. docker[c] = "exited" /\ ref[r] \in {c, NameOf[c]} BY <2>1 DEF Resolve, Comes, Meant
    <3>2. Target(ref[r]) = c BY <3>1, TargetMeant DEF Tidy, Plain, Exists
    <3>3. arg'[r] = c /\ pc'[r] = "tearPF"
      BY <2>1, <3>2, NoFault, NamesAssumption DEF Resolve, Placed
    <3> QED BY <3>3 DEF Comes
  <2>2. CASE Inspect(r)
    <3>1. ref[r] = c BY <2>2 DEF Inspect, Step, Comes, Meant, Tidy, Without
    <3>2. ~Running(ref[r])
      BY <3>1, TargetMeant DEF Tidy, Plain, Running, Stopped
    <3>3. arg'[r] = c /\ pc'[r] = "tearPF"
      BY <2>2, <3>1, <3>2, NoFault DEF Inspect, Step, Placed, Comes
    <3> QED BY <3>3 DEF Comes
  <2> QED BY <1>3, <2>1, <2>2, OwnOperation DEF Comes
<1>4. CASE ManagerStep(r)
  <2>1. ManagerEffect(r) BY <1>4, ManagerOK
  <2>2. TearPFBegin(r) \/ TearPFEnd(r)
    BY <1>4 DEF ManagerStep, SetupPFBegin, SetupPFItem, SetupPFEnd, SetupFSBegin, SetupFSItem,
       SetupFSEnd, TearFSBegin, TearFSEnd, Step, Comes
  <2> QED BY <2>1, <2>2 DEF TearPFBegin, Step, ManagerEffect, Pair, Comes
<1> QED BY <1>1, <1>2, <1>3, <1>4, RequestStays

LEMMA RequestClears ==
  ASSUME Placed, TypeOK, Accepting, Scanning, PendingOwed, Next, ~Ending,
         NEW c \in Containers, NEW r \in Requests, arg[r] = c, pc[r] \in {"tearFS", "tearingFS"}
  PROVE  (arg'[r] = c /\ pc'[r] \in {"tearFS", "tearingFS"}) \/ TearFSEnd(r)
<1> USE Distinct
<1>1. CASE Stays(r) BY <1>1 DEF Stays
<1>2. ~CreateStep(r) /\ ~OperationStep(r) BY OwnCreate, OwnOperation
<1>3. CASE ManagerStep(r)
  <2>1. ManagerEffect(r) BY <1>3, ManagerOK
  <2>2. TearFSBegin(r) \/ TearFSEnd(r)
    BY <1>3 DEF ManagerStep, SetupPFBegin, SetupPFItem, SetupPFEnd, SetupFSBegin, SetupFSItem,
       SetupFSEnd, TearPFBegin, TearPFEnd, Step
  <2> QED BY <2>1, <2>2 DEF TearFSBegin, Step, ManagerEffect, Pair
<1> QED BY <1>1, <1>2, <1>3, RequestStays

(* The boot scan goes on by its own steps.                                   *)
LEMMA BootMoves ==
  ASSUME Placed, TypeOK, Accepting, Scanning, Next, ~Ending
  PROVE  \/ ScanStep
         \/ ManagerStep(Boot)
         \/ pc'[Boot] = pc[Boot] /\ arg'[Boot] = arg[Boot] /\ old' = old
<1> USE Distinct
<1>1. ASSUME NEW r \in Requests, CreateStep(r) \/ OperationStep(r)
      PROVE  pc'[Boot] = pc[Boot] /\ arg'[Boot] = arg[Boot] /\ old' = old
  BY <1>1, RequestOK DEF RequestEffect, Others, Scanning, BootAt
<1>2. ASSUME NEW t \in Threads, ManagerStep(t), t # Boot
      PROVE  pc'[Boot] = pc[Boot] /\ arg'[Boot] = arg[Boot] /\ old' = old
  BY <1>2, ManagerOK DEF ManagerEffect
<1>3. ASSUME NEW c \in Containers, ContainerExits(c)
      PROVE  pc'[Boot] = pc[Boot] /\ arg'[Boot] = arg[Boot] /\ old' = old
  BY <1>3 DEF ContainerExits, Answered, scan, Scanning, BootAt
<1>4. ASSUME NEW c \in Containers, ScanPorts(c) \/ ScanMounts(c)
      PROVE  pc'[Boot] = pc[Boot] /\ arg'[Boot] = arg[Boot] /\ old' = old
  BY <1>4 DEF ScanPorts, ScanMounts, Step, scan, Placed
<1>5. CASE EndStep
  <2>1. UNCHANGED <<arg, old>> BY <1>5 DEF EndStep, CloseBegin, AcceptFails, Drained, scan
  <2>2. pc'[Boot] = pc[Boot]
    BY <1>5 DEF EndStep, CloseBegin, AcceptFails, Drained, Step, Placed
  <2> QED BY <2>1, <2>2
<1> QED BY <1>1, <1>2, <1>3, <1>4, <1>5, Groups DEF BootStep

LEMMA BootComes ==
  ASSUME Placed, TypeOK, Accepting, Scanning, Next, ~Ending, NEW c \in Containers
  PROVE  /\ Comes(Boot, c) => Comes(Boot, c)' \/ TearPFEnd(Boot)
         /\ arg[Boot] = c /\ pc[Boot] \in {"tearFS", "tearingFS"} =>
              (arg'[Boot] = c /\ pc'[Boot] \in {"tearFS", "tearingFS"}) \/ TearFSEnd(Boot)
<1> USE Distinct
<1>1. CASE ScanStep
  BY <1>1 DEF ScanStep, ListRunning, ListForwards, ListSyncs, Sweep, Spawn, Step, Comes
<1>2. CASE ManagerStep(Boot)
  <2>1. ManagerEffect(Boot) BY <1>2, ManagerOK
  <2>2. Comes(Boot, c) => TearPFBegin(Boot) \/ TearPFEnd(Boot)
    BY <1>2 DEF ManagerStep, SetupPFBegin, SetupPFItem, SetupPFEnd, SetupFSBegin, SetupFSItem,
       SetupFSEnd, TearFSBegin, TearFSEnd, Step, Comes
  <2>3. pc[Boot] \in {"tearFS", "tearingFS"} => TearFSBegin(Boot) \/ TearFSEnd(Boot)
    BY <1>2 DEF ManagerStep, SetupPFBegin, SetupPFItem, SetupPFEnd, SetupFSBegin, SetupFSItem,
       SetupFSEnd, TearPFBegin, TearPFEnd, Step
  <2> QED BY <2>1, <2>2, <2>3
          DEF TearPFBegin, TearFSBegin, Step, ManagerEffect, Pair, Comes
<1>3. CASE pc'[Boot] = pc[Boot] /\ arg'[Boot] = arg[Boot]
  BY <1>3 DEF Comes, Scanning, BootAt
<1> QED BY <1>1, <1>2, <1>3, BootMoves

(* What the boot scan has ahead of it stays ahead, until it comes to it.     *)
LEMMA StaysAhead ==
  ASSUME Placed, TypeOK, Accepting, Scanning, Listed, Steady, Without({"unattended"}),
         ~Faulty', Next, ~Ending, NEW c \in Containers, Stopped(c)
  PROVE  /\ Ahead(c, {"list", "listPF"}) =>
              Ahead(c, {"list", "listPF"})' \/ Comes(Boot, c)' \/ PortsClean(c)
         /\ Ahead(c, {"list", "listPF", "listFS"}) =>
              Ahead(c, {"list", "listPF", "listFS"})' \/ Comes(Boot, c)' \/ MountsClean(c)
<1> USE Distinct DEF Ahead, Looked
<1>1. CASE ScanStep
  <2>1. CASE ListRunning
    BY <2>1, NoFault DEF ListRunning, Placed
  <2>2. CASE ListForwards
    <3>1. old' = PF!SessionContainers /\ pc[Boot] = "listPF" /\ pc'[Boot] = "listFS"
      BY <2>2, NoFault DEF ListForwards, Step, Placed
    <3>2. ASSUME c \notin PF!SessionContainers PROVE PortsClean(c)
      <4>1. pfStored[c] = {} BY <3>1 DEF Listed
      <4>2. \A i \in Ports : pfLive[c][i] \in Nat /\ ~(pfLive[c][i] > 0)
        BY <3>2, SessionsAssumption DEF PF!SessionContainers, TypeOK, PF!TypeOK
      <4> QED BY <4>1, <4>2 DEF PortsClean
    <3> QED BY <3>1, <3>2
  <2>3. CASE ListSyncs
    <3>1. old' = old \cup FS!SessionContainers /\ pc[Boot] = "listFS" /\ pc'[Boot] = "sweep"
      BY <2>3, NoFault DEF ListSyncs, Step, Placed
    <3>2. ASSUME c \notin FS!SessionContainers PROVE MountsClean(c)
      <4>1. fsStored[c] = {} BY <3>1 DEF Listed
      <4>2. \A i \in Mounts : fsLive[c][i] \in Nat /\ ~(fsLive[c][i] > 0)
        BY <3>2, SessionsAssumption DEF FS!SessionContainers, TypeOK, FS!TypeOK
      <4> QED BY <4>1, <4>2 DEF MountsClean
    <3> QED BY <3>1, <3>2
  <2>4. ASSUME NEW d \in Containers, Sweep(d)
        PROVE  (c \in old => c \in old' \/ arg'[Boot] = c) /\ pc'[Boot] = "tearPF"
               /\ pc[Boot] = "sweep"
    BY <2>4 DEF Sweep, Step, Placed
  <2>5. CASE Spawn
    <3>1. c \notin old BY <2>5 DEF Spawn, Listed, Stopped
    <3> QED BY <2>5, <3>1 DEF Spawn
  <2> QED BY <1>1, <2>1, <2>2, <2>3, <2>4, <2>5 DEF ScanStep, Comes
<1>2. CASE ManagerStep(Boot)
  BY <1>2, ManagerOK DEF ManagerEffect, Pair, Scanning, BootAt
<1> QED BY <1>1, <1>2, BootMoves

LEMMA ClearedNext ==
  ASSUME Placed, TypeOK, Accepting, Scanning, PendingOwed, PortsHeld, MountsHeld, Existing,
         PF!JobOwnsEntries, FS!JobOwnsEntries, Plain => Meant /\ Unused, Listed, Cleared, Next
  PROVE  Cleared'
<1> USE Distinct
<1> SUFFICES ASSUME Tidy', NEW c \in Containers, Stopped(c)'
             PROVE  PortsCleared(c)' /\ MountsCleared(c)'
  BY DEF Cleared
<1>0. Tidy /\ Plain /\ Plain' /\ Meant /\ Unused BY PlainBefore DEF Tidy
<1>f. ~Faulty' BY <1>0 DEF Plain
<1>w. Steady /\ Without({"unattended"}) /\ DistinctNames
  BY <1>0 DEF Tidy, Plain, Steady, Without
<1>k. (\E t \in Threads : Comes(t, c)') => PortsCleared(c)' /\ MountsCleared(c)'
  BY DEF PortsCleared, MountsCleared
<1>1. CASE docker'[c] # docker[c]
  <2>1. ASSUME NEW r \in Requests, NEW x \in Containers \cup Names, Target(x) = c, Stop(r, x)
        PROVE  Comes(r, c)'
    BY <1>f, <2>1, NoFault DEF Stop, Comes, Placed, TypeOK, Answered
  <2>2. ASSUME NEW r \in Requests, RemoveSend(r), Target(ref[r]) = c PROVE Comes(r, c)'
    <3>1. arg[r] = c
      BY <1>0, <1>w, <2>2, TargetMeant, NamesAssumption DEF RemoveSend, Meant
    <3>2. pc'[r] = "tearPF" /\ arg'[r] = c
      BY <1>f, <2>2, <3>1, NoFault, NamesAssumption DEF RemoveSend, Placed, Answered
    <3> QED BY <3>2 DEF Comes
  <2>3. CASE ContainerExits(c)
    <3>1. PICK r \in wg : pc[r] = "waiting" /\ arg[r] = c
      BY <1>w, <2>3 DEF ContainerExits, Without
    <3>2. r \in Requests BY <3>1 DEF TypeOK
    <3>3. Comes(r, c)' BY <2>3, <3>1, <3>2 DEF ContainerExits, Answered, Comes
    <3> QED BY <1>k, <3>2, <3>3
  <2>4. ASSUME NEW r \in Requests, NEW x \in Containers \cup Names, Target(x) = c, Start(r, x)
        PROVE  FALSE
    BY <2>4 DEF Start, TypeOK, Stopped
  <2> QED BY <1>1, <1>k, <2>1, <2>2, <2>3, <2>4, DockerMoves DEF Stopped
<1>2. CASE Ending
  <2>1. Crash BY <1>0, <1>2, NotEnding
  <2>2. pc'[Boot] = "list" BY <2>1 DEF Crash, Starts
  <2> QED BY <2>2 DEF PortsCleared, MountsCleared, Ahead
<1>3. CASE docker'[c] = docker[c] /\ ~Ending
  <2>0. Stopped(c) BY <1>3 DEF Stopped
  <2>1. PortsClean(c) => PortsClean(c)' BY <1>0, <1>3, <1>w, <2>0, PortsStayClean
  <2>2. MountsClean(c) => MountsClean(c)' BY <1>0, <1>3, <1>w, <2>0, MountsStayClean
  <2>3. ASSUME NEW t \in Threads, Comes(t, c) \/ (arg[t] = c /\ pc[t] \in {"tearFS", "tearingFS"})
        PROVE  t \in Requests \cup {Boot} /\ c \in Doomed(t)
    BY <1>0, <2>3 DEF Comes, Plain, Accepting, Scanning, SettingUp, Threads, Doomed
  <2>4. ASSUME NEW t \in Threads, Comes(t, c)
        PROVE  Comes(t, c)' \/ TearPFEnd(t)
    BY <1>0, <1>3, <1>f, <2>0, <2>3, <2>4, RequestComes, BootComes
  <2>5. ASSUME NEW t \in Threads, TearPFEnd(t), Comes(t, c)
        PROVE  PortsClean(c)' /\ arg'[t] = c /\ pc'[t] = "tearFS"
    <3>1. PortsClean(c)' BY <1>f, <2>3, <2>5, TornDown
    <3> QED BY <2>5, <3>1 DEF TearPFEnd, Step, Placed, Comes
  <2>6. ASSUME NEW t \in Threads, arg[t] = c, pc[t] \in {"tearFS", "tearingFS"}
        PROVE  (arg'[t] = c /\ pc'[t] \in {"tearFS", "tearingFS"}) \/ MountsClean(c)'
    <3>1. (arg'[t] = c /\ pc'[t] \in {"tearFS", "tearingFS"}) \/ TearFSEnd(t)
      BY <1>3, <2>3, <2>6, RequestClears, BootComes
    <3> QED BY <1>f, <2>3, <2>6, <3>1, TornDown
  <2>7. /\ Ahead(c, {"list", "listPF"}) =>
             Ahead(c, {"list", "listPF"})' \/ Comes(Boot, c)' \/ PortsClean(c)
        /\ Ahead(c, {"list", "listPF", "listFS"}) =>
             Ahead(c, {"list", "listPF", "listFS"})' \/ Comes(Boot, c)' \/ MountsClean(c)
    BY <1>3, <1>f, <1>w, <2>0, StaysAhead
  <2>8. PortsCleared(c) /\ MountsCleared(c) BY <1>0, <2>0 DEF Cleared
  <2>9. PortsCleared(c)'
    <3>1. CASE PortsClean(c) BY <2>1, <3>1 DEF PortsCleared
    <3>2. CASE Ahead(c, {"list", "listPF"}) BY <2>1, <2>7, <3>2 DEF PortsCleared
    <3>3. ASSUME NEW t \in Threads, Comes(t, c) PROVE PortsCleared(c)'
      BY <2>4, <2>5, <3>3 DEF PortsCleared
    <3> QED BY <2>8, <3>1, <3>2, <3>3 DEF PortsCleared
  <2>10. MountsCleared(c)'
    <3>1. CASE MountsClean(c) BY <2>2, <3>1 DEF MountsCleared
    <3>2. CASE Ahead(c, {"list", "listPF", "listFS"}) BY <2>2, <2>7, <3>2 DEF MountsCleared
    <3>3. ASSUME NEW t \in Threads, Comes(t, c) PROVE MountsCleared(c)'
      BY <2>4, <2>5, <3>3 DEF MountsCleared
    <3>4. ASSUME NEW t \in Threads, arg[t] = c, pc[t] \in {"tearFS", "tearingFS"}
          PROVE  MountsCleared(c)'
      BY <2>6, <3>4 DEF MountsCleared
    <3> QED BY <2>8, <3>1, <3>2, <3>3, <3>4 DEF MountsCleared
  <2> QED BY <2>9, <2>10
<1> QED BY <1>1, <1>2, <1>3

-----------------------------------------------------------------------------
ServeInv ==
  /\ Plain => Meant /\ Unused
  /\ Asked /\ Listed /\ Cleared
  /\ Serving => Justified /\ Entered /\ Attended

LEMMA ServeInvNext ==
  ASSUME Placed, TypeOK, CloseInv, SyncInv, PendingOwed, PF!JobOwnsEntries, FS!JobOwnsEntries,
         ServeInv, [Next]_vars
  PROVE  ServeInv'
<1> USE DEF CloseInv, SyncInv, ServeInv
<1>1. CASE Next
  <2>1. Plain' => Plain /\ Meant' /\ Unused' BY <1>1, PlainBefore, MeantNext, UnusedNext
  <2>2. Asked' BY <1>1, AskedNext
  <2>3. Listed' BY <1>1, ListedNext
  <2>4. Cleared' BY <1>1, ClearedNext
  <2>5. Serving' => Justified' BY <1>1, JustifiedNext
  <2>6. Serving' => Entered' BY <1>1, EnteredNext
  <2>7. Serving' => Attended' BY <1>1, AttendedNext
  <2> QED BY <2>1, <2>2, <2>3, <2>4, <2>5, <2>6, <2>7
<1>2. CASE UNCHANGED vars
  <2> USE <1>2 DEF vars, scan, managers, pfVars, fsVars
  <2>1. (Plain' <=> Plain) /\ (Tidy' <=> Tidy) /\ (Serving' <=> Serving) /\ (Steady' <=> Steady)
    BY DEF Tidy, Serving, Plain, Steady, Without, Allowed, DistinctNames, Faulty, NoneOf
  <2>2. (Meant => Meant') /\ (Unused => Unused') /\ (Asked => Asked')
    BY DEF Meant, Unused, Asked, Without, Allowed
  <2>3. Listed => Listed' BY <2>1 DEF Listed, Without, Allowed
  <2>4. Cleared => Cleared'
    BY <2>1 DEF Cleared, PortsCleared, MountsCleared, PortsClean, MountsClean, Comes, Ahead, Stopped
  <2>5. (Justified => Justified') /\ (Entered => Entered') /\ (Attended => Attended')
    BY DEF Justified, Stopped, Entered, At, Attended, PortsCome, MountsCome
  <2> QED BY <2>1, <2>2, <2>3, <2>4, <2>5
<1> QED BY <1>1, <1>2

LEMMA ServeInvInit == Init => ServeInv
<1> SUFFICES ASSUME Init PROVE ServeInv
  OBVIOUS
<1>1. /\ \A c \in Containers : /\ docker[c] = "absent" /\ pc[c] = "idle"
                               /\ pfStored[c] = {} /\ fsStored[c] = {}
      /\ \A r \in Requests : pc[r] = "idle"
      /\ snap = {}
  BY Distinct DEF Init, Starts, PF!Init, FS!Init
<1>2. (Plain => Meant /\ Unused) /\ Asked BY <1>1 DEF Meant, Unused, Asked
<1>3. Listed BY <1>1 DEF Listed
<1>4. Cleared BY <1>1 DEF Cleared, Stopped
<1>5. Justified /\ Entered /\ Attended
  BY <1>1 DEF Justified, Clearing, Entered, Attended
<1> QED BY <1>2, <1>3, <1>4, <1>5 DEF ServeInv

LEMMA ServeInvHolds == Spec => [](Placed /\ TypeOK /\ CloseInv /\ SyncInv /\ ServeInv)
<1>1. Init => EnvOK /\ PendingOwed
  BY DEF Init, PF!Init, FS!Init, EnvOK, PendingOwed, Owed, Bounds
<1>2. Placed /\ EnvOK /\ PendingOwed /\ [Next]_vars => EnvOK' /\ PendingOwed'
  BY OwedNext
<1>3. Placed /\ TypeOK /\ PF!JobOwnsEntries /\ FS!JobOwnsEntries /\ CloseInv /\ [Next]_vars
        => CloseInv'
  BY CloseInvNext
<1>4. Placed /\ TypeOK /\ CloseInv /\ SyncInv /\ [Next]_vars => SyncInv'
  BY SyncInvNext
<1>5. Placed /\ TypeOK /\ CloseInv /\ SyncInv /\ PendingOwed /\ PF!JobOwnsEntries
        /\ FS!JobOwnsEntries /\ ServeInv /\ [Next]_vars => ServeInv'
  BY ServeInvNext
<1> QED BY <1>1, <1>2, <1>3, <1>4, <1>5, ServeInvInit, SyncInvInit, CloseInvInit, PlacedInit,
        PlacedNext, TypeCorrect, ProxyTracks, PTL DEF Spec

(* Once all goroutines have finished, a container that stopped or was        *)
(* removed has no session and no entry, for any number of containers,        *)
(* connections, restarts and crashes (proxy.go, handleContainerOperation,    *)
(* handleContainerWait, syncWithRunningContainers).                          *)
THEOREM AllClean == Spec => []StoppedIsClean
<1>1. Placed /\ TypeOK /\ CloseInv /\ SyncInv /\ ServeInv => StoppedIsClean
  <2> SUFFICES ASSUME Placed, TypeOK, CloseInv, SyncInv, ServeInv, AtRest, NoneOf({"faults"}),
                      Without({"early", "duringBoot", "unattended", "waitByName"}), DistinctNames,
                      NEW c \in Containers, Stopped(c)
               PROVE  Clean(c)
    BY DEF StoppedIsClean, Stopped
  <2>1. Tidy BY DEF AtRest, Tidy, Plain, NoneOf, Faulty, Without
  <2>2. \A t \in Threads : ~Comes(t, c) /\ pc[t] \notin {"tearFS", "tearingFS"}
    BY DEF AtRest, Comes, CloseInv, Accepting
  <2>3. \A before \in SUBSET {"list", "listPF", "listFS"} : ~Ahead(c, before)
    BY Distinct DEF AtRest, Ahead, Looked
  <2>4. PortsClean(c) /\ MountsClean(c)
    BY <2>1, <2>2, <2>3 DEF ServeInv, Cleared, PortsCleared, MountsCleared
  <2>5. (\A i \in Ports : ~(pfLive[c][i] > 0)) /\ (\A i \in Mounts : ~(fsLive[c][i] > 0))
    BY <2>4 DEF PortsClean, MountsClean
  <2> QED BY <2>4, <2>5 DEF Clean, PortsClean, MountsClean, PF!SessionContainers, FS!SessionContainers
<1> QED BY <1>1, ServeInvHolds, PTL

(* Once all goroutines have finished, a container that runs has every        *)
(* forward and sync its create asked for, for any number of containers,      *)
(* connections and requests, while no container that exited is started again *)
(* (proxy.go, setupSessionsIfRunning; proxy-api-create.go).                  *)
THEOREM AllServed == Spec => [](NoneOf({"restarts"}) => RunningIsServed)
<1>1. Placed /\ TypeOK /\ CloseInv /\ SyncInv /\ ServeInv => (NoneOf({"restarts"}) => RunningIsServed)
  <2> SUFFICES ASSUME Placed, TypeOK, CloseInv, SyncInv, ServeInv, AtRest,
                      NoneOf({"restarts"}), NoneOf({"faults", "crashes"}),
                      Without({"startByName", "waitUnstarted", "early", "duringBoot"}),
                      DistinctNames, NEW c \in Containers, docker[c] = "running"
               PROVE  Served(c)
    BY DEF RunningIsServed
  <2>1. Serving
    <3>1. ~Faulty BY DEF NoneOf, Faulty
    <3> QED BY <3>1 DEF AtRest, Serving, Plain, NoneOf, Without
  <2>2. \A r \in Requests : ~PortsCome(r) /\ ~MountsCome(r)
    BY Distinct DEF AtRest, PortsCome, MountsCome
  <2> QED BY <2>1, <2>2 DEF ServeInv, Attended, Served
<1> QED BY <1>1, ServeInvHolds, PTL

-----------------------------------------------------------------------------
(* Who has taken a mutex is at a job of that manager.                        *)
HasHolder(job, setting, tearing) ==
  job.op # "idle" => \E t \in Threads : pc[t] \in {setting, tearing}

LEMMA HolderNext ==
  ASSUME Placed, TypeOK, Accepting, Scanning, Next,
         HasHolder(pfJob, "settingPF", "tearingPF"), HasHolder(fsJob, "settingFS", "tearingFS")
  PROVE  /\ HasHolder(pfJob, "settingPF", "tearingPF")'
         /\ HasHolder(fsJob, "settingFS", "tearingFS")'
<1> USE Distinct DEF HasHolder
<1>1. ASSUME NEW t \in Threads, ManagerStep(t)
      PROVE  /\ HasHolder(pfJob, "settingPF", "tearingPF")'
             /\ HasHolder(fsJob, "settingFS", "tearingFS")'
  <2>1. ManagerEffect(t) BY <1>1, ManagerOK
  <2>2. CASE SetupPFBegin(t) \/ TearPFBegin(t) \/ SetupFSBegin(t) \/ TearFSBegin(t)
    BY <2>1, <2>2 DEF SetupPFBegin, TearPFBegin, SetupFSBegin, TearFSBegin, Step, Placed,
       ManagerEffect, pfVars, fsVars
  <2>3. CASE SetupPFItem(t)
    BY <2>3 DEF SetupPFItem, fsVars
  <2>4. CASE SetupFSItem(t)
    BY <2>4 DEF SetupFSItem, pfVars
  <2>5. CASE SetupPFEnd(t) \/ TearPFEnd(t)
    BY <2>1, <2>5 DEF SetupPFEnd, TearPFEnd, PF!SetupEnd, PF!TeardownEnd, PF!Idle, Step,
       ManagerEffect, fsVars
  <2>6. CASE SetupFSEnd(t) \/ TearFSEnd(t)
    BY <2>1, <2>6 DEF SetupFSEnd, TearFSEnd, FS!SetupEnd, FS!TeardownEnd, FS!Idle, Step,
       ManagerEffect, pfVars
  <2> QED BY <1>1, <2>2, <2>3, <2>4, <2>5, <2>6 DEF ManagerStep
<1>2. ASSUME NEW r \in Requests, CreateStep(r) \/ OperationStep(r)
      PROVE  /\ HasHolder(pfJob, "settingPF", "tearingPF")'
             /\ HasHolder(fsJob, "settingFS", "tearingFS")'
  <2>1. RequestEffect(r) BY <1>2, RequestOK
  <2>2. \A t \in Threads : pc[t] \in Holding => pc'[t] = pc[t]
    BY <2>1 DEF RequestEffect, Others, Onward, Holding, Accepting
  <2> QED BY <2>1, <2>2 DEF RequestEffect, Others, Holding
<1>3. ASSUME NEW c \in Containers, ContainerExits(c)
      PROVE  UNCHANGED <<pfJob, fsJob>> /\ \A t \in Threads : pc[t] \in Holding => pc'[t] = pc[t]
  BY <1>3 DEF ContainerExits, Answered, managers, pfVars, fsVars, Holding
<1>4. CASE BootStep
  <2>1. UNCHANGED <<pfJob, fsJob>> BY <1>4, BootOK DEF BootEffect
  <2>2. \A t \in Threads : pc[t] \in Holding => pc'[t] = pc[t]
    BY <1>4 DEF BootStep, ScanStep, ListRunning, ListForwards, ListSyncs, Sweep, Spawn,
       ScanPorts, ScanMounts, Step, Placed, Scanning, Holding
  <2> QED BY <2>1, <2>2 DEF Holding
<1>5. CASE EndStep
  BY <1>5 DEF EndStep, CloseBegin, AcceptFails, Drained, Step, Placed, Accepting, managers,
     pfVars, fsVars
<1>6. CASE Ending
  BY <1>6 DEF Ending, Panic, InspectPanics, Dies, Exit, Crash, PF!Restart, FS!Restart,
     PF!Idle, FS!Idle
<1> QED BY <1>1, <1>2, <1>3, <1>4, <1>5, <1>6, Groups DEF Holding

Holders ==
  HasHolder(pfJob, "settingPF", "tearingPF") /\ HasHolder(fsJob, "settingFS", "tearingFS")

(* One thread, and no other, is at one of these labels.                      *)
JustOne(at) == \E t \in Threads : \A u \in Threads : pc[u] \in at <=> u = t

(* A manager's mutex that is taken is held by one thread, which is at its    *)
(* own job with that manager and so does not wait for the other's: the       *)
(* goroutines that take both in turn cannot wait for each other in a circle, *)
(* and neither a panic nor a crash leaves a mutex taken (m.mu in             *)
(* port-forward.go and file-sync.go).                                        *)
THEOREM MutexesHeld ==
  Spec => [](/\ pfJob # PF!Idle <=> JustOne({"settingPF", "tearingPF"})
             /\ fsJob # FS!Idle <=> JustOne({"settingFS", "tearingFS"}))
<1> DEFINE Held == /\ pfJob # PF!Idle <=> JustOne({"settingPF", "tearingPF"})
                   /\ fsJob # FS!Idle <=> JustOne({"settingFS", "tearingFS"})
<1>1. Init => Holders
  BY DEF Init, PF!Init, FS!Init, PF!Idle, FS!Idle, Holders, HasHolder
<1>2. Placed /\ TypeOK /\ CloseInv /\ SyncInv /\ Holders /\ [Next]_vars => Holders'
  <2>1. CASE Next
    BY <2>1, HolderNext DEF CloseInv, SyncInv, Holders
  <2>2. CASE UNCHANGED vars
    BY <2>2 DEF vars, scan, managers, pfVars, fsVars, Holders, HasHolder
  <2> QED BY <2>1, <2>2
<1>3. TypeOK /\ CloseInv /\ Holders => Held
  <2> SUFFICES ASSUME TypeOK, CloseInv, Holders PROVE Held
    OBVIOUS
  <2>1. pfJob # PF!Idle <=> pfJob.op # "idle"
    BY DEF TypeOK, PF!TypeOK, PF!Jobs, PF!Idle
  <2>2. fsJob # FS!Idle <=> fsJob.op # "idle"
    BY DEF TypeOK, FS!TypeOK, FS!Jobs, FS!Idle
  <2>3. pfJob # PF!Idle <=> JustOne({"settingPF", "tearingPF"})
    BY <2>1 DEF Holders, HasHolder, CloseInv, PortsHeld, Holds, OneHolder, JustOne
  <2>4. fsJob # FS!Idle <=> JustOne({"settingFS", "tearingFS"})
    BY <2>2 DEF Holders, HasHolder, CloseInv, MountsHeld, Holds, OneHolder, JustOne
  <2> QED BY <2>3, <2>4
<1> QED BY <1>1, <1>2, <1>3, ServeInvHolds, PTL DEF Spec
=============================================================================
