---------------------------- MODULE BridgeManager ----------------------------
(***************************************************************************)
(* One session manager of the Docker proxy: the PortForwardManager         *)
(* (mutagen-bridge/port-forward.go), whose items are port bindings, and,   *)
(* instantiated a second time, the FileSyncManager (file-sync.go), whose   *)
(* items are host paths.  Both are maps behind one mutex, held across the  *)
(* calls to mutagen's own session manager:                                 *)
(*                                                                         *)
(*   pending  m.containers: what a create request asked for, keyed by the  *)
(*            request until its answer arrives; {} where there is no entry *)
(*   stored   m.containerPorts / m.containerMounts, keyed by container     *)
(*   live     the sessions mutagen runs, counted by their container-id     *)
(*            label and item; they outlive the daemon                      *)
(*   job      the setup or teardown that holds m.mu between its mutagen    *)
(*            calls, Idle when the mutex is free                           *)
(*   stray    history: the containers whose sessions this daemon no longer *)
(*            has an entry for, left by a failed Terminate or a restart    *)
(*                                                                         *)
(* An entry is stored only when it has an item, so {} is "no entry".       *)
(***************************************************************************)
EXTENDS Naturals, FiniteSets

CONSTANTS
  Containers,   (* full container ids                                      *)
  Requests,     (* *http.Request pointers of create requests               *)
  Items,        (* what a session is created for: a binding, a host path   *)
  NoContainer,  (* the empty container id                                  *)
  MaxSessions   (* bound: sessions with one label and item                 *)

ASSUME NoContainerAssumption == NoContainer \notin Containers
ASSUME MaxSessionsAssumption == MaxSessions \in Nat \ {0}

VARIABLES pending, stored, live, job, stray

vars == <<pending, stored, live, job, stray>>

Idle == [op |-> "idle", on |-> {}, todo |-> {}]

Jobs == {Idle}
          \cup [op : {"setup"}, on : {{c} : c \in Containers}, todo : SUBSET Items]
          \cup [op : {"teardown"}, on : SUBSET Containers, todo : {{}}]

TypeOK ==
  /\ pending \in [Requests -> SUBSET Items]
  /\ stored \in [Containers -> SUBSET Items]
  /\ live \in [Containers -> [Items -> 0..MaxSessions]]
  /\ job \in Jobs
  /\ stray \in SUBSET Containers

Init ==
  /\ pending = [r \in Requests |-> {}]
  /\ stored = [c \in Containers |-> {}]
  /\ live = [c \in Containers |-> [i \in Items |-> 0]]
  /\ job = Idle
  /\ stray = {}

MuFree == job = Idle

-----------------------------------------------------------------------------
(* Recording what a container needs.                                         *)

(* StorePortBindingsStart: the entry of a create request about to be sent.   *)
StoreStart(r, items) ==
  /\ MuFree
  /\ pending[r] = {}
  /\ pending' = [pending EXCEPT ![r] = items]
  /\ UNCHANGED <<stored, live, job, stray>>

(* Variants of StorePortBindingsEnd the runs must reject: without the        *)
(* deletion, and without the lookup's ok.                                    *)
LeakyStoreEnd(r, c) ==
  /\ MuFree
  /\ stored' = IF c # NoContainer /\ pending[r] # {}
                 THEN [stored EXCEPT ![c] = pending[r]] ELSE stored
  /\ UNCHANGED <<pending, live, job, stray>>
UncheckedStoreEnd(r, c) ==
  /\ MuFree
  /\ stored' = IF c # NoContainer THEN [stored EXCEPT ![c] = pending[r]] ELSE stored
  /\ pending' = [pending EXCEPT ![r] = {}]
  /\ UNCHANGED <<live, job, stray>>

(* StorePortBindingsEnd: the create was answered, with NoContainer when it   *)
(* failed.  The entry moves to the container and the request is forgotten.   *)
StoreEnd(r, c) ==
  /\ MuFree
  /\ stored' = IF c # NoContainer /\ pending[r] # {}
                 THEN [stored EXCEPT ![c] = pending[r]] ELSE stored
  /\ pending' = [pending EXCEPT ![r] = {}]
  /\ UNCHANGED <<live, job, stray>>

(* A variant the runs must reject: it stores an empty entry.                 *)
UncheckedStoreForContainer(c, items) ==
  /\ MuFree
  /\ stored' = [stored EXCEPT ![c] = items]
  /\ UNCHANGED <<pending, live, job, stray>>

(* StorePortBindingsForContainer: the boot scan knows the container already. *)
StoreForContainer(c, items) ==
  /\ MuFree
  /\ stored' = IF items # {} THEN [stored EXCEPT ![c] = items] ELSE stored
  /\ UNCHANGED <<pending, live, job, stray>>

-----------------------------------------------------------------------------
(* Setting sessions up and tearing them down, with m.mu held throughout.     *)

(* SetupForwards takes the mutex and reads the container's entry.            *)
SetupBegin(c) ==
  /\ MuFree
  /\ job' = [op |-> "setup", on |-> {c}, todo |-> stored[c]]
  /\ UNCHANGED <<pending, stored, live, stray>>

(* A variant the runs must reject: it may try an item again.                 *)
RetryingSetupItem(i) ==
  /\ job.op = "setup"
  /\ i \in job.todo
  /\ \E c \in job.on :
       /\ live[c][i] < MaxSessions
       /\ live' = [live EXCEPT ![c][i] = @ + 1]
  /\ \E tried \in {{}, {i}} : job' = [job EXCEPT !.todo = @ \ tried]
  /\ UNCHANGED <<pending, stored, stray>>

(* setupSingleForward: mutagen creates the session of item i.                *)
SetupItem(i) ==
  /\ job.op = "setup"
  /\ i \in job.todo
  /\ \E c \in job.on :
       /\ live[c][i] < MaxSessions
       /\ live' = [live EXCEPT ![c][i] = @ + 1]
  /\ job' = [job EXCEPT !.todo = @ \ {i}]
  /\ UNCHANGED <<pending, stored, stray>>

(* The same call when mutagen refuses: logged, and the next item is tried.   *)
SetupItemFails(i) ==
  /\ job.op = "setup"
  /\ i \in job.todo
  /\ job' = [job EXCEPT !.todo = @ \ {i}]
  /\ UNCHANGED <<pending, stored, live, stray>>

(* A variant the runs must reject: the mutex stays taken.                    *)
LockedSetupEnd ==
  /\ job.op = "setup"
  /\ job.todo = {}
  /\ job' = [job EXCEPT !.op = "idle"]
  /\ UNCHANGED <<pending, stored, live, stray>>

(* Every item was tried: SetupForwards returns and unlocks.                  *)
SetupEnd ==
  /\ job.op = "setup"
  /\ job.todo = {}
  /\ job' = Idle
  /\ UNCHANGED <<pending, stored, live, stray>>

(* Variants the runs must reject: without the mutex, and without deleting    *)
(* the entry.                                                                *)
UnlockedTeardownBegin(cs) ==
  /\ stored' = [c \in Containers |-> IF c \in cs THEN {} ELSE stored[c]]
  /\ IF MuFree THEN job' = [op |-> "teardown", on |-> cs, todo |-> {}]
               ELSE UNCHANGED job
  /\ UNCHANGED <<pending, live, stray>>

KeepingTeardownBegin(cs) ==
  /\ MuFree
  /\ job' = [op |-> "teardown", on |-> cs, todo |-> {}]
  /\ UNCHANGED <<pending, stored, live, stray>>

(* TeardownForwards (cs = {c}) and TeardownAll (cs = Containers) take the    *)
(* mutex and delete the entries before they ask mutagen for anything.        *)
TeardownBegin(cs) ==
  /\ MuFree
  /\ stored' = [c \in Containers |-> IF c \in cs THEN {} ELSE stored[c]]
  /\ job' = [op |-> "teardown", on |-> cs, todo |-> {}]
  /\ UNCHANGED <<pending, live, stray>>

(* mutagen's Terminate by label.  An error is only logged: kept is the set   *)
(* of <<container, item>> pairs whose sessions it left running.              *)
TeardownEnd(kept) ==
  LET left(c, i) == IF c \in job.on /\ <<c, i>> \notin kept THEN 0 ELSE live[c][i]
  IN /\ job.op = "teardown"
     /\ live' = [c \in Containers |-> [i \in Items |-> left(c, i)]]
     /\ stray' = (stray \ job.on)
                   \cup {c \in job.on : \E i \in Items : left(c, i) > 0}
     /\ job' = Idle
     /\ UNCHANGED <<pending, stored>>

(* The containers mutagen runs a session for: the answer of ListSessions,    *)
(* which asks mutagen without taking m.mu.                                   *)
SessionContainers == {c \in Containers : \E i \in Items : live[c][i] > 0}

(* The daemon dies and a new one starts: the maps are empty again, mutagen   *)
(* reloads every session it had.                                             *)
Restart ==
  /\ pending' = [r \in Requests |-> {}]
  /\ stored' = [c \in Containers |-> {}]
  /\ job' = Idle
  /\ stray' = SessionContainers
  /\ UNCHANGED live

-----------------------------------------------------------------------------
Next ==
  \/ \E r \in Requests, items \in SUBSET Items : StoreStart(r, items)
  \/ \E r \in Requests, c \in Containers \cup {NoContainer} : StoreEnd(r, c)
  \/ \E c \in Containers, items \in SUBSET Items : StoreForContainer(c, items)
  \/ \E c \in Containers : SetupBegin(c)
  \/ \E i \in Items : SetupItem(i) \/ SetupItemFails(i)
  \/ SetupEnd
  \/ \E cs \in {{c} : c \in Containers} \cup {Containers} : TeardownBegin(cs)
  \/ \E kept \in SUBSET (Containers \X Items) : TeardownEnd(kept)
  \/ Restart

Spec == Init /\ [][Next]_vars

-----------------------------------------------------------------------------
(* The abstract view: a container is tracked while it has an entry, and      *)
(* closing while the teardown that deleted the entry holds the mutex.        *)
Phase ==
  [c \in Containers |->
     IF job.op = "teardown" /\ c \in job.on THEN "closing"
     ELSE IF stored[c] # {} THEN "tracked" ELSE "unknown"]

Ledger == INSTANCE SessionLedger WITH phase <- Phase, sessions <- live

(* Every step of the manager is one the ledger allows: no session is opened  *)
(* for a container without an entry, however Setup, Teardown, TeardownAll    *)
(* and a restart interleave, and an entry goes only with its sessions.       *)
ImplementsLedger == Ledger!Spec

(* The job that holds the mutex is the only one to touch its containers'     *)
(* entries: what a setup has left to create is still stored, and nothing is  *)
(* stored for a container being torn down until its sessions are gone.       *)
JobOwnsEntries ==
  \A c \in job.on :
    /\ job.op = "setup" => job.todo \subseteq stored[c]
    /\ job.op = "teardown" => stored[c] = {}

(* A container with sessions has an entry from which a later teardown finds  *)
(* them, unless its teardown is running now or it is known to be stray.  A   *)
(* setup that lost the race with a teardown must not leave sessions behind   *)
(* (TeardownForwards deletes the entry SetupForwards would need).            *)
SessionsTracked ==
  \A c \in Containers :
    (\E i \in Items : live[c][i] > 0)
      => \/ stored[c] # {}
         \/ job.op = "teardown" /\ c \in job.on
         \/ c \in stray
=============================================================================
