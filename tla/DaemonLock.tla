------------------------------ MODULE DaemonLock ------------------------------
(***************************************************************************)
(* tsctl start and tsctl stop (pkg/daemon/lock.go, pkg/tsctl/start.go and  *)
(* stop.go): one daemon at a time holds an advisory lock on daemon.pid and *)
(* keeps its pid in that file; stop reads the pid and writes it to the     *)
(* terminate file, whose directory the daemon watches.                     *)
(*                                                                         *)
(* A daemon is identified with its pid.  The content of a file is the      *)
(* sequence of pids written to it; the locker opens daemon.pid for         *)
(* appending, so what a dead daemon left stays in front of what the next   *)
(* one writes, and the digits of several pids read as none of them.        *)
(***************************************************************************)
EXTENDS Naturals, Sequences, FiniteSets

CONSTANTS
  Daemons,  (* runs of tsctl start, by pid                                 *)
  Stops,    (* runs of tsctl stop                                          *)
  None,     (* no holder; no file                                          *)
  Allowed   (* "crash": daemons may be killed; "early": a stop may come    *)
            (* while the daemon is starting                                *)

ASSUME NoneAssumption == None \notin Daemons /\ None \notin Seq(Daemons)
ASSUME AllowedAssumption == Allowed \subseteq {"crash", "early"}

VARIABLES
  dpc,       (* where the main goroutine of each daemon is                 *)
  holder,    (* who holds the lock on daemon.pid                           *)
  pidFile,   (* the content of daemon.pid                                  *)
  termFile,  (* the content of the terminate file, None without one        *)
  watch,     (* the goroutine of watchTerminationSignal: an event is       *)
             (* queued, the file named this daemon, it has told it         *)
  spc,       (* where each stop is                                         *)
  read,      (* what it read in daemon.pid                                 *)
  linked,    (* its descriptor is on the file that has the terminate name  *)
  target     (* history: the holder when it read                           *)

daemonVars == <<dpc, holder, pidFile>>
stopVars == <<spc, read, target>>
vars == <<daemonVars, termFile, watch, stopVars, linked>>

Starting == {"locked", "named"}
Holding == Starting \cup {"serving", "closing", "truncating", "unlocking"}

TypeOK ==
  /\ dpc \in [Daemons -> {"new", "refused", "gone"} \cup Holding]
  /\ holder \in Daemons \cup {None}
  /\ pidFile \in Seq(Daemons)
  /\ termFile \in Seq(Daemons) \cup {None}
  /\ watch \in [Daemons -> {"off", "quiet", "event", "named", "told"}]
  /\ spc \in [Stops -> {"new", "read", "opened", "sent", "failed"}]
  /\ read \in [Stops -> Seq(Daemons)]
  /\ linked \in [Stops -> BOOLEAN]
  /\ target \in [Stops -> Daemons \cup {None}]

Init ==
  /\ dpc = [d \in Daemons |-> "new"]
  /\ holder = None /\ pidFile = <<>> /\ termFile = None
  /\ watch = [d \in Daemons |-> "off"]
  /\ spc = [s \in Stops |-> "new"]
  /\ read = [s \in Stops |-> <<>>]
  /\ linked = [s \in Stops |-> FALSE]
  /\ target = [s \in Stops |-> None]

DaemonStep(d, from, to) == dpc[d] = from /\ dpc' = [dpc EXCEPT ![d] = to]

-----------------------------------------------------------------------------
(* tsctl start                                                               *)

(* A variant the runs must reject: the error of locker.Lock is ignored.      *)
UnlockedAcquire(d) ==
  /\ DaemonStep(d, "new", "locked")
  /\ holder' = d
  /\ UNCHANGED <<pidFile, termFile, watch, stopVars, linked>>

(* AcquireLock takes the lock or fails, and the command with it.             *)
Acquire(d) ==
  /\ holder = None
  /\ DaemonStep(d, "new", "locked")
  /\ holder' = d
  /\ UNCHANGED <<pidFile, termFile, watch, stopVars, linked>>

Refused(d) ==
  /\ holder # None
  /\ DaemonStep(d, "new", "refused")
  /\ UNCHANGED <<holder, pidFile, termFile, watch, stopVars, linked>>

(* The pid is appended, without truncating the file first.                   *)
WritePid(d) ==
  /\ DaemonStep(d, "locked", "named")
  /\ pidFile' = Append(pidFile, d)
  /\ UNCHANGED <<holder, termFile, watch, stopVars, linked>>

(* watchTerminationSignal: events are queued from now on.                    *)
Watch(d) ==
  /\ DaemonStep(d, "named", "serving")
  /\ watch' = [watch EXCEPT ![d] = "quiet"]
  /\ UNCHANGED <<holder, pidFile, termFile, stopVars, linked>>

(* The rest of RunE fails, a signal arrives or the server reports an error.  *)
EndsByItself(d) ==
  /\ \E from \in {"named", "serving"} : DaemonStep(d, from, "truncating")
  /\ UNCHANGED <<holder, pidFile, termFile, watch, stopVars, linked>>

(* A variant the runs must reject: whoever the file names.                   *)
UnmatchedReadTerminate(d) ==
  /\ watch[d] = "event" /\ dpc[d] # "gone"
  /\ watch' = [watch EXCEPT ![d] = IF termFile # None THEN "named" ELSE "quiet"]
  /\ UNCHANGED <<daemonVars, termFile, stopVars, linked>>

(* The watcher goroutine reads the terminate file at an event for it.        *)
ReadTerminate(d) ==
  /\ watch[d] = "event" /\ dpc[d] # "gone"
  /\ watch' = [watch EXCEPT ![d] = IF termFile = <<d>> THEN "named" ELSE "quiet"]
  /\ UNCHANGED <<daemonVars, termFile, stopVars, linked>>

(* A match: it removes the file and tells the main goroutine.                *)
RemoveTerminate(d) ==
  /\ watch[d] = "named" /\ dpc[d] # "gone"
  /\ watch' = [watch EXCEPT ![d] = "told"]
  /\ termFile' = None
  /\ linked' = [s \in Stops |-> FALSE]
  /\ UNCHANGED <<daemonVars, stopVars>>

(* The select in RunE takes it, and closes the proxy.                        *)
Told(d) ==
  /\ watch[d] = "told"
  /\ DaemonStep(d, "serving", "closing")
  /\ UNCHANGED <<holder, pidFile, termFile, watch, stopVars, linked>>

Closed(d) ==
  /\ DaemonStep(d, "closing", "truncating")
  /\ UNCHANGED <<holder, pidFile, termFile, watch, stopVars, linked>>

(* Release empties the file while it still has the lock ...                  *)
Truncate(d) ==
  /\ DaemonStep(d, "truncating", "unlocking")
  /\ pidFile' = <<>>
  /\ UNCHANGED <<holder, termFile, watch, stopVars, linked>>

(* ... and gives it up; the process ends.                                    *)
Unlock(d) ==
  /\ DaemonStep(d, "unlocking", "gone")
  /\ holder' = None
  /\ UNCHANGED <<pidFile, termFile, watch, stopVars, linked>>

(* The process is killed: the lock goes with it, the content stays.          *)
Crash(d) ==
  /\ "crash" \in Allowed
  /\ dpc[d] \in Holding
  /\ dpc' = [dpc EXCEPT ![d] = "gone"]
  /\ holder' = None
  /\ UNCHANGED <<pidFile, termFile, watch, stopVars, linked>>

-----------------------------------------------------------------------------
(* tsctl stop                                                                *)

(* It reads the pid; an empty file is "invalid pid".                         *)
ReadPid(s) ==
  /\ spc[s] = "new"
  /\ "early" \in Allowed \/ \A d \in Daemons : dpc[d] \notin Starting
  /\ read' = [read EXCEPT ![s] = pidFile]
  /\ target' = [target EXCEPT ![s] = holder]
  /\ spc' = [spc EXCEPT ![s] = IF pidFile = <<>> THEN "failed" ELSE "read"]
  /\ UNCHANGED <<daemonVars, termFile, watch, linked>>

(* An event for the terminate file reaches every watcher.                    *)
Notified ==
  [d \in Daemons |-> IF watch[d] = "quiet" THEN "event" ELSE watch[d]]

(* A variant the runs must reject: only a new file raises an event.          *)
QuietWriteTerminate(s) ==
  /\ spc[s] = "opened"
  /\ spc' = [spc EXCEPT ![s] = "sent"]
  /\ termFile' = IF linked[s] THEN read[s] ELSE termFile
  /\ UNCHANGED <<daemonVars, watch, read, target, linked>>

(* os.WriteFile creates or truncates the terminate file ...                  *)
OpenTerminate(s) ==
  /\ spc[s] = "read"
  /\ spc' = [spc EXCEPT ![s] = "opened"]
  /\ termFile' = <<>>
  /\ linked' = [linked EXCEPT ![s] = TRUE]
  /\ watch' = Notified
  /\ UNCHANGED <<daemonVars, read, target>>

(* ... and writes what it read, which is lost if the file was removed.       *)
WriteTerminate(s) ==
  /\ spc[s] = "opened"
  /\ spc' = [spc EXCEPT ![s] = "sent"]
  /\ IF linked[s] THEN termFile' = read[s] /\ watch' = Notified
                  ELSE UNCHANGED <<termFile, watch>>
  /\ UNCHANGED <<daemonVars, read, target, linked>>

-----------------------------------------------------------------------------
Runs(d) ==
  \/ WritePid(d) \/ Watch(d) \/ ReadTerminate(d) \/ RemoveTerminate(d)
  \/ Told(d) \/ Closed(d) \/ Truncate(d) \/ Unlock(d)

Next ==
  \/ \E d \in Daemons : \/ Acquire(d) \/ Refused(d) \/ Runs(d)
                        \/ EndsByItself(d) \/ Crash(d)
  \/ \E s \in Stops : ReadPid(s) \/ OpenTerminate(s) \/ WriteTerminate(s)

Spec == Init /\ [][Next]_vars

(* The goroutines of a daemon run and its proxy closes, and a stop that has  *)
(* opened the file writes it; nobody has to start or stop anything.          *)
FairSpec ==
  /\ Spec
  /\ \A d \in Daemons : /\ WF_vars(WritePid(d)) /\ WF_vars(Watch(d))
                        /\ WF_vars(ReadTerminate(d) \/ RemoveTerminate(d))
                        /\ WF_vars(Told(d) \/ Closed(d) \/ Truncate(d) \/ Unlock(d))
  /\ \A s \in Stops : WF_vars(WriteTerminate(s))

-----------------------------------------------------------------------------
(* The last pid in the file of a daemon that serves is its own: a            *)
(* predecessor that is still releasing the lock does not erase it, and one   *)
(* that died without releasing it does not hide it.                          *)
ServingIsNamed ==
  \A d \in Daemons :
    dpc[d] \in {"named", "serving", "closing", "truncating"}
      => /\ holder = d
         /\ pidFile # <<>> /\ pidFile[Len(pidFile)] = d

(* A daemon is told to end only by a stop that read its pid, and nobody      *)
(* else's: stops meant for its predecessors, whatever they still write, and  *)
(* files they left behind do not end it.                                     *)
ToldByName ==
  \A d \in Daemons :
    watch[d] \in {"named", "told"} => \E s \in Stops : read[s] = <<d>>

(* A stop that read the pid of a daemon and nothing else, and opens the      *)
(* terminate file once the daemon watches for it, ends that daemon, unless   *)
(* another stop is between its open and its write then or later: whether the *)
(* watcher reads the file before, between or after the two steps of the      *)
(* write, and whatever earlier stops, sent too soon or to another daemon,    *)
(* left in the file.                                                         *)
StopEndsDaemon ==
  \A s \in Stops, d \in Daemons :
    spc[s] = "opened" /\ read[s] = <<d>> /\ watch[d] # "off"
      ~> dpc[d] = "gone" \/ \E o \in Stops \ {s} : spc[o] = "opened"
=============================================================================
