----------------------------- MODULE GuestRegistry -----------------------------
(***************************************************************************)
(* The guest agent (pkg/guest): handlers that run a command for a hijacked *)
(* connection and keep both in the process registry, and the shutdown,     *)
(* where TerminateAll holds the registry's mutex while it interrupts the   *)
(* processes, waits for them for five seconds at most, kills what is left  *)
(* and closes the connections, before the HTTP server is shut down.        *)
(***************************************************************************)
EXTENDS FiniteSets

CONSTANTS Handlers  (* requests to run a command; also their processes and *)
                    (* connections                                         *)

VARIABLES
  pc,           (* what each handler does next                             *)
  proc,         (* the process of each handler                             *)
  conn,         (* its connection                                          *)
  processes,    (* pr.processes                                            *)
  connections,  (* pr.connections                                          *)
  main,         (* the main goroutine                                      *)
  victims,      (* history: what was registered when TerminateAll began,   *)
                (* processes and connections                               *)
  waiter        (* what the goroutine of TerminateAll has to wait for, and *)
                (* whether it runs                                         *)

vars == <<pc, proc, conn, processes, connections, main, victims, waiter>>

TypeOK ==
  /\ pc \in [Handlers -> {"idle", "hijacked", "starting", "started", "copying",
                          "waiting", "removeProcess", "removeConnection", "done"}]
  /\ proc \in [Handlers -> {"none", "running", "dead"}]
  /\ conn \in [Handlers -> {"none", "open", "closed"}]
  /\ processes \subseteq Handlers /\ connections \subseteq Handlers
  /\ main \in {"serving", "interrupting", "waiting", "closing", "shutdown", "exited"}
  /\ victims \in [processes : SUBSET Handlers, connections : SUBSET Handlers]
  /\ waiter \in [todo : SUBSET Handlers, on : BOOLEAN]

Init ==
  /\ pc = [h \in Handlers |-> "idle"]
  /\ proc = [h \in Handlers |-> "none"]
  /\ conn = [h \in Handlers |-> "none"]
  /\ processes = {} /\ connections = {}
  /\ main = "serving"
  /\ victims = [processes |-> {}, connections |-> {}]
  /\ waiter = [todo |-> {}, on |-> FALSE]

(* TerminateAll keeps pr.mu from its first line to its last.                 *)
MuFree == main \notin {"interrupting", "waiting", "closing"}
Alive == main # "exited"

Step(h, from, to) == Alive /\ pc[h] = from /\ pc' = [pc EXCEPT ![h] = to]

-----------------------------------------------------------------------------
(* runCommand                                                                *)

(* The server accepts requests until it is shut down; the connection is      *)
(* taken from it.                                                            *)
Hijack(h) ==
  /\ Step(h, "idle", "hijacked")
  /\ conn' = [conn EXCEPT ![h] = "open"]
  /\ UNCHANGED <<proc, processes, connections, main, victims, waiter>>

(* The 101 response cannot be written.                                       *)
UpgradeFails(h) ==
  /\ Step(h, "hijacked", "done")
  /\ conn' = [conn EXCEPT ![h] = "closed"]
  /\ UNCHANGED <<proc, processes, connections, main, victims, waiter>>

AddConnection(h) ==
  /\ MuFree
  /\ Step(h, "hijacked", "starting")
  /\ connections' = connections \cup {h}
  /\ UNCHANGED <<proc, conn, processes, main, victims, waiter>>

(* cmd.Start, which may fail.                                                *)
StartCommand(h) ==
  /\ \/ Step(h, "starting", "started") /\ proc' = [proc EXCEPT ![h] = "running"]
     \/ Step(h, "starting", "removeConnection") /\ UNCHANGED proc
  /\ UNCHANGED <<conn, processes, connections, main, victims, waiter>>

AddProcess(h) ==
  /\ MuFree
  /\ Step(h, "started", "copying")
  /\ processes' = processes \cup {h}
  /\ UNCHANGED <<proc, conn, connections, main, victims, waiter>>

(* CopyWithSplitMerge returns once the process and the connection have ended.*)
CopyReturns(h) ==
  /\ Step(h, "copying", "waiting")
  /\ proc[h] = "dead" /\ conn[h] = "closed"
  /\ UNCHANGED <<proc, conn, processes, connections, main, victims, waiter>>

(* It may return earlier, when each copier meets the end that is gone: in    *)
(* one direction it reads from it, in the other it writes to it.             *)
CopyBreaks(h) ==
  /\ Step(h, "copying", "waiting")
  /\ proc[h] = "dead" \/ conn[h] = "closed"
  /\ conn' = [conn EXCEPT ![h] = "closed"]
  /\ UNCHANGED <<proc, processes, connections, main, victims, waiter>>

(* A variant the runs must reject: the connection is not given back.         *)
StuckRemoveProcess(h) ==
  /\ MuFree
  /\ Step(h, "removeProcess", "done")
  /\ processes' = processes \ {h}
  /\ UNCHANGED <<proc, conn, connections, main, victims, waiter>>

(* cmd.Wait, which fails if the waiter was first, and the deferred calls.    *)
CommandWaited(h) ==
  /\ Step(h, "waiting", "removeProcess")
  /\ proc[h] = "dead"
  /\ UNCHANGED <<proc, conn, processes, connections, main, victims, waiter>>

RemoveProcess(h) ==
  /\ MuFree
  /\ Step(h, "removeProcess", "removeConnection")
  /\ processes' = processes \ {h}
  /\ UNCHANGED <<proc, conn, connections, main, victims, waiter>>

RemoveConnection(h) ==
  /\ MuFree
  /\ Step(h, "removeConnection", "done")
  /\ connections' = connections \ {h}
  /\ conn' = [conn EXCEPT ![h] = "closed"]
  /\ UNCHANGED <<proc, processes, main, victims, waiter>>

-----------------------------------------------------------------------------
(* The outside: a process ends, of itself or on SIGINT; a client goes.       *)

ProcessEnds(h) ==
  /\ proc[h] = "running"
  /\ proc' = [proc EXCEPT ![h] = "dead"]
  /\ UNCHANGED <<pc, conn, processes, connections, main, victims, waiter>>

ClientGoes(h) ==
  /\ conn[h] = "open" /\ Alive
  /\ conn' = [conn EXCEPT ![h] = "closed"]
  /\ UNCHANGED <<pc, proc, processes, connections, main, victims, waiter>>

-----------------------------------------------------------------------------
(* RunServerWithConfig after the signal                                      *)

(* TerminateAll takes the mutex.                                             *)
TerminateAll ==
  /\ main = "serving"
  /\ main' = "interrupting"
  /\ victims' = [processes |-> processes, connections |-> connections]
  /\ UNCHANGED <<pc, proc, conn, processes, connections, waiter>>

(* SIGINT to each (what it does to them is ProcessEnds), then the goroutine  *)
(* that waits for all of them is started.                                    *)
Interrupt ==
  /\ main = "interrupting"
  /\ main' = "waiting"
  /\ waiter' = [todo |-> processes, on |-> TRUE]
  /\ UNCHANGED <<pc, proc, conn, processes, connections, victims>>

(* p.Wait returns; when all have, waitCh is closed.                          *)
WaiterReaps(h) ==
  /\ Alive /\ waiter.on
  /\ h \in waiter.todo /\ proc[h] = "dead"
  /\ waiter' = [waiter EXCEPT !.todo = @ \ {h}]
  /\ UNCHANGED <<pc, proc, conn, processes, connections, main, victims>>

AllTerminated ==
  /\ main = "waiting" /\ waiter.todo = {}
  /\ main' = "closing"
  /\ waiter' = [waiter EXCEPT !.on = FALSE]
  /\ UNCHANGED <<pc, proc, conn, processes, connections, victims>>

(* A variant the runs must reject: the deadline kills nobody.                *)
LenientTimeout ==
  /\ main = "waiting" /\ waiter.todo # {}
  /\ main' = "closing"
  /\ UNCHANGED <<pc, proc, conn, processes, connections, victims, waiter>>

(* A variant the runs must reject: it waits as long as it takes.             *)
PatientTimeout ==
  /\ main = "waiting" /\ waiter.todo # {}
  /\ \A h \in processes : proc[h] = "dead"
  /\ main' = "closing"
  /\ UNCHANGED <<pc, proc, conn, processes, connections, victims, waiter>>

(* Five seconds are over: what is registered is killed; the goroutine stays. *)
Timeout ==
  /\ main = "waiting" /\ waiter.todo # {}
  /\ main' = "closing"
  /\ proc' = [h \in Handlers |-> IF h \in processes THEN "dead" ELSE proc[h]]
  /\ UNCHANGED <<pc, conn, processes, connections, victims, waiter>>

(* Every registered connection is closed, and the mutex released.            *)
CloseConnections ==
  /\ main = "closing"
  /\ main' = "shutdown"
  /\ conn' = [h \in Handlers |-> IF h \in connections THEN "closed" ELSE conn[h]]
  /\ UNCHANGED <<pc, proc, processes, connections, victims, waiter>>

(* The guest's process ends, and its handlers with it.                       *)
Ends ==
  /\ main' = "exited"
  /\ conn' = [h \in Handlers |-> IF conn[h] = "open" THEN "closed" ELSE conn[h]]
  /\ UNCHANGED <<pc, proc, processes, connections, victims, waiter>>

(* server.Shutdown does not know hijacked connections and does not wait for  *)
(* their handlers.                                                           *)
Shutdown == main = "shutdown" /\ Ends

(* After the timeout the waiter goroutine still ranges over pr.processes     *)
(* when the mutex is free and handlers write to the map: the Go runtime may  *)
(* notice, and then ends the process.                                        *)
MapRace(h) ==
  /\ main = "shutdown"
  /\ waiter.on /\ waiter.todo # {} /\ pc[h] \in {"started", "removeProcess"}
  /\ Ends

-----------------------------------------------------------------------------
HandlerStep(h) ==
  \/ AddConnection(h) \/ StartCommand(h) \/ AddProcess(h) \/ CopyReturns(h)
  \/ CommandWaited(h) \/ RemoveProcess(h) \/ RemoveConnection(h)
Broken(h) == UpgradeFails(h) \/ CopyBreaks(h)
MainStep == Interrupt \/ AllTerminated \/ Timeout \/ CloseConnections \/ Shutdown

Next ==
  \/ \E h \in Handlers : \/ Hijack(h) \/ HandlerStep(h) \/ Broken(h) \/ ProcessEnds(h)
                         \/ ClientGoes(h) \/ WaiterReaps(h) \/ MapRace(h)
  \/ TerminateAll \/ MainStep

Spec == Init /\ [][Next]_vars

(* Handlers, the waiter and the main goroutine run, and the timer fires.     *)
(* Processes may ignore SIGINT and clients may stay.                         *)
FairSpec ==
  /\ Spec
  /\ \A h \in Handlers : WF_vars(HandlerStep(h)) /\ WF_vars(WaiterReaps(h))
  /\ WF_vars(MainStep)

-----------------------------------------------------------------------------
(* When TerminateAll gives the registry back, every process that was in it   *)
(* has ended and every connection is closed, though processes ignored SIGINT *)
(* and handlers were starting all the while.                                 *)
VictimsEnd ==
  main \in {"shutdown", "exited"}
    => /\ \A h \in victims.processes : proc[h] = "dead"
       /\ \A h \in victims.connections : conn[h] = "closed"

(* The shutdown comes to its end, with processes that ignore SIGINT and      *)
(* handlers that queue for the mutex it holds.                               *)
ShutdownEnds == main # "serving" ~> main = "exited"

(* A handler whose process has ended and whose client has gone gives its     *)
(* entries back, or the guest has ended.                                     *)
HandlerEnds ==
  \A h \in Handlers :
    pc[h] \notin {"idle", "done"} /\ proc[h] = "dead" /\ conn[h] = "closed"
      ~> (pc[h] = "done" /\ h \notin processes \cup connections) \/ main = "exited"
=============================================================================
