-------------------------------- MODULE HostExec --------------------------------
(***************************************************************************)
(* Calls of Connect from end to end: the two ts-tunnel protocol handlers   *)
(* (T, an instance of TunnelDial) dial through a tsctl host-exec process   *)
(* of each call (pkg/tsctl/host_exec.go), which sends its request to the   *)
(* guest (G, an instance of GuestRegistry), where a handler runs mutagen's *)
(* agent for it.  The handler, its process and its connection are named by *)
(* the call.                                                               *)
(***************************************************************************)
EXTENDS Naturals, FiniteSets

CONSTANTS
  Calls,  (* calls of Connect                                              *)
  Others  (* requests of other machines to the same guest                  *)

ASSUME OthersAssumption == Calls \cap Others = {}

VARIABLES
  call, dialer, stream, cancelled,                     (* of TunnelDial    *)
  pc, proc, conn, processes, connections, guest, victims, waiter,
                                                       (* of GuestRegistry *)
  exec  (* the host-exec process of each call: it connects, asks for the   *)
        (* command to be run, copies, left without an answer, has exited   *)

tunnelVars == <<call, dialer, stream, cancelled>>
guestVars == <<pc, proc, conn, processes, connections, guest, victims, waiter>>
vars == <<tunnelVars, guestVars, exec>>

T == INSTANCE TunnelDial WITH main <- call
G == INSTANCE GuestRegistry WITH Handlers <- Calls \cup Others, main <- guest

TypeOK ==
  /\ T!TypeOK /\ G!TypeOK
  /\ exec \in [Calls -> {"none", "connecting", "asking", "copying", "left", "exited"}]

Init == T!Init /\ G!Init /\ exec = [k \in Calls |-> "none"]

ExecStep(k, from, to) == exec[k] = from /\ exec' = [exec EXCEPT ![k] = to]

(* The process of k ends, whichever step it was at.  Its request may still   *)
(* be on its way.                                                            *)
ExecEnds(k) ==
  /\ exec[k] # "none"
  /\ exec' = [exec EXCEPT ![k] =
                IF @ \in {"asking", "left"} /\ pc[k] = "idle" THEN "left" ELSE "exited"]
  /\ UNCHANGED guestVars

-----------------------------------------------------------------------------
(* The tunnel's side.                                                        *)

(* A dial starts the process.                                                *)
Connect(k) ==
  /\ T!Connect(k)
  /\ exec' = IF dialer'[k] = "dialing" THEN [exec EXCEPT ![k] = "connecting"] ELSE exec
  /\ UNCHANGED guestVars

(* Steps of TunnelDial that concern no other part.                           *)
Cancel(k) == T!Cancel(k) /\ UNCHANGED <<guestVars, exec>>
Select(k) == (T!Deliver(k) \/ T!GiveUp(k)) /\ UNCHANGED <<guestVars, exec>>

(* The dial succeeds when the agent has answered the handshake, as one that  *)
(* the guest started does ...                                                *)
Dialed(k) ==
  /\ exec[k] = "copying" /\ proc[k] # "none"
  /\ T!Dialed(k) /\ stream'[k] = "open"
  /\ UNCHANGED <<guestVars, exec>>

(* A variant the runs must reject: the process is left to itself.            *)
UnkilledDialFails(k) ==
  /\ T!Dialed(k) /\ stream'[k] = "none"
  /\ UNCHANGED <<guestVars, exec>>

(* ... and else fails, when the process ended or the handshake did: mutagen  *)
(* does away with the process.                                               *)
DialFails(k) ==
  /\ T!Dialed(k) /\ stream'[k] = "none"
  /\ ExecEnds(k)

(* Closing a stream ends the process behind it: mutagen closes its input,    *)
(* and kills it when that is not enough.                                     *)
CloseStream(k) ==
  /\ T!Discard(k) \/ T!NewEndpoint(k)
  /\ IF stream[k] = "open" /\ stream'[k] = "closed"
     THEN ExecEnds(k) ELSE UNCHANGED <<guestVars, exec>>

-----------------------------------------------------------------------------
(* executeCommand, in the process of its own                                 *)

ExecConnects(k) ==
  /\ guest # "exited"
  /\ ExecStep(k, "connecting", "asking")
  /\ UNCHANGED <<tunnelVars, guestVars>>

(* It cannot connect, write or read, and calls os.Exit.                      *)
ExecFails(k) ==
  /\ exec[k] \in {"connecting", "asking"}
  /\ ExecEnds(k)
  /\ UNCHANGED tunnelVars

(* The guest takes the connection, though the process may have gone, or      *)
(* answers without switching protocols.                                      *)
Answer(k) ==
  /\ exec[k] \in {"asking", "left"} /\ pc[k] = "idle"
  /\ \/ /\ G!Hijack(k)
        /\ exec' = [exec EXCEPT ![k] = IF @ = "left" THEN "exited" ELSE @]
     \/ /\ guest # "exited"
        /\ exec' = [exec EXCEPT ![k] = "exited"]
        /\ UNCHANGED guestVars
  /\ UNCHANGED tunnelVars

(* The guest learns that the other end of a connection is closed.            *)
HangsUp(k) ==
  /\ exec[k] \in {"left", "exited"}
  /\ G!ClientGoes(k)
  /\ UNCHANGED <<tunnelVars, exec>>

Upgraded(k) ==
  /\ conn[k] # "none"
  /\ ExecStep(k, "asking", "copying")
  /\ UNCHANGED <<tunnelVars, guestVars>>

(* CopyWithSplitMerge returns: the guest has closed the connection and       *)
(* mutagen its end, or a write failed; or the process is killed.             *)
ExecReturns(k) ==
  /\ exec[k] = "copying"
  /\ ExecEnds(k)
  /\ UNCHANGED tunnelVars

(* The guest's side: handlers, processes, the shutdown, and other clients.   *)
GuestStep ==
  /\ \/ \E h \in Calls \cup Others :
          \/ G!HandlerStep(h) \/ G!Broken(h) \/ G!ProcessEnds(h)
          \/ G!WaiterReaps(h) \/ G!MapRace(h)
     \/ \E h \in Others : G!Hijack(h) \/ G!ClientGoes(h)
     \/ G!TerminateAll \/ G!MainStep
  /\ UNCHANGED <<tunnelVars, exec>>

-----------------------------------------------------------------------------
TunnelRuns(k) == Select(k) \/ Dialed(k) \/ DialFails(k) \/ CloseStream(k)
ExecRuns(k) ==
  ExecConnects(k) \/ ExecFails(k) \/ Answer(k) \/ HangsUp(k) \/ Upgraded(k)

Next ==
  \/ \E k \in Calls : \/ Connect(k) \/ Cancel(k) \/ TunnelRuns(k)
                      \/ ExecRuns(k) \/ ExecReturns(k)
  \/ GuestStep

Spec == Init /\ [][Next]_vars

(* As in TunnelDial and GuestRegistry; a process that connects or asks is    *)
(* answered or fails, and one that is gone is noticed.  Agents may run on    *)
(* though their clients are gone.                                            *)
FairSpec ==
  /\ Spec
  /\ \A k \in Calls : WF_vars(TunnelRuns(k)) /\ WF_vars(ExecRuns(k))
  /\ \A h \in Calls \cup Others :
       /\ WF_vars(G!HandlerStep(h) /\ UNCHANGED <<tunnelVars, exec>>)
       /\ WF_vars(G!WaiterReaps(h) /\ UNCHANGED <<tunnelVars, exec>>)
  /\ WF_vars(G!MainStep /\ UNCHANGED <<tunnelVars, exec>>)

-----------------------------------------------------------------------------
(* What is said of the two parts holds of them together: see there.          *)
StreamOwned == T!StreamOwned
CancelCleansUp == T!CancelCleansUp
VictimsEnd == G!VictimsEnd
ShutdownEnds == G!ShutdownEnds
HandlerEnds == G!HandlerEnds

(* A call that was cancelled lets go of the guest: unless it had become an   *)
(* endpoint, its process ends and the guest's connection is closed, wherever *)
(* the dial, the request and the handler were; also when the guest took the  *)
(* request of a process that was gone.                                       *)
CancelReachesGuest ==
  \A k \in Calls :
    k \in cancelled ~> \/ call[k] = "endpoint" \/ guest = "exited"
                       \/ exec[k] \in {"none", "exited"} /\ conn[k] # "open"
=============================================================================
