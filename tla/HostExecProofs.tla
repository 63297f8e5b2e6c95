---------------------------- MODULE HostExecProofs ----------------------------
(***************************************************************************)
(* Theorems about the whole of HostExec, for any number of calls and other *)
(* clients.  The composition drives the tunnel and the guest as TunnelDial *)
(* and GuestRegistry allow, so that what holds of the parts by their own   *)
(* steps holds of the whole:                                               *)
(*                                                                         *)
(*   - StreamOwned is inductive with the type of the tunnel's state;       *)
(*   - VictimsEnd rests on the registry's mutex: from the first line of    *)
(*     TerminateAll to its last the registry is what it was, so that what  *)
(*     the waiter and the timeout see, and what is closed, is what was     *)
(*     there; and a handler that has registered something never starts     *)
(*     another.                                                            *)
(***************************************************************************)
EXTENDS HostExec, TLAPS


(* No stream is open before the first call.                                 *)
LEMMA InitOwned == T!Init => T!TypeOK /\ T!StreamOwned
BY DEF T!Init, T!TypeOK, T!StreamOwned, T!Returned

(* What a step of one call does to a call: the functions change at k alone.  *)
LEMMA ConnectOwned ==
  ASSUME T!TypeOK, T!StreamOwned, NEW k \in Calls, T!Connect(k)
  PROVE  T!TypeOK' /\ T!StreamOwned'
<1>1. T!TypeOK'
  BY DEF T!TypeOK, T!Connect, T!MainStep, T!DialerStep, T!Returned
<1>2. T!StreamOwned'
  BY DEF T!TypeOK, T!StreamOwned, T!Connect, T!MainStep, T!DialerStep, T!Returned
<1> QED BY <1>1, <1>2

(* The goroutine gives a stream away only to a Connect that takes it.        *)
LEMMA DialerOwned ==
  ASSUME T!TypeOK, T!StreamOwned, NEW k \in Calls, T!Dialed(k) \/ T!Deliver(k) \/ T!Discard(k)
  PROVE  T!TypeOK' /\ T!StreamOwned'
<1>1. CASE T!Dialed(k)
  <2>1. T!TypeOK' BY <1>1 DEF T!TypeOK, T!Dialed, T!DialerStep
  <2>2. T!StreamOwned' BY <1>1 DEF T!TypeOK, T!StreamOwned, T!Dialed, T!DialerStep
  <2> QED BY <2>1, <2>2
<1>2. CASE T!Deliver(k)
  <2>1. T!TypeOK' BY <1>2 DEF T!TypeOK, T!Deliver, T!MainStep, T!DialerStep, T!Returned
  <2>2. T!StreamOwned' BY <1>2 DEF T!TypeOK, T!StreamOwned, T!Deliver, T!MainStep, T!DialerStep
  <2> QED BY <2>1, <2>2
<1>3. CASE T!Discard(k)
  <2>1. T!TypeOK' BY <1>3 DEF T!TypeOK, T!Discard, T!DialerStep
  <2>2. stream'[k] # "open" BY <1>3 DEF T!TypeOK, T!Discard, T!DialerStep
  <2>3. \A c \in Calls \ {k} : /\ stream'[c] = stream[c] /\ dialer'[c] = dialer[c]
                               /\ call'[c] = call[c]
    BY <1>3 DEF T!TypeOK, T!Discard, T!DialerStep
  <2>4. T!StreamOwned' BY <2>2, <2>3 DEF T!StreamOwned
  <2> QED BY <2>1, <2>4
<1> QED BY <1>1, <1>2, <1>3

(* Connect takes a stream over, and the endpoint keeps it or closes it.      *)
LEMMA MainOwned ==
  ASSUME T!TypeOK, T!StreamOwned, NEW k \in Calls, T!Cancel(k) \/ T!GiveUp(k) \/ T!NewEndpoint(k)
  PROVE  T!TypeOK' /\ T!StreamOwned'
<1>1. CASE T!Cancel(k)
  BY <1>1 DEF T!TypeOK, T!StreamOwned, T!Cancel
<1>2. CASE T!GiveUp(k)
  BY <1>2 DEF T!TypeOK, T!StreamOwned, T!GiveUp, T!MainStep, T!Returned
<1>3. CASE T!NewEndpoint(k)
  <2>1. T!TypeOK' BY <1>3 DEF T!TypeOK, T!NewEndpoint, T!MainStep, T!Returned
  <2>2. T!StreamOwned' BY <1>3 DEF T!TypeOK, T!StreamOwned, T!NewEndpoint, T!MainStep
  <2> QED BY <2>1, <2>2
<1> QED BY <1>1, <1>2, <1>3

-----------------------------------------------------------------------------
(* Who is or was registered is past the step that made what it registered.   *)
Started(h) ==
  /\ h \in processes \cup victims.processes
       => pc[h] \notin {"idle", "hijacked", "starting"}
  /\ h \in connections \cup victims.connections
       => pc[h] \notin {"idle", "hijacked"}

(* How far TerminateAll has come.                                            *)
Progress ==
  /\ ~G!MuFree => victims = [processes |-> processes, connections |-> connections]
  /\ guest = "waiting" => \A h \in processes \ waiter.todo : proc[h] = "dead"
  /\ guest = "closing" => \A h \in processes : proc[h] = "dead"

GuestInv == G!TypeOK /\ Progress /\ G!VictimsEnd /\ \A h \in Calls \cup Others : Started(h)

-----------------------------------------------------------------------------
(* Nothing is registered before the first request.                           *)
LEMMA GuestInitOK == G!Init => GuestInv
BY DEF G!Init, GuestInv, G!TypeOK, Progress, G!VictimsEnd, Started, G!MuFree

(* A new handler was never registered, so it is no victim.                   *)
LEMMA HijackOK == ASSUME GuestInv, NEW k \in Calls \cup Others, G!Hijack(k) PROVE GuestInv'
<1>1. /\ pc[k] = "idle"
      /\ UNCHANGED <<proc, processes, connections, guest, victims, waiter>>
  BY DEF G!Hijack, G!Step
<1>2. G!TypeOK' BY DEF GuestInv, G!TypeOK, G!Hijack, G!Step
<1>3. Progress' BY <1>1 DEF GuestInv, Progress, G!MuFree
<1>4. k \notin processes \cup victims.processes \cup connections \cup victims.connections
  BY <1>1 DEF GuestInv, Started
<1>5. \A h \in (Calls \cup Others) \ {k} : pc'[h] = pc[h] /\ conn'[h] = conn[h]
  BY DEF GuestInv, G!TypeOK, G!Hijack, G!Step
<1>6. G!VictimsEnd' BY <1>1, <1>4, <1>5 DEF GuestInv, G!VictimsEnd, G!TypeOK
<1>7. \A h \in Calls \cup Others : Started(h)' BY <1>1, <1>4, <1>5 DEF GuestInv, Started
<1> QED BY <1>2, <1>3, <1>6, <1>7 DEF GuestInv

(* The handler's own steps.  Those that touch the registry need the mutex,   *)
(* and none starts a process after it has registered one.                    *)
LEMMA HandlerOK ==
  ASSUME GuestInv, NEW k \in Calls \cup Others, G!HandlerStep(k) \/ G!Broken(k) PROVE GuestInv'
<1> USE DEF G!HandlerStep, G!Broken, G!Step, G!AddConnection, G!StartCommand, G!AddProcess,
            G!CopyReturns, G!CommandWaited, G!RemoveProcess, G!RemoveConnection,
            G!UpgradeFails, G!CopyBreaks
<1>1. G!TypeOK' BY DEF GuestInv, G!TypeOK
<1>2. UNCHANGED <<guest, victims, waiter>> OBVIOUS
<1>3. ~G!MuFree => UNCHANGED <<processes, connections>> OBVIOUS
<1>4. pc[k] # "idle" /\ pc'[k] # "idle" BY DEF GuestInv, G!TypeOK
<1>5. \A h \in Calls \cup Others : proc[h] = "dead" /\ pc[h] # "starting" => proc'[h] = "dead"
  BY DEF GuestInv, G!TypeOK
<1>6. \A h \in Calls \cup Others : conn[h] = "closed" => conn'[h] = "closed"
  BY DEF GuestInv, G!TypeOK
<1>7. Progress'
  <2>1. \A h \in processes : h \in Calls \cup Others /\ pc[h] # "starting"
    BY DEF GuestInv, G!TypeOK, Started
  <2> QED BY <1>2, <1>3, <1>5, <2>1 DEF GuestInv, Progress, G!MuFree
<1>8. G!VictimsEnd'
  <2>1. \A h \in victims.processes : h \in Calls \cup Others /\ pc[h] # "starting"
    BY DEF GuestInv, G!TypeOK, Started
  <2>2. \A h \in victims.connections : h \in Calls \cup Others
    BY DEF GuestInv, G!TypeOK
  <2> QED BY <1>2, <1>5, <1>6, <2>1, <2>2 DEF GuestInv, G!VictimsEnd
<1>9. ASSUME NEW h \in Calls \cup Others PROVE Started(h)'
  <2>1. CASE h # k
    BY <1>2, <2>1 DEF GuestInv, G!TypeOK, Started
  <2>2. CASE h = k
    BY <1>2, <2>2 DEF GuestInv, G!TypeOK, Started
  <2> QED BY <2>1, <2>2
<1> QED BY <1>1, <1>7, <1>8, <1>9 DEF GuestInv

(* What is dead or closed stays so, whoever ends it.                         *)
LEMMA OutsideOK ==
  ASSUME GuestInv, NEW k \in Calls \cup Others, G!ProcessEnds(k) \/ G!ClientGoes(k) \/ G!WaiterReaps(k)
  PROVE  GuestInv'
<1> USE DEF G!ProcessEnds, G!ClientGoes, G!WaiterReaps
<1>1. G!TypeOK' BY DEF GuestInv, G!TypeOK
<1>2. UNCHANGED <<pc, guest, victims, processes, connections>> OBVIOUS
<1>3. \A h \in Calls \cup Others : /\ proc[h] = "dead" => proc'[h] = "dead"
                          /\ conn[h] = "closed" => conn'[h] = "closed"
  BY DEF GuestInv, G!TypeOK
<1>4. \A h \in Calls \cup Others : h \in waiter.todo \ waiter'.todo => proc[h] = "dead"
  BY DEF GuestInv, G!TypeOK
<1>5. Progress' BY <1>2, <1>3, <1>4 DEF GuestInv, Progress, G!MuFree, G!TypeOK
<1>6. G!VictimsEnd' BY <1>2, <1>3 DEF GuestInv, G!VictimsEnd, G!TypeOK
<1>7. \A h \in Calls \cup Others : Started(h)' BY <1>2 DEF GuestInv, Started
<1> QED BY <1>1, <1>5, <1>6, <1>7 DEF GuestInv

(* The phases of the shutdown: each leaves done what the next relies on.     *)
LEMMA MainOK ==
  ASSUME GuestInv, G!TerminateAll \/ G!MainStep \/ \E h \in Calls \cup Others : G!MapRace(h) PROVE GuestInv'
<1> USE DEF G!MainStep
<1>1. CASE G!TerminateAll
  <2> USE <1>1 DEF G!TerminateAll
  <2>1. G!TypeOK' BY DEF GuestInv, G!TypeOK
  <2>2. Progress' /\ G!VictimsEnd' BY DEF Progress, G!VictimsEnd, G!MuFree
  <2>3. \A h \in Calls \cup Others : Started(h)' BY DEF GuestInv, Started
  <2> QED BY <2>1, <2>2, <2>3 DEF GuestInv
<1>2. CASE G!Interrupt
  <2> USE <1>2 DEF G!Interrupt
  <2>1. G!TypeOK' BY DEF GuestInv, G!TypeOK
  <2>2. Progress' /\ G!VictimsEnd' BY DEF GuestInv, G!TypeOK, Progress, G!VictimsEnd, G!MuFree
  <2>3. \A h \in Calls \cup Others : Started(h)' BY DEF GuestInv, Started
  <2> QED BY <2>1, <2>2, <2>3 DEF GuestInv
<1>3. CASE G!AllTerminated \/ G!Timeout
  <2> USE <1>3 DEF G!AllTerminated, G!Timeout
  <2>1. G!TypeOK' BY DEF GuestInv, G!TypeOK
  <2>2. Progress' /\ G!VictimsEnd' BY DEF GuestInv, G!TypeOK, Progress, G!VictimsEnd, G!MuFree
  <2>3. \A h \in Calls \cup Others : Started(h)' BY DEF GuestInv, Started
  <2> QED BY <2>1, <2>2, <2>3 DEF GuestInv
<1>4. CASE G!CloseConnections
  <2> USE <1>4 DEF G!CloseConnections
  <2>1. G!TypeOK' BY DEF GuestInv, G!TypeOK
  <2>2. Progress' /\ G!VictimsEnd' BY DEF GuestInv, G!TypeOK, Progress, G!VictimsEnd, G!MuFree
  <2>3. \A h \in Calls \cup Others : Started(h)' BY DEF GuestInv, Started
  <2> QED BY <2>1, <2>2, <2>3 DEF GuestInv
<1>5. CASE G!Shutdown \/ \E h \in Calls \cup Others : G!MapRace(h)
  <2>0. guest = "shutdown" /\ G!Ends BY <1>5 DEF G!Shutdown, G!MapRace
  <2> USE <2>0 DEF G!Ends
  <2>1. G!TypeOK' BY DEF GuestInv, G!TypeOK
  <2>2. Progress' /\ G!VictimsEnd' BY DEF GuestInv, G!TypeOK, Progress, G!VictimsEnd, G!MuFree
  <2>3. \A h \in Calls \cup Others : Started(h)' BY DEF GuestInv, Started
  <2> QED BY <2>1, <2>2, <2>3 DEF GuestInv
<1> QED BY <1>1, <1>2, <1>3, <1>4, <1>5

-----------------------------------------------------------------------------
(* Every step of the whole is a step of the tunnel, or none of its business. *)
LEMMA TunnelStep == Next => T!Next \/ UNCHANGED tunnelVars
<1> SUFFICES ASSUME Next PROVE T!Next \/ UNCHANGED tunnelVars
  OBVIOUS
<1>1. ASSUME NEW k \in Calls, Connect(k) \/ Cancel(k) \/ TunnelRuns(k)
      PROVE  T!Next
  BY <1>1 DEF Connect, Cancel, TunnelRuns, Select, Dialed, DialFails, CloseStream,
              T!Next, T!Runs
<1>2. ASSUME NEW k \in Calls, ExecRuns(k) \/ ExecReturns(k)
      PROVE  UNCHANGED tunnelVars
  BY <1>2 DEF ExecRuns, ExecConnects, ExecFails, Answer, HangsUp, Upgraded, ExecReturns
<1>3. CASE GuestStep
  BY <1>3 DEF GuestStep
<1> QED BY <1>1, <1>2, <1>3 DEF Next

(* And likewise of the guest.                                                *)
LEMMA ExecLeavesGuest == \A k \in Calls : ExecEnds(k) => UNCHANGED guestVars
BY DEF ExecEnds

LEMMA GuestsStep == Next => G!Next \/ UNCHANGED guestVars
<1> SUFFICES ASSUME Next PROVE G!Next \/ UNCHANGED guestVars
  OBVIOUS
<1>1. ASSUME NEW k \in Calls, Connect(k) \/ Cancel(k) \/ TunnelRuns(k)
      PROVE  UNCHANGED guestVars
  BY <1>1, ExecLeavesGuest
  DEF Connect, Cancel, TunnelRuns, Select, Dialed, DialFails, CloseStream
<1>2. ASSUME NEW k \in Calls, ExecRuns(k) \/ ExecReturns(k)
      PROVE  G!Next \/ UNCHANGED guestVars
  BY <1>2, ExecLeavesGuest
  DEF ExecRuns, ExecConnects, ExecFails, Answer, HangsUp, Upgraded, ExecReturns, G!Next
<1>3. CASE GuestStep
  BY <1>3 DEF GuestStep, G!Next
<1> QED BY <1>1, <1>2, <1>3 DEF Next

(* A stream is open only while the dialing goroutine, the Connect that took  *)
(* it or the endpoint it became will close it (both protocol.go), whatever   *)
(* becomes of the process and the guest behind it.                           *)
THEOREM Owned == Spec => []StreamOwned
<1> DEFINE TInv == T!TypeOK /\ T!StreamOwned
<1>1. Init => TInv
  BY InitOwned DEF Init
<1>2. TInv /\ [Next]_vars => TInv'
  <2> SUFFICES ASSUME TInv, [Next]_vars PROVE TInv'
    OBVIOUS
  <2>1. CASE UNCHANGED tunnelVars
    BY <2>1 DEF tunnelVars, T!TypeOK, T!StreamOwned
  <2>2. CASE T!Next
    <3>1. PICK k \in Calls : T!Connect(k) \/ T!Cancel(k) \/ T!Runs(k)
      BY <2>2 DEF T!Next
    <3> QED BY <3>1, ConnectOwned, DialerOwned, MainOwned DEF T!Runs
  <2> QED BY <2>1, <2>2, TunnelStep DEF vars
<1>3. TInv => StreamOwned
  BY DEF StreamOwned
<1> QED BY <1>1, <1>2, <1>3, PTL DEF Spec

(* When TerminateAll gives the registry back, every process that was in it   *)
(* has ended and every connection is closed (server.go TerminateAll),        *)
(* whatever the clients and their calls do.                                  *)
THEOREM VictimsGone == Spec => []VictimsEnd
<1>1. Init => GuestInv
  BY GuestInitOK DEF Init
<1>2. GuestInv /\ [Next]_vars => GuestInv'
  <2> SUFFICES ASSUME GuestInv, [Next]_vars PROVE GuestInv'
    OBVIOUS
  <2>1. CASE UNCHANGED guestVars
    BY <2>1 DEF guestVars, GuestInv, G!TypeOK, Progress, G!VictimsEnd, Started, G!MuFree
  <2>2. CASE G!Next
    BY <2>2, HijackOK, HandlerOK, OutsideOK, MainOK DEF G!Next
  <2> QED BY <2>1, <2>2, GuestsStep DEF vars
<1>3. GuestInv => VictimsEnd
  BY DEF GuestInv, VictimsEnd
<1> QED BY <1>1, <1>2, <1>3, PTL DEF Spec
=============================================================================
