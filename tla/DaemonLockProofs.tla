--------------------------- MODULE DaemonLockProofs ---------------------------
(* Proofs about DaemonLock, for any number of daemons and stops, crashes and *)
(* stops of a starting daemon included.  ServingIsNamed and ToldByName need  *)
(* to know that the states of Holding are exactly the ones with the lock,    *)
(* and that the content of the terminate file was read by some stop.         *)
EXTENDS DaemonLock, TLAPS

HolderHolds == \A d \in Daemons : holder = d <=> dpc[d] \in Holding

TerminateWasRead ==
  termFile \notin {None, <<>>} => \E s \in Stops : spc[s] # "new" /\ read[s] = termFile

ToldWasRead ==
  \A d \in Daemons : watch[d] \in {"named", "told"}
    => \E s \in Stops : spc[s] # "new" /\ read[s] = <<d>>

IInv == TypeOK /\ HolderHolds /\ ServingIsNamed /\ TerminateWasRead /\ ToldWasRead

(* A fresh machine satisfies the invariant.                                  *)
LEMMA InitInv == Init => IInv
BY NoneAssumption
   DEF Init, IInv, TypeOK, HolderHolds, ServingIsNamed, TerminateWasRead, ToldWasRead, Holding, Starting

(* Every action keeps the variables in their types.                          *)
LEMMA TypeNext == TypeOK /\ [Next]_vars => TypeOK'
<1> SUFFICES ASSUME TypeOK, [Next]_vars PROVE TypeOK'
  OBVIOUS
<1> USE DEF TypeOK, Holding, Starting, DaemonStep, Notified
<1>1. ASSUME NEW d \in Daemons, Acquire(d) \/ Refused(d) \/ WritePid(d) \/ Watch(d)
      PROVE TypeOK'
  <2>1. CASE Acquire(d)
    BY <2>1 DEF Acquire, stopVars
  <2>2. CASE Refused(d)
    BY <2>2 DEF Refused, stopVars
  <2>3. CASE WritePid(d)
    BY <2>3 DEF WritePid, stopVars
  <2>4. CASE Watch(d)
    BY <2>4 DEF Watch, stopVars
  <2> QED
    BY <1>1, <2>1, <2>2, <2>3, <2>4
<1>2. ASSUME NEW d \in Daemons, ReadTerminate(d) \/ RemoveTerminate(d) \/ Told(d)
      PROVE TypeOK'
  BY <1>2 DEF ReadTerminate, RemoveTerminate, Told, stopVars, daemonVars
<1>3. ASSUME NEW d \in Daemons,
             EndsByItself(d) \/ Closed(d) \/ Truncate(d) \/ Unlock(d) \/ Crash(d)
      PROVE TypeOK'
  <2>1. CASE EndsByItself(d)
    BY <2>1 DEF EndsByItself, stopVars
  <2>2. CASE Closed(d)
    BY <2>2 DEF Closed, stopVars
  <2>3. CASE Truncate(d)
    BY <2>3 DEF Truncate, stopVars
  <2>4. CASE Unlock(d)
    BY <2>4 DEF Unlock, stopVars
  <2>5. CASE Crash(d)
    BY <2>5 DEF Crash, stopVars
  <2> QED
    BY <1>3, <2>1, <2>2, <2>3, <2>4, <2>5
<1>4. ASSUME NEW s \in Stops, ReadPid(s) \/ OpenTerminate(s) \/ WriteTerminate(s)
      PROVE TypeOK'
  <2>1. CASE ReadPid(s)
    BY <2>1 DEF ReadPid, daemonVars
  <2>2. CASE OpenTerminate(s)
    BY <2>2 DEF OpenTerminate, daemonVars
  <2>3. CASE WriteTerminate(s)
    BY <2>3 DEF WriteTerminate, daemonVars
  <2> QED
    BY <1>4, <2>1, <2>2, <2>3
<1>5. CASE UNCHANGED vars
  BY <1>5 DEF vars, daemonVars, stopVars
<1> QED
  BY <1>1, <1>2, <1>3, <1>4, <1>5 DEF Next, Runs

(* The lock and the pid file: only the holder appends to the file or empties *)
(* it, and it does so while it still has the lock.                           *)
LEMMA HolderNext ==
  TypeOK /\ HolderHolds /\ ServingIsNamed /\ [Next]_vars => HolderHolds' /\ ServingIsNamed'
<1> SUFFICES ASSUME TypeOK, HolderHolds, ServingIsNamed, [Next]_vars
             PROVE  HolderHolds' /\ ServingIsNamed'
  OBVIOUS
<1> USE NoneAssumption
    DEF TypeOK, HolderHolds, ServingIsNamed, Holding, Starting, DaemonStep
<1>1. ASSUME NEW d \in Daemons, Acquire(d) PROVE HolderHolds' /\ ServingIsNamed'
  BY <1>1 DEF Acquire
<1>2. ASSUME NEW d \in Daemons, WritePid(d) PROVE HolderHolds' /\ ServingIsNamed'
  <2>1. HolderHolds'
    BY <1>2 DEF WritePid
  <2>2. pidFile' # <<>> /\ pidFile'[Len(pidFile')] = d
    <3>1. Len(pidFile') = Len(pidFile) + 1 /\ pidFile'[Len(pidFile) + 1] = d
      BY <1>2 DEF WritePid
    <3> QED
      BY <3>1, <1>2 DEF WritePid
  <2>3. ASSUME NEW e \in Daemons, e # d
        PROVE dpc'[e] \notin {"named", "serving", "closing", "truncating"}
    BY <1>2, <2>3 DEF WritePid
  <2>4. holder' = d
    BY <1>2 DEF WritePid
  <2> QED
    BY <2>1, <2>2, <2>3, <2>4
<1>3. ASSUME NEW d \in Daemons, Truncate(d) PROVE HolderHolds' /\ ServingIsNamed'
  BY <1>3 DEF Truncate
<1>4. ASSUME NEW d \in Daemons, Unlock(d) \/ Crash(d) PROVE HolderHolds' /\ ServingIsNamed'
  <2>1. holder = d /\ holder' = None /\ dpc' = [dpc EXCEPT ![d] = "gone"]
    BY <1>4 DEF Unlock, Crash
  <2>2. ASSUME NEW e \in Daemons PROVE dpc'[e] \notin Holding
    BY <2>1
  <2> QED
    BY <2>1, <2>2
<1>5. ASSUME NEW d \in Daemons,
             Refused(d) \/ Watch(d) \/ EndsByItself(d) \/ Told(d) \/ Closed(d)
      PROVE HolderHolds' /\ ServingIsNamed'
  BY <1>5 DEF Refused, Watch, EndsByItself, Told, Closed
<1>6. ASSUME UNCHANGED daemonVars PROVE HolderHolds' /\ ServingIsNamed'
  BY <1>6 DEF daemonVars
<1> QED
  BY <1>1, <1>2, <1>3, <1>4, <1>5, <1>6
     DEF Next, Runs, ReadTerminate, RemoveTerminate, ReadPid, OpenTerminate, WriteTerminate, vars

(* The terminate file: it holds what a stop read, and so does the mind of a  *)
(* watcher that matched it.                                                  *)
LEMMA ToldNext ==
  TypeOK /\ TerminateWasRead /\ ToldWasRead /\ [Next]_vars
    => TerminateWasRead' /\ ToldWasRead'
<1> SUFFICES ASSUME TypeOK, TerminateWasRead, ToldWasRead, [Next]_vars
             PROVE  TerminateWasRead' /\ ToldWasRead'
  OBVIOUS
<1> USE NoneAssumption DEF TypeOK, TerminateWasRead, ToldWasRead
<1>1. ASSUME NEW d \in Daemons, ReadTerminate(d) PROVE TerminateWasRead' /\ ToldWasRead'
  <2>1. TerminateWasRead'
    BY <1>1 DEF ReadTerminate, stopVars
  <2>2. CASE termFile = <<d>>
    <3>1. termFile \notin {None, <<>>}
      <4>1. <<d>> \in Seq(Daemons) /\ <<d>> # <<>>
        OBVIOUS
      <4> QED
        BY <2>2, <4>1
    <3>2. PICK s \in Stops : spc[s] # "new" /\ read[s] = <<d>>
      BY <3>1, <2>2
    <3> QED
      BY <2>1, <3>2, <1>1 DEF ReadTerminate, stopVars
  <2>3. CASE termFile # <<d>>
    BY <2>1, <2>3, <1>1 DEF ReadTerminate, stopVars
  <2> QED
    BY <2>2, <2>3
<1>2. ASSUME NEW d \in Daemons, RemoveTerminate(d) PROVE TerminateWasRead' /\ ToldWasRead'
  BY <1>2 DEF RemoveTerminate, stopVars
<1>3. ASSUME NEW d \in Daemons, Watch(d) PROVE TerminateWasRead' /\ ToldWasRead'
  BY <1>3 DEF Watch, stopVars
<1>4. ASSUME NEW s \in Stops, ReadPid(s) PROVE TerminateWasRead' /\ ToldWasRead'
  BY <1>4 DEF ReadPid
<1>5. ASSUME NEW s \in Stops, OpenTerminate(s) PROVE TerminateWasRead' /\ ToldWasRead'
  BY <1>5 DEF OpenTerminate, Notified
<1>6. ASSUME NEW s \in Stops, WriteTerminate(s) PROVE TerminateWasRead' /\ ToldWasRead'
  BY <1>6 DEF WriteTerminate, Notified
<1>7. ASSUME UNCHANGED <<termFile, watch, stopVars>> PROVE TerminateWasRead' /\ ToldWasRead'
  BY <1>7 DEF stopVars
<1> QED
  BY <1>1, <1>2, <1>3, <1>4, <1>5, <1>6, <1>7
     DEF Next, Runs, Acquire, Refused, WritePid, EndsByItself, Told, Closed, Truncate,
         Unlock, Crash, vars

(* The invariant holds of every reachable state.                             *)
LEMMA Inductive == Spec => []IInv
<1>1. IInv /\ [Next]_vars => IInv'
  BY TypeNext, HolderNext, ToldNext DEF IInv
<1> QED
  BY InitInv, <1>1, PTL DEF Spec

(* Whoever serves is the holder of the lock and the last name in daemon.pid, *)
(* whatever daemons before it were killed or are still releasing: Truncate   *)
(* comes before Unlock in Lock.Release.                                      *)
THEOREM ServingNamed == Spec => []ServingIsNamed
<1>1. IInv => ServingIsNamed
  BY DEF IInv
<1> QED
  BY Inductive, <1>1, PTL

(* No daemon ends because of a terminate file that was not meant for it:     *)
(* the pid comparison of watchTerminationSignal is enough, with any number   *)
(* of stops opening, truncating and writing the file at any time.            *)
THEOREM ToldNamed == Spec => []ToldByName
<1>1. IInv => ToldByName
  BY DEF IInv, ToldWasRead, ToldByName
<1> QED
  BY Inductive, <1>1, PTL
=============================================================================
