------------------------ MODULE BridgeManagerProofs ------------------------
(***************************************************************************)
(* Theorems about the session manager, for every set of containers,        *)
(* requests and items: its type invariant, JobOwnsEntries and             *)
(* SessionsTracked, and that it implements SessionLedger.                  *)
(*                                                                         *)
(* SessionsTracked is not inductive by itself: a setup that holds the      *)
(* mutex may open a session because the entry it read is still there,      *)
(* which is JobOwnsEntries.  Their conjunction with the type invariant     *)
(* is.                                                                     *)
(***************************************************************************)
EXTENDS BridgeManager, TLAPS

IInv == TypeOK /\ JobOwnsEntries /\ SessionsTracked

(* The empty maps and the free mutex are well typed.                         *)
LEMMA TypeInit == Init => TypeOK
  BY MaxSessionsAssumption DEF Init, TypeOK, Jobs, Idle

(* The container and the items a setup works on.                             *)
LEMMA SetupShape ==
  ASSUME TypeOK, job.op = "setup"
  PROVE  /\ job.todo \in SUBSET Items
         /\ \E c \in Containers : job.on = {c}
         /\ job = [op |-> "setup", on |-> job.on, todo |-> job.todo]
  BY DEF TypeOK, Jobs, Idle

(* The containers a teardown works on.                                       *)
LEMMA TeardownShape ==
  ASSUME TypeOK, job.op = "teardown"
  PROVE  job.on \in SUBSET Containers /\ job.todo = {}
  BY DEF TypeOK, Jobs, Idle

(* Every operation keeps the state well typed: in particular the mutex is    *)
(* released only as Idle, and a job is a setup of one container or a         *)
(* teardown of some.                                                         *)
LEMMA TypeNext == TypeOK /\ [Next]_vars => TypeOK'
<1> SUFFICES ASSUME TypeOK, [Next]_vars PROVE TypeOK'
  OBVIOUS
<1>1. ASSUME NEW r \in Requests, NEW items \in SUBSET Items, StoreStart(r, items)
      PROVE  TypeOK'
  BY <1>1 DEF TypeOK, StoreStart
<1>2. ASSUME NEW r \in Requests, NEW c \in Containers \cup {NoContainer}, StoreEnd(r, c)
      PROVE  TypeOK'
  <2>1. pending' \in [Requests -> SUBSET Items]
    BY <1>2 DEF TypeOK, StoreEnd
  <2>2. stored' \in [Containers -> SUBSET Items]
    BY <1>2 DEF TypeOK, StoreEnd
  <2>3. QED
    BY <1>2, <2>1, <2>2 DEF TypeOK, StoreEnd
<1>3. ASSUME NEW c \in Containers, NEW items \in SUBSET Items, StoreForContainer(c, items)
      PROVE  TypeOK'
  BY <1>3 DEF TypeOK, StoreForContainer
<1>4. ASSUME NEW c \in Containers, SetupBegin(c)
      PROVE  TypeOK'
  <2>1. job' \in Jobs
    BY <1>4 DEF TypeOK, SetupBegin, Jobs
  <2>2. QED
    BY <1>4, <2>1 DEF TypeOK, SetupBegin
<1>5. ASSUME NEW i \in Items, SetupItem(i) \/ SetupItemFails(i)
      PROVE  TypeOK'
  <2>1. job' \in Jobs
    BY <1>5, SetupShape DEF TypeOK, SetupItem, SetupItemFails, Jobs
  <2>2. live' \in [Containers -> [Items -> 0..MaxSessions]]
    <3>1. CASE SetupItemFails(i)
      BY <3>1 DEF TypeOK, SetupItemFails
    <3>2. CASE SetupItem(i)
      <4>1. PICK c \in job.on : live[c][i] < MaxSessions
                                /\ live' = [live EXCEPT ![c][i] = @ + 1]
        BY <3>2 DEF SetupItem
      <4>2. c \in Containers
        BY <3>2, SetupShape DEF SetupItem
      <4>3. live[c] \in [Items -> 0..MaxSessions]
        BY <4>2 DEF TypeOK
      <4>4. live[c][i] + 1 \in 0..MaxSessions
        BY <4>1, <4>3, MaxSessionsAssumption
      <4>5. [live[c] EXCEPT ![i] = live[c][i] + 1] \in [Items -> 0..MaxSessions]
        BY <4>3, <4>4
      <4>6. live' = [live EXCEPT ![c] = [live[c] EXCEPT ![i] = live[c][i] + 1]]
        BY <4>1, <4>2 DEF TypeOK
      <4>7. QED
        BY <4>2, <4>5, <4>6 DEF TypeOK
    <3>3. QED
      BY <1>5, <3>1, <3>2
  <2>3. QED
    BY <1>5, <2>1, <2>2 DEF TypeOK, SetupItem, SetupItemFails
<1>6. ASSUME SetupEnd
      PROVE  TypeOK'
  BY <1>6 DEF TypeOK, SetupEnd, Jobs
<1>7. ASSUME NEW cs \in SUBSET Containers, TeardownBegin(cs)
      PROVE  TypeOK'
  <2>1. job' \in Jobs
    BY <1>7 DEF TypeOK, TeardownBegin, Jobs
  <2>2. QED
    BY <1>7, <2>1 DEF TypeOK, TeardownBegin
<1>8. ASSUME NEW kept \in SUBSET (Containers \X Items), TeardownEnd(kept)
      PROVE  TypeOK'
  <2>1. live' \in [Containers -> [Items -> 0..MaxSessions]]
    BY <1>8, MaxSessionsAssumption DEF TypeOK, TeardownEnd
  <2>2. stray' \in SUBSET Containers
    BY <1>8, TeardownShape DEF TypeOK, TeardownEnd
  <2>3. QED
    BY <1>8, <2>1, <2>2 DEF TypeOK, TeardownEnd, Jobs
<1>9. ASSUME Restart
      PROVE  TypeOK'
  BY <1>9 DEF TypeOK, Restart, Jobs, SessionContainers
<1>10. ASSUME UNCHANGED vars
       PROVE  TypeOK'
  BY <1>10 DEF TypeOK, vars
<1>11. QED
  BY <1>1, <1>2, <1>3, <1>4, <1>5, <1>6, <1>7, <1>8, <1>9, <1>10 DEF Next

(* The state of a manager is well typed in every behaviour.                  *)
THEOREM TypeCorrect == Spec => []TypeOK
<1>1. QED
  BY TypeInit, TypeNext, PTL DEF Spec

-----------------------------------------------------------------------------
(* An entry is never touched while a job works on it, because every          *)
(* operation that changes one needs the mutex the job holds.                 *)
LEMMA OwnsNext == TypeOK /\ JobOwnsEntries /\ [Next]_vars => JobOwnsEntries'
<1> SUFFICES ASSUME TypeOK, JobOwnsEntries, [Next]_vars
             PROVE  JobOwnsEntries'
  OBVIOUS
<1>1. ASSUME job' = Idle
      PROVE  JobOwnsEntries'
  BY <1>1 DEF JobOwnsEntries, Idle
<1>2. ASSUME NEW d \in Containers, SetupBegin(d)
      PROVE  JobOwnsEntries'
  BY <1>2 DEF SetupBegin, JobOwnsEntries
<1>3. ASSUME NEW i \in Items, SetupItem(i) \/ SetupItemFails(i)
      PROVE  JobOwnsEntries'
  <2>1. job.op = "setup" /\ stored' = stored /\ job' = [job EXCEPT !.todo = @ \ {i}]
    BY <1>3 DEF SetupItem, SetupItemFails
  <2>2. job'.op = "setup" /\ job'.on = job.on /\ job'.todo \subseteq job.todo
    BY <2>1, SetupShape
  <2>3. QED
    BY <2>1, <2>2 DEF JobOwnsEntries
<1>4. ASSUME NEW cs \in SUBSET Containers, TeardownBegin(cs)
      PROVE  JobOwnsEntries'
  BY <1>4 DEF TeardownBegin, JobOwnsEntries
<1>5. CASE UNCHANGED vars
  BY <1>5 DEF vars, JobOwnsEntries
<1>6. QED
  BY <1>1, <1>2, <1>3, <1>4, <1>5
     DEF Next, StoreStart, StoreEnd, StoreForContainer, SetupEnd, TeardownEnd,
         Restart, MuFree

(* The accounting step, with each operation that opens sessions, removes an  *)
(* entry, or ends a teardown examined by itself.                             *)
LEMMA TrackedNext == IInv /\ [Next]_vars => SessionsTracked'
<1> SUFFICES ASSUME TypeOK, JobOwnsEntries, SessionsTracked, [Next]_vars,
                    NEW c \in Containers, NEW j \in Items, live'[c][j] > 0
             PROVE  \/ stored'[c] # {}
                    \/ job'.op = "teardown" /\ c \in job'.on
                    \/ c \in stray'
  BY DEF IInv, SessionsTracked
<1> DEFINE Goal == \/ stored'[c] # {}
                   \/ job'.op = "teardown" /\ c \in job'.on
                   \/ c \in stray'
<1>1. ASSUME NEW r \in Requests, NEW items \in SUBSET Items, StoreStart(r, items)
      PROVE  Goal
  BY <1>1 DEF StoreStart, SessionsTracked
<1>2. ASSUME NEW r \in Requests, NEW d \in Containers \cup {NoContainer}, StoreEnd(r, d)
      PROVE  Goal
  <2>1. stored'[c] = stored[c] \/ stored'[c] # {}
    BY <1>2 DEF StoreEnd, TypeOK
  <2>2. QED
    BY <1>2, <2>1 DEF StoreEnd, SessionsTracked
<1>3. ASSUME NEW d \in Containers, NEW items \in SUBSET Items, StoreForContainer(d, items)
      PROVE  Goal
  <2>1. stored'[c] = stored[c] \/ stored'[c] # {}
    BY <1>3 DEF StoreForContainer, TypeOK
  <2>2. QED
    BY <1>3, <2>1 DEF StoreForContainer, SessionsTracked
<1>4. ASSUME NEW d \in Containers, SetupBegin(d)
      PROVE  Goal
  BY <1>4 DEF SetupBegin, SessionsTracked, MuFree, Idle
<1>5. ASSUME NEW i \in Items, SetupItem(i)
      PROVE  Goal
  <2>1. PICK d \in job.on : live' = [live EXCEPT ![d][i] = @ + 1]
    BY <1>5 DEF SetupItem
  <2>2. stored[d] # {}
    BY <1>5 DEF SetupItem, JobOwnsEntries
  <2>3. stored' = stored /\ stray' = stray /\ job.op = "setup"
    BY <1>5 DEF SetupItem
  <2>4. CASE c = d
    BY <2>2, <2>3, <2>4
  <2>5. CASE c # d
    <3>1. live'[c] = live[c]
      BY <2>1, <2>5 DEF TypeOK
    <3>2. QED
      BY <2>3, <3>1 DEF SessionsTracked
  <2>6. QED
    BY <2>4, <2>5
<1>6. ASSUME NEW i \in Items, SetupItemFails(i)
      PROVE  Goal
  BY <1>6 DEF SetupItemFails, SessionsTracked
<1>7. ASSUME SetupEnd
      PROVE  Goal
  BY <1>7 DEF SetupEnd, SessionsTracked
<1>8. ASSUME NEW cs \in SUBSET Containers, TeardownBegin(cs)
      PROVE  Goal
  <2>1. CASE c \in cs
    BY <1>8, <2>1 DEF TeardownBegin
  <2>2. CASE c \notin cs
    BY <1>8, <2>2 DEF TeardownBegin, SessionsTracked, MuFree, Idle
  <2>3. QED
    BY <2>1, <2>2
<1>9. ASSUME NEW kept \in SUBSET (Containers \X Items), TeardownEnd(kept)
      PROVE  Goal
  <2>1. CASE c \in job.on
    BY <1>9, <2>1 DEF TeardownEnd
  <2>2. CASE c \notin job.on
    BY <1>9, <2>2 DEF TeardownEnd, SessionsTracked
  <2>3. QED
    BY <2>1, <2>2
<1>10. ASSUME Restart
       PROVE  Goal
  BY <1>10 DEF Restart, SessionContainers
<1>11. ASSUME UNCHANGED vars
       PROVE  Goal
  BY <1>11 DEF vars, SessionsTracked
<1>12. QED
  BY <1>1, <1>2, <1>3, <1>4, <1>5, <1>6, <1>7, <1>8, <1>9, <1>10, <1>11 DEF Next

(* The inductive invariant.                                                  *)
LEMMA Inductive == Spec => []IInv
<1>1. Init => IInv
  <2>1. Init => JobOwnsEntries /\ SessionsTracked
    BY DEF Init, JobOwnsEntries, SessionsTracked, Idle
  <2>2. QED
    BY <2>1, TypeInit DEF IInv
<1>2. IInv /\ [Next]_vars => IInv'
  BY TypeNext, OwnsNext, TrackedNext DEF IInv
<1>3. QED
  BY <1>1, <1>2, PTL DEF Spec

(* No setup loses its entry and no teardown finds a new one under it: both   *)
(* hold m.mu throughout.                                                     *)
THEOREM EntriesOwned == Spec => []JobOwnsEntries
<1>1. QED
  BY Inductive, PTL DEF IInv

(* No session outlives the manager's knowledge of its container unnoticed,   *)
(* whatever setups, teardowns, failures and restarts interleave.             *)
THEOREM AllTracked == Spec => []SessionsTracked
<1>1. QED
  BY Inductive, PTL DEF IInv

-----------------------------------------------------------------------------
(* Refinement: the mapped initial state and the mapped steps.                *)
LEMMA LedgerInit == Init => Ledger!Init
  BY DEF Init, Ledger!Init, Phase, Idle

(* Each operation is one action of the ledger, or a step it does not see.    *)
LEMMA LedgerNext == IInv /\ IInv' /\ [Next]_vars => [Ledger!Next]_(Ledger!vars)
<1> SUFFICES ASSUME TypeOK, JobOwnsEntries, TypeOK', [Next]_vars
             PROVE  [Ledger!Next]_(Ledger!vars)
  BY DEF IInv
<1> USE DEF Ledger!vars
<1>1. ASSUME NEW r \in Requests, NEW items \in SUBSET Items, StoreStart(r, items)
      PROVE  UNCHANGED Ledger!vars
  BY <1>1 DEF StoreStart, Phase
<1>2. ASSUME NEW r \in Requests, NEW c \in Containers \cup {NoContainer}, StoreEnd(r, c)
      PROVE  Ledger!Next \/ UNCHANGED Ledger!vars
  <2>1. CASE c # NoContainer /\ pending[r] # {}
    <3>1. c \in Containers
      BY <2>1
    <3>2. Phase[c] # "closing"
      BY <1>2, <3>1 DEF StoreEnd, MuFree, Idle, Phase
    <3>3. Phase' = [Phase EXCEPT ![c] = "tracked"]
      BY <1>2, <2>1, <3>1 DEF StoreEnd, MuFree, Idle, Phase, TypeOK
    <3>4. Ledger!Track(c)
      BY <1>2, <3>2, <3>3 DEF StoreEnd, Ledger!Track
    <3>5. QED
      BY <3>1, <3>4 DEF Ledger!Next
  <2>2. CASE ~(c # NoContainer /\ pending[r] # {})
    BY <1>2, <2>2 DEF StoreEnd, Phase
  <2>3. QED
    BY <2>1, <2>2
<1>3. ASSUME NEW c \in Containers, NEW items \in SUBSET Items, StoreForContainer(c, items)
      PROVE  Ledger!Next \/ UNCHANGED Ledger!vars
  <2>1. CASE items # {}
    <3>1. Phase[c] # "closing"
      BY <1>3 DEF StoreForContainer, MuFree, Idle, Phase
    <3>2. Phase' = [Phase EXCEPT ![c] = "tracked"]
      BY <1>3, <2>1 DEF StoreForContainer, MuFree, Idle, Phase, TypeOK
    <3>3. Ledger!Track(c)
      BY <1>3, <3>1, <3>2 DEF StoreForContainer, Ledger!Track
    <3>4. QED
      BY <3>3 DEF Ledger!Next
  <2>2. CASE items = {}
    BY <1>3, <2>2 DEF StoreForContainer, Phase
  <2>3. QED
    BY <2>1, <2>2
<1>4. ASSUME NEW c \in Containers, SetupBegin(c)
      PROVE  UNCHANGED Ledger!vars
  BY <1>4 DEF SetupBegin, MuFree, Idle, Phase
<1>5. ASSUME NEW i \in Items, SetupItem(i)
      PROVE  Ledger!Next
  <2>1. PICK c \in job.on : /\ live[c][i] < MaxSessions
                            /\ live' = [live EXCEPT ![c][i] = @ + 1]
    BY <1>5 DEF SetupItem
  <2>2. c \in Containers /\ stored[c] # {} /\ job.op = "setup"
    BY <1>5, SetupShape DEF SetupItem, JobOwnsEntries
  <2>3. Phase[c] = "tracked"
    BY <2>2 DEF Phase
  <2>4. job'.op = "setup"
    BY <1>5, SetupShape DEF SetupItem
  <2>5. Phase' = Phase
    BY <1>5, <2>2, <2>4 DEF SetupItem, Phase
  <2>6. Ledger!OpenSession(c, i)
    BY <1>5, <2>1, <2>3, <2>5 DEF SetupItem, Ledger!OpenSession
  <2>7. QED
    BY <2>2, <2>6 DEF Ledger!Next
<1>6. ASSUME NEW i \in Items, SetupItemFails(i)
      PROVE  UNCHANGED Ledger!vars
  <2>1. job.op = "setup" /\ job'.op = "setup"
    BY <1>6, SetupShape DEF SetupItemFails
  <2>2. QED
    BY <1>6, <2>1 DEF SetupItemFails, Phase
<1>7. ASSUME SetupEnd
      PROVE  UNCHANGED Ledger!vars
  BY <1>7 DEF SetupEnd, Idle, Phase
<1>8. ASSUME NEW cs \in SUBSET Containers, TeardownBegin(cs)
      PROVE  Ledger!Next
  <2>1. Phase' = [c \in Containers |-> IF c \in cs THEN "closing" ELSE Phase[c]]
    BY <1>8 DEF TeardownBegin, MuFree, Idle, Phase
  <2>2. Ledger!Close(cs)
    BY <1>8, <2>1 DEF TeardownBegin, Ledger!Close
  <2>3. QED
    BY <2>2 DEF Ledger!Next
<1>9. ASSUME NEW kept \in SUBSET (Containers \X Items), TeardownEnd(kept)
      PROVE  Ledger!Next
  <2>1. job.op = "teardown" /\ job' = Idle /\ stored' = stored
    BY <1>9 DEF TeardownEnd
  <2>2. job.on = Ledger!Closing
    BY <2>1, TeardownShape DEF Ledger!Closing, Phase
  <2>3. \A c \in job.on : stored[c] = {}
    BY <2>1 DEF JobOwnsEntries
  <2>4. Phase' = [c \in Containers |->
                   IF c \in Ledger!Closing THEN "unknown" ELSE Phase[c]]
    BY <2>1, <2>2, <2>3 DEF Phase, Idle
  <2>5. Ledger!Closed(kept)
    BY <1>9, <2>2, <2>4 DEF TeardownEnd, Ledger!Closed
  <2>6. QED
    BY <2>5 DEF Ledger!Next
<1>10. ASSUME Restart
       PROVE  Ledger!Next
  <2>1. Phase' = [c \in Containers |-> "unknown"]
    BY <1>10 DEF Restart, Idle, Phase
  <2>2. Ledger!Forget
    BY <1>10, <2>1 DEF Restart, SessionContainers, Ledger!Forget, Ledger!Open
  <2>3. QED
    BY <2>2 DEF Ledger!Next
<1>11. ASSUME UNCHANGED vars
       PROVE  UNCHANGED Ledger!vars
  BY <1>11 DEF vars, Phase
<1>12. QED
  BY <1>1, <1>2, <1>3, <1>4, <1>5, <1>6, <1>7, <1>8, <1>9, <1>10, <1>11 DEF Next

(* The manager implements the ledger.                                        *)
THEOREM Refinement == Spec => ImplementsLedger
<1>1. QED
  BY Inductive, LedgerInit, LedgerNext, PTL DEF Spec, ImplementsLedger, Ledger!Spec
=============================================================================
