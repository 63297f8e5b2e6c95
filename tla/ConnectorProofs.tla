--------------------------- MODULE ConnectorProofs ---------------------------
(* Proofs about Connector, for any connections, rows and teams, any number   *)
(* of changes and any pool.                                                  *)
EXTENDS Connector, TLAPS

Active == Queries \cup {"handshake", "request", "dial", "relay"}
Routed == {"request", "dial", "relay"}

-----------------------------------------------------------------------------
(* Type correctness.                                                         *)

LEMMA TypeReturn ==
  ASSUME TypeOK, NEW c \in Conns, Return(c) PROVE TypeOK'
BY DEF TypeOK, Return, tables, stopping

LEMMA TypeGoOn ==
  ASSUME TypeOK, NEW c \in Conns, NEW next \in {"inTeams", "address", "request"},
         GoOn(c, next),
         listed' \in [Conns -> SUBSET Teams],
         target' \in [Conns -> {row.addr : row \in HostRows} \cup {Self, None}]
  PROVE  TypeOK'
BY DEF TypeOK, GoOn, Queries, tables, stopping, history

(* Every action keeps the variables in their types.                          *)
LEMMA TypeNext == TypeOK /\ [Next]_vars => TypeOK'
<1> SUFFICES ASSUME TypeOK, [Next]_vars PROVE TypeOK'
  OBVIOUS
<1> USE DEF TypeOK, Queries
<1>1. ASSUME NEW id \in ConnectIDs, ChangeHost(id) PROVE TypeOK'
  BY <1>1, SizesAssumption DEF ChangeHost, asked, stopping
<1>2. ASSUME NEW t \in Teams, ChangeTeam(t) PROVE TypeOK'
  <2>1. teams' \in [Teams -> TeamRows]
    BY <1>2 DEF ChangeTeam
  <2>2. teamsSince' \in [Conns -> SUBSET [Teams -> TeamRows]]
    BY <1>2, <2>1 DEF ChangeTeam
  <2> QED
    BY <1>2, <2>1, <2>2, SizesAssumption DEF ChangeTeam, asked, stopping
<1>3. ASSUME NEW c \in Conns, Accept(c) \/ Spawn(c) \/ Handshake(c) PROVE TypeOK'
  <2>1. CASE Accept(c)
    BY <2>1 DEF Accept, Step, tables, asked, stopping, history
  <2>2. CASE Spawn(c)
    BY <2>2 DEF Spawn, Step, tables, asked, stopping, history
  <2>3. CASE Handshake(c)
    <3>1. hosts[sni[c]] \in HostRows \cup {NoRow}
      BY NamedAssumption
    <3>2. rowsSince' \in [Conns -> SUBSET (HostRows \cup {NoRow})]
      BY <2>3, <3>1 DEF Handshake
    <3>3. teamsSince' \in [Conns -> SUBSET [Teams -> TeamRows]]
      BY <2>3 DEF Handshake
    <3> QED
      BY <2>3, <3>2, <3>3 DEF Handshake, Step, tables, asked, stopping
  <2> QED
    BY <1>3, <2>1, <2>2, <2>3
<1>4. CASE AcceptEnds
  BY <1>4 DEF AcceptEnds, tables, asked, stopping, history
<1>5. ASSUME NEW c \in Conns, Acquire(c) PROVE TypeOK'
  BY <1>5 DEF Acquire, Asking, tables, asked, stopping, history
<1>6. ASSUME NEW c \in Conns, Authorize(c) PROVE TypeOK'
  <2>1. CASE Return(c)
    BY <2>1, TypeReturn
  <2>2. CASE GoOn(c, "address") /\ UNCHANGED <<listed, target>>
    BY <2>2, TypeGoOn
  <2>3. CASE /\ GoOn(c, "inTeams") /\ UNCHANGED target
             /\ hosts[sni[c]] # NoRow
             /\ listed' = [listed EXCEPT ![c] = hosts[sni[c]].teams]
    <3>1. hosts[sni[c]] \in HostRows
      BY <2>3, NamedAssumption
    <3> QED
      BY <2>3, <3>1, TypeGoOn, RowsAssumption
  <2> QED
    BY <1>6, <2>1, <2>2, <2>3 DEF Authorize
<1>7. ASSUME NEW c \in Conns, InTeams(c) PROVE TypeOK'
  <2>1. CASE Return(c)
    BY <2>1, TypeReturn
  <2>2. CASE GoOn(c, "address") /\ UNCHANGED <<listed, target>>
    BY <2>2, TypeGoOn
  <2> QED
    BY <1>7, <2>1, <2>2 DEF InTeams
<1>8. ASSUME NEW c \in Conns, Address(c) PROVE TypeOK'
  <2>1. CASE Return(c)
    BY <2>1, TypeReturn
  <2>2. CASE /\ GoOn(c, "request") /\ UNCHANGED listed
             /\ hosts[sni[c]] # NoRow
             /\ target' = [target EXCEPT ![c] = Backend(hosts[sni[c]].addr)]
    <3>1. hosts[sni[c]] \in HostRows
      BY <2>2, NamedAssumption
    <3>2. Backend(hosts[sni[c]].addr) \in {row.addr : row \in HostRows} \cup {Self, None}
      BY <3>1 DEF Backend
    <3> QED
      BY <2>2, <3>2, TypeGoOn
  <2> QED
    BY <1>8, <2>1, <2>2 DEF Address
<1>9. ASSUME NEW c \in Conns, Request(c) \/ Dialed(c) PROVE TypeOK'
  BY <1>9 DEF Request, Dialed, Step, tables, asked, stopping, history
<1>10. ASSUME NEW c \in Conns, Ends(c) PROVE TypeOK'
  BY <1>10, TypeReturn DEF Ends
<1>11. CASE Cancel \/ CloseListener \/ AllClosed \/ GivesUp \/ CloseDB
  BY <1>11 DEF Cancel, CloseListener, AllClosed, GivesUp, CloseDB, StopStep, tables, asked
<1>12. CASE Exit
  BY <1>12 DEF Exit, StopStep, tables, asked
<1>13. CASE UNCHANGED vars
  BY <1>13 DEF vars, tables, asked, stopping, history
<1> QED
  BY <1>1, <1>2, <1>3, <1>4, <1>5, <1>6, <1>7, <1>8, <1>9, <1>10, <1>11, <1>12, <1>13
     DEF Next, LoopStep, Stops, Query

(* The variables keep their types: TypeOK.                                   *)
THEOREM TypeCorrect == Spec => []TypeOK
<1>1. Init => TypeOK
  <2> SUFFICES ASSUME Init PROVE TypeOK
    OBVIOUS
  <2>1. changes \in 0..MaxChanges
    BY SizesAssumption DEF Init
  <2>2. /\ rowsSince \in [Conns -> SUBSET (HostRows \cup {NoRow})]
        /\ teamsSince \in [Conns -> SUBSET [Teams -> TeamRows]]
    BY DEF Init
  <2>3. /\ hosts \in [ConnectIDs -> HostRows \cup {NoRow}]
        /\ teams \in [Teams -> TeamRows]
    BY DEF Init
  <2>4. target \in [Conns -> {row.addr : row \in HostRows} \cup {Self, None}]
    BY DEF Init
  <2> QED
    BY <2>1, <2>2, <2>3, <2>4 DEF Init, TypeOK
<1> QED
  BY <1>1, TypeNext, PTL DEF Spec

-----------------------------------------------------------------------------
(* Stop is told the truth.  Whoever works is counted, a connection that was  *)
(* accepted and has no handler yet is the accept loop's, and nobody is       *)
(* counted any more once wg.Wait has returned.                               *)

Counted ==
  /\ \A c \in Conns : pc[c] \in Active => c \in wg
  /\ \A c \in Conns : pc[c] = "accepted" => loop = "holding"
  /\ loop # "done" => "loop" \in wg
  /\ \A c, d \in Conns : pc[c] = "accepted" /\ pc[d] = "accepted" => c = d
  /\ graceful => wg = {} /\ stop \in {"closeDB", "closingDB", "exited"}

LEMMA CountedReturn ==
  ASSUME TypeOK, Counted, NEW c \in Conns, Return(c) PROVE Counted'
BY NamesAssumption DEF TypeOK, Counted, Active, Queries, Return, stopping

LEMMA CountedGoOn ==
  ASSUME TypeOK, Counted, NEW c \in Conns, NEW next \in Active, pc[c] \in Active, GoOn(c, next)
  PROVE  Counted'
BY DEF TypeOK, Counted, Active, Queries, GoOn, stopping

LEMMA CountedNext == TypeOK /\ Counted /\ [Next]_vars => Counted'
<1> SUFFICES ASSUME TypeOK, Counted, [Next]_vars PROVE Counted'
  OBVIOUS
<1> USE DEF TypeOK, Counted, Active, Queries
<1>1. ASSUME NEW id \in ConnectIDs, ChangeHost(id) PROVE Counted'
  BY <1>1 DEF ChangeHost, stopping
<1>2. ASSUME NEW t \in Teams, ChangeTeam(t) PROVE Counted'
  BY <1>2 DEF ChangeTeam, stopping
<1>3. ASSUME NEW c \in Conns, Accept(c) \/ Spawn(c) \/ Handshake(c) PROVE Counted'
  <2>1. CASE Accept(c)
    BY <2>1 DEF Accept, Step, stopping
  <2>2. CASE Spawn(c)
    BY <2>2 DEF Spawn, Step, stopping
  <2>3. CASE Handshake(c)
    BY <2>3 DEF Handshake, Step, stopping
  <2> QED
    BY <1>3, <2>1, <2>2, <2>3
<1>4. CASE AcceptEnds
  BY <1>4, NamesAssumption DEF AcceptEnds, stopping
<1>5. ASSUME NEW c \in Conns, Acquire(c) PROVE Counted'
  BY <1>5 DEF Acquire, stopping
<1>6. ASSUME NEW c \in Conns, Authorize(c) PROVE Counted'
  BY <1>6, CountedReturn, CountedGoOn DEF Authorize, Answered
<1>7. ASSUME NEW c \in Conns, InTeams(c) PROVE Counted'
  BY <1>7, CountedReturn, CountedGoOn DEF InTeams, Answered
<1>8. ASSUME NEW c \in Conns, Address(c) PROVE Counted'
  BY <1>8, CountedReturn, CountedGoOn DEF Address, Answered
<1>9. ASSUME NEW c \in Conns, Request(c) \/ Dialed(c) PROVE Counted'
  BY <1>9 DEF Request, Dialed, Step, stopping
<1>10. ASSUME NEW c \in Conns, Ends(c) PROVE Counted'
  BY <1>10, CountedReturn DEF Ends
<1>11. CASE Cancel \/ CloseListener \/ AllClosed \/ GivesUp \/ CloseDB
  BY <1>11 DEF Cancel, CloseListener, AllClosed, GivesUp, CloseDB, StopStep
<1>12. CASE Exit
  BY <1>12 DEF Exit, StopStep
<1>13. CASE UNCHANGED vars
  BY <1>13 DEF vars, stopping
<1> QED
  BY <1>1, <1>2, <1>3, <1>4, <1>5, <1>6, <1>7, <1>8, <1>9, <1>10, <1>11, <1>12, <1>13
     DEF Next, LoopStep, Stops, Query

(* When Stop reports that all connections closed gracefully, that is so:     *)
(* GracefulMeansQuiet.                                                       *)
THEOREM GracefulIsQuiet == Spec => []GracefulMeansQuiet
<1>1. Init => Counted
  BY DEF Init, Counted, Active, Queries
<1>2. TypeOK /\ Counted => GracefulMeansQuiet
  BY DEF TypeOK, Counted, Active, GracefulMeansQuiet
<1> QED
  BY <1>1, <1>2, CountedNext, TypeCorrect, PTL DEF Spec

-----------------------------------------------------------------------------
(* No connection is routed late: a late one never has a query under way for  *)
(* the address, and none can begin.                                          *)

LateInv ==
  /\ late # {} => Cancelled
  /\ \A c \in late : pc[c] \notin Routed /\ (pc[c] = "address" => c \notin busy)
  /\ \A c \in late : target[c] = None
  /\ \A c \in Conns : pc[c] \notin Routed \cup {"done"} => target[c] = None

LEMMA LateReturn ==
  ASSUME TypeOK, LateInv, NEW c \in Conns, Return(c) PROVE LateInv'
BY DEF TypeOK, LateInv, Routed, Cancelled, Return, stopping

LEMMA LateGoOn ==
  ASSUME TypeOK, LateInv, NEW c \in Conns, NEW next \in Queries, GoOn(c, next),
         target' = target, pc[c] \in Queries
  PROVE  LateInv'
BY DEF TypeOK, LateInv, Routed, Cancelled, GoOn, Queries, stopping, history

LEMMA LateNext == TypeOK /\ LateInv /\ [Next]_vars => LateInv'
<1> SUFFICES ASSUME TypeOK, LateInv, [Next]_vars PROVE LateInv'
  OBVIOUS
<1> USE DEF TypeOK, LateInv, Routed, Queries, Cancelled
<1>1. ASSUME NEW id \in ConnectIDs, ChangeHost(id) PROVE LateInv'
  BY <1>1 DEF ChangeHost, stopping, asked
<1>2. ASSUME NEW t \in Teams, ChangeTeam(t) PROVE LateInv'
  BY <1>2 DEF ChangeTeam, stopping, asked
<1>3. ASSUME NEW c \in Conns, Accept(c) \/ Spawn(c) \/ Handshake(c) PROVE LateInv'
  <2>1. CASE Accept(c)
    BY <2>1 DEF Accept, Step, stopping, asked, history
  <2>2. CASE Spawn(c)
    BY <2>2 DEF Spawn, Step, stopping, asked, history
  <2>3. CASE Handshake(c)
    BY <2>3 DEF Handshake, Step, stopping, asked
  <2> QED
    BY <1>3, <2>1, <2>2, <2>3
<1>4. CASE AcceptEnds
  BY <1>4 DEF AcceptEnds, stopping, asked, history
<1>5. ASSUME NEW c \in Conns, Acquire(c) PROVE LateInv'
  BY <1>5 DEF Acquire, Asking, stopping, asked, history
<1>6. ASSUME NEW c \in Conns, Authorize(c) PROVE LateInv'
  BY <1>6, LateReturn, LateGoOn DEF Authorize, Answered
<1>7. ASSUME NEW c \in Conns, InTeams(c) PROVE LateInv'
  BY <1>7, LateReturn, LateGoOn DEF InTeams, Answered
<1>8. ASSUME NEW c \in Conns, Address(c) PROVE LateInv'
  <2>1. CASE Return(c)
    BY <2>1, LateReturn
  <2>2. CASE /\ GoOn(c, "request") /\ Answered(c, "address")
             /\ target' = [target EXCEPT ![c] = Backend(hosts[sni[c]].addr)]
    <3>1. c \notin late
      BY <2>2 DEF Answered
    <3> QED
      BY <2>2, <3>1 DEF GoOn, stopping, history
  <2> QED
    BY <1>8, <2>1, <2>2 DEF Address
<1>9. ASSUME NEW c \in Conns, Request(c) \/ Dialed(c) PROVE LateInv'
  BY <1>9 DEF Request, Dialed, Step, stopping, asked, history
<1>10. ASSUME NEW c \in Conns, Ends(c) PROVE LateInv'
  BY <1>10, LateReturn DEF Ends
<1>11. CASE Cancel
  BY <1>11 DEF Cancel, StopStep, asked
<1>12. CASE CloseListener \/ AllClosed \/ GivesUp \/ CloseDB
  BY <1>12 DEF CloseListener, AllClosed, GivesUp, CloseDB, StopStep, asked
<1>13. CASE Exit
  BY <1>13 DEF Exit, StopStep, asked
<1>14. CASE UNCHANGED vars
  BY <1>14 DEF vars, stopping, asked, history
<1> QED
  BY <1>1, <1>2, <1>3, <1>4, <1>5, <1>6, <1>7, <1>8, <1>9, <1>10, <1>11, <1>12, <1>13, <1>14
     DEF Next, LoopStep, Stops, Query

(* Once Stop has begun no handler that still has to ask gets an answer:      *)
(* LateAreRefused.                                                           *)
THEOREM NoneRoutedLate == Spec => []LateAreRefused
<1>1. Init => LateInv
  BY DEF Init, LateInv, Routed, Cancelled
<1>2. LateInv => LateAreRefused
  BY DEF LateInv, LateAreRefused
<1> QED
  BY <1>1, <1>2, LateNext, TypeCorrect, PTL DEF Spec
-----------------------------------------------------------------------------
(* Whoever is routed was let in.  The history of a handler that asks has the *)
(* tables as they are; what it concluded from an answer holds of some entry  *)
(* of the history, and goes on to hold because the history only grows.       *)

LetIn(c) ==
  \E row \in rowsSince[c] \ {NoRow}, table \in teamsSince[c] : Admits(c, row, table)
Sent(c) == \E row \in rowsSince[c] \ {NoRow} : target[c] = Backend(row.addr)
HasListed(c) ==
  \E row \in rowsSince[c] \ {NoRow} : row.org = OrgOf[c] /\ listed[c] = row.teams

Concluded(c) ==
  /\ pc[c] \in Queries => hosts[sni[c]] \in rowsSince[c] /\ teams \in teamsSince[c]
  /\ pc[c] = "inTeams" => HasListed(c)
  /\ pc[c] = "address" => LetIn(c)
  /\ target[c] # None => LetIn(c) /\ Sent(c)
  /\ pc[c] \notin Routed \cup {"done"} => target[c] = None

RouteInv == \A c \in Conns : Concluded(c)

(* A step that leaves a handler where it is, and its history no poorer.      *)
LEMMA Unmoved ==
  ASSUME NEW c \in Conns, Concluded(c),
         pc'[c] = pc[c], target'[c] = target[c], listed'[c] = listed[c],
         rowsSince[c] \subseteq rowsSince'[c], teamsSince[c] \subseteq teamsSince'[c],
         pc[c] \in Queries => hosts'[sni[c]] \in rowsSince'[c] /\ teams' \in teamsSince'[c]
  PROVE  Concluded(c)'
<1>1. HasListed(c) => HasListed(c)'
  BY DEF HasListed
<1>2. LetIn(c) => LetIn(c)'
  <2>1. \A row, table : Admits(c, row, table)' <=> Admits(c, row, table)
    BY DEF Admits, Member
  <2> QED
    BY <2>1 DEF LetIn
<1>3. Sent(c) => Sent(c)'
  BY DEF Sent, Backend
<1> QED
  BY <1>1, <1>2, <1>3 DEF Concluded

(* A step of one handler, of the accept loop or of Stop, that does not touch *)
(* the tables: the other handlers are unmoved.                               *)
LEMMA Others ==
  ASSUME TypeOK, RouteInv, NEW d \in Conns, UNCHANGED tables,
         \A c \in Conns \ {d} :
            /\ pc'[c] = pc[c] /\ target'[c] = target[c] /\ listed'[c] = listed[c]
            /\ rowsSince'[c] = rowsSince[c] /\ teamsSince'[c] = teamsSince[c],
         Concluded(d)'
  PROVE  RouteInv'
<1> SUFFICES ASSUME NEW c \in Conns PROVE Concluded(c)'
  BY DEF RouteInv
<1>1. CASE c = d
  BY <1>1
<1>2. CASE c # d
  BY <1>2, Unmoved DEF RouteInv, Concluded, tables
<1> QED
  BY <1>1, <1>2

LEMMA RouteReturn ==
  ASSUME TypeOK, RouteInv, NEW c \in Conns, Return(c) PROVE RouteInv'
<1>1. Concluded(c)'
  BY DEF TypeOK, Return, Concluded, Routed, Queries
<1> QED
  BY <1>1, Others DEF TypeOK, Return

LEMMA RouteAuthorize ==
  ASSUME TypeOK, RouteInv, NEW c \in Conns, Authorize(c) PROVE RouteInv'
<1> DEFINE row == hosts[sni[c]]
<1>1. /\ pc[c] = "authorize" /\ target[c] = None
      /\ row \in rowsSince[c] /\ teams \in teamsSince[c]
  BY DEF Authorize, Answered, RouteInv, Concluded, Queries, Routed
<1>2. CASE Return(c)
  BY <1>2, RouteReturn
<1>3. CASE /\ GoOn(c, "address") /\ UNCHANGED <<listed, target>>
           /\ row # NoRow /\ row.org = OrgOf[c] /\ who[c] \in row.users
  <2>1. Admits(c, row, teams)
    BY <1>3 DEF Admits
  <2>2. LetIn(c)
    BY <1>1, <1>3, <2>1 DEF LetIn
  <2>3. LetIn(c)'
    BY <1>3, <2>2 DEF LetIn, Admits, Member, GoOn, history
  <2>4. Concluded(c)'
    BY <1>1, <1>3, <2>3 DEF Concluded, GoOn, history, tables, TypeOK, Queries, Routed
  <2> QED
    BY <1>3, <2>4, Others DEF GoOn, history, TypeOK
<1>4. CASE /\ GoOn(c, "inTeams") /\ UNCHANGED target
           /\ row # NoRow /\ row.org = OrgOf[c]
           /\ listed' = [listed EXCEPT ![c] = row.teams]
  <2>1. HasListed(c)'
    BY <1>1, <1>4 DEF HasListed, GoOn, history, TypeOK
  <2>2. Concluded(c)'
    BY <1>1, <1>4, <2>1 DEF Concluded, GoOn, history, tables, TypeOK, Queries, Routed
  <2> QED
    BY <1>4, <2>2, Others DEF GoOn, history, TypeOK
<1> QED
  BY <1>2, <1>3, <1>4 DEF Authorize

LEMMA RouteInTeams ==
  ASSUME TypeOK, RouteInv, NEW c \in Conns, InTeams(c) PROVE RouteInv'
<1>1. /\ pc[c] = "inTeams" /\ target[c] = None /\ HasListed(c)
      /\ hosts[sni[c]] \in rowsSince[c] /\ teams \in teamsSince[c]
  BY DEF InTeams, Answered, RouteInv, Concluded, Queries, Routed
<1>2. CASE Return(c)
  BY <1>2, RouteReturn
<1>3. CASE /\ GoOn(c, "address") /\ UNCHANGED <<listed, target>>
           /\ \E t \in listed[c] : Member(c, t, teams)
  <2>1. LetIn(c)
    BY <1>1, <1>3 DEF HasListed, LetIn, Admits
  <2>2. LetIn(c)'
    BY <1>3, <2>1 DEF LetIn, Admits, Member, GoOn, history
  <2>3. Concluded(c)'
    BY <1>1, <1>3, <2>2 DEF Concluded, GoOn, history, tables, TypeOK, Queries, Routed
  <2> QED
    BY <1>3, <2>3, Others DEF GoOn, history, TypeOK
<1> QED
  BY <1>2, <1>3 DEF InTeams

LEMMA RouteAddress ==
  ASSUME TypeOK, RouteInv, NEW c \in Conns, Address(c) PROVE RouteInv'
<1> DEFINE row == hosts[sni[c]]
<1>1. /\ pc[c] = "address" /\ LetIn(c) /\ row \in rowsSince[c]
  BY DEF Address, Answered, RouteInv, Concluded, Queries
<1>2. CASE Return(c)
  BY <1>2, RouteReturn
<1>3. CASE /\ GoOn(c, "request") /\ UNCHANGED listed /\ row # NoRow
           /\ target' = [target EXCEPT ![c] = Backend(row.addr)]
  <2>1. LetIn(c)'
    BY <1>1, <1>3 DEF LetIn, Admits, Member, GoOn, history
  <2>2. Sent(c)'
    BY <1>1, <1>3 DEF Sent, Backend, GoOn, history, TypeOK
  <2>3. Concluded(c)'
    BY <1>3, <2>1, <2>2 DEF Concluded, GoOn, TypeOK, Queries, Routed
  <2> QED
    BY <1>3, <2>3, Others DEF GoOn, history, TypeOK
<1> QED
  BY <1>2, <1>3 DEF Address

LEMMA RouteNext == TypeOK /\ RouteInv /\ [Next]_vars => RouteInv'
<1> SUFFICES ASSUME TypeOK, RouteInv, [Next]_vars PROVE RouteInv'
  OBVIOUS
<1>1. ASSUME NEW id \in ConnectIDs, ChangeHost(id) PROVE RouteInv'
  <2> SUFFICES ASSUME NEW c \in Conns PROVE Concluded(c)'
    BY DEF RouteInv
  <2>1. rowsSince[c] \subseteq rowsSince'[c]
    BY <1>1 DEF ChangeHost
  <2>2. pc[c] \in Queries => hosts'[sni[c]] \in rowsSince'[c]
    BY <1>1, NamedAssumption DEF ChangeHost, Asking, TypeOK, RouteInv, Concluded
  <2> QED
    BY <1>1, <2>1, <2>2, Unmoved DEF ChangeHost, asked, RouteInv, Concluded
<1>2. ASSUME NEW t \in Teams, ChangeTeam(t) PROVE RouteInv'
  <2> SUFFICES ASSUME NEW c \in Conns PROVE Concluded(c)'
    BY DEF RouteInv
  <2>1. teamsSince[c] \subseteq teamsSince'[c]
    BY <1>2 DEF ChangeTeam
  <2>2. pc[c] \in Queries => teams' \in teamsSince'[c]
    BY <1>2 DEF ChangeTeam, Asking
  <2> QED
    BY <1>2, <2>1, <2>2, Unmoved DEF ChangeTeam, asked, RouteInv, Concluded
<1>3. ASSUME NEW c \in Conns, Accept(c) \/ Spawn(c) PROVE RouteInv'
  <2>1. Concluded(c)'
    BY <1>3 DEF Accept, Spawn, Step, RouteInv, Concluded, asked, history, TypeOK, Queries, Routed
  <2> QED
    BY <1>3, <2>1, Others DEF Accept, Spawn, Step, asked, history, TypeOK
<1>4. ASSUME NEW c \in Conns, Handshake(c) PROVE RouteInv'
  <2>1. Concluded(c)'
    BY <1>4 DEF Handshake, Step, RouteInv, Concluded, asked, tables, TypeOK, Queries, Routed
  <2> QED
    BY <1>4, <2>1, Others DEF Handshake, Step, asked, TypeOK
<1>5. ASSUME NEW c \in Conns, Authorize(c) \/ InTeams(c) \/ Address(c) PROVE RouteInv'
  BY <1>5, RouteAuthorize, RouteInTeams, RouteAddress
<1>6. ASSUME NEW c \in Conns, Request(c) \/ Dialed(c) PROVE RouteInv'
  <2>1. /\ pc'[c] \in Routed /\ UNCHANGED <<tables, asked, history>>
        /\ target[c] # None => LetIn(c) /\ Sent(c)
    BY <1>6 DEF Request, Dialed, Step, RouteInv, Concluded, TypeOK, Routed
  <2>2. (LetIn(c) <=> LetIn(c)') /\ (Sent(c) <=> Sent(c)')
    BY <2>1 DEF LetIn, Sent, Admits, Member, Backend, asked, history
  <2>3. Concluded(c)'
    BY <2>1, <2>2 DEF Concluded, asked, Routed, Queries
  <2> QED
    BY <1>6, <2>3, Others DEF Request, Dialed, Step, asked, history, TypeOK
<1>7. ASSUME NEW c \in Conns, Ends(c) PROVE RouteInv'
  BY <1>7, RouteReturn DEF Ends
<1>8. ASSUME UNCHANGED <<tables, pc, asked, rowsSince, teamsSince>> PROVE RouteInv'
  <2> SUFFICES ASSUME NEW c \in Conns PROVE Concluded(c)'
    BY DEF RouteInv
  <2> QED
    BY <1>8, Unmoved DEF RouteInv, Concluded, tables, asked
<1>9. CASE Exit
  <2> SUFFICES ASSUME NEW c \in Conns PROVE Concluded(c)'
    BY DEF RouteInv
  <2>1. pc'[c] = "done" /\ UNCHANGED <<tables, asked, rowsSince, teamsSince>>
    BY <1>9 DEF Exit, StopStep
  <2>2. (LetIn(c) <=> LetIn(c)') /\ (Sent(c) <=> Sent(c)')
    BY <2>1 DEF LetIn, Sent, Admits, Member, Backend, asked
  <2> QED
    BY <2>1, <2>2 DEF RouteInv, Concluded, asked, Queries
<1>10. ASSUME NEW c \in Conns, Acquire(c) PROVE RouteInv'
  BY <1>10, <1>8 DEF Acquire, history
<1>11. CASE AcceptEnds \/ Cancel \/ CloseListener \/ AllClosed \/ GivesUp \/ CloseDB
  BY <1>11, <1>8
     DEF AcceptEnds, Cancel, CloseListener, AllClosed, GivesUp, CloseDB, StopStep, history
<1>12. CASE UNCHANGED vars
  BY <1>12, <1>8 DEF vars, history
<1> QED
  BY <1>1, <1>2, <1>3, <1>4, <1>5, <1>6, <1>7, <1>9, <1>10, <1>11, <1>12
     DEF Next, LoopStep, Stops, Query

(* Nobody is sent to a backend on the strength of what the tables said       *)
(* before its connection was made, nor into another organization than its    *)
(* own unless the host moved there meanwhile: RoutedAsAllowed.               *)
THEOREM Allowed == Spec => []RoutedAsAllowed
<1>1. Init => RouteInv
  BY DEF Init, RouteInv, Concluded, Queries
<1>2. RouteInv => RoutedAsAllowed
  <2> SUFFICES ASSUME RouteInv, NEW c \in Conns, target[c] # None
               PROVE  /\ \E row \in Since(c), table \in teamsSince[c] : Admits(c, row, table)
                      /\ \E row \in Since(c) :
                           /\ target[c] = IF row.addr \in WellFormed THEN row.addr ELSE Self
                           /\ OneOrg(c) => row.org = OrgOf[c]
    BY DEF RoutedAsAllowed
  <2>1. LetIn(c) /\ Sent(c)
    BY DEF RouteInv, Concluded
  <2>2. PICK row \in Since(c) : \E table \in teamsSince[c] : Admits(c, row, table)
    BY <2>1 DEF LetIn, Since
  <2>3. PICK other \in Since(c) : target[c] = Backend(other.addr)
    BY <2>1 DEF Sent, Since
  <2>4. OneOrg(c) => other.org = OrgOf[c]
    BY <2>2 DEF OneOrg, Admits
  <2> QED
    BY <2>2, <2>3, <2>4 DEF Backend
<1> QED
  BY <1>1, <1>2, RouteNext, TypeCorrect, PTL DEF Spec
=============================================================================
