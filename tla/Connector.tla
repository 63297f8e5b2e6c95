------------------------------ MODULE Connector ------------------------------
(***************************************************************************)
(* The connector (pkg/connector): it accepts TLS connections, asks the     *)
(* database whether the user may reach the host the connection names and   *)
(* where that host is, and relays; Stop ends it, with patience for 30 s.   *)
(*                                                                         *)
(* A connection and its handler share a name.  The tables are changed by   *)
(* others at any time, so each query is a step of its own, and holds one   *)
(* of PoolSize pooled connections while it runs.                           *)
(***************************************************************************)
EXTENDS Naturals, FiniteSets

CONSTANTS
  Conns,       (* connections, each accepted at most once                  *)
  ConnectIDs,  (* what a connection may name in its SNI                    *)
  who,         (* the user in the certificate of each connection           *)
  OrgOf,       (* the organization in it                                   *)
  sni,         (* the connect id each connection names                     *)
  Teams,
  HostRows,    (* what a row of backend_hosts may be                       *)
  TeamRows,    (* what a row of teams may be                               *)
  NoRow,       (* a connect id without a row                               *)
  WellFormed,  (* addresses that net.SplitHostPort takes apart             *)
  NoAddr,      (* an empty internal_ip_addr                                *)
  Self,        (* what an empty host name means to Dial: this machine      *)
  None,        (* no backend chosen yet                                    *)
  PoolSize,    (* MaxOpenConns                                             *)
  MaxChanges   (* bound: changes of the tables                             *)

ASSUME RowsAssumption ==
  /\ \A row \in HostRows :
       DOMAIN row = {"addr", "org", "users", "teams"} /\ row.teams \subseteq Teams
  /\ \A row \in TeamRows : DOMAIN row = {"org", "users"}
  /\ NoRow \notin HostRows
  /\ \A row \in HostRows : row.addr # None
  /\ Self # None
ASSUME SizesAssumption == PoolSize \in Nat \ {0} /\ MaxChanges \in Nat
ASSUME NamesAssumption == "loop" \notin Conns
ASSUME NamedAssumption == sni \in [Conns -> ConnectIDs]

VARIABLES
  hosts, teams, (* the tables backend_hosts and teams                       *)
  changes,      (* how often they were changed                              *)
  pc,           (* what each connection's handler does next                 *)
  listed,       (* the teams its handler read in the host's row             *)
  target,       (* the backend its handler was told to dial                 *)
  busy,         (* handlers with a query under way                          *)
  loop,         (* the accept loop                                          *)
  wg,           (* who is counted by p.wg: handlers, and the accept loop    *)
  stop,         (* how far Stop has come                                    *)
  graceful,     (* Stop saw the end of every handler                        *)
  rowsSince, teamsSince, (* history: the tables since a handler began to    *)
                         (* ask, as far as they concern it                  *)
  late          (* history: handlers with a query still to begin when Stop   *)
                (* began                                                     *)

tables == <<hosts, teams, changes>>
history == <<rowsSince, teamsSince, late>>
asked == <<listed, target>>
stopping == <<stop, graceful>>
vars == <<tables, pc, asked, busy, loop, wg, stopping, history>>

Queries == {"authorize", "inTeams", "address"}
TypeOK ==
  /\ hosts \in [ConnectIDs -> HostRows \cup {NoRow}]
  /\ teams \in [Teams -> TeamRows]
  /\ changes \in 0..MaxChanges
  /\ pc \in [Conns -> Queries \cup
              {"idle", "accepted", "handshake", "request", "dial", "relay", "done"}]
  /\ listed \in [Conns -> SUBSET Teams]
  /\ target \in [Conns -> {row.addr : row \in HostRows} \cup {Self, None}]
  /\ busy \subseteq Conns
  /\ loop \in {"accepting", "holding", "done"}
  /\ wg \subseteq Conns \cup {"loop"}
  /\ stop \in {"up", "cancelled", "waiting", "closeDB", "closingDB", "exited"}
  /\ graceful \in BOOLEAN
  /\ rowsSince \in [Conns -> SUBSET (HostRows \cup {NoRow})]
  /\ teamsSince \in [Conns -> SUBSET [Teams -> TeamRows]]
  /\ late \subseteq Conns

(* Start has counted the accept loop and started it.                         *)
Init ==
  /\ hosts \in [ConnectIDs -> HostRows \cup {NoRow}]
  /\ teams \in [Teams -> TeamRows]
  /\ changes = 0
  /\ pc = [c \in Conns |-> "idle"]
  /\ listed = [c \in Conns |-> {}]
  /\ target = [c \in Conns |-> None]
  /\ busy = {} /\ loop = "accepting" /\ wg = {"loop"}
  /\ stop = "up" /\ graceful = FALSE
  /\ rowsSince = [c \in Conns |-> {}] /\ teamsSince = [c \in Conns |-> {}]
  /\ late = {}

Cancelled == stop # "up"
Step(c, from, to) == pc[c] = from /\ pc' = [pc EXCEPT ![c] = to]

-----------------------------------------------------------------------------
(* The tables are changed by others.                                         *)

Asking == {c \in Conns : pc[c] \in Queries}

ChangeHost(id) ==
  /\ changes < MaxChanges /\ changes' = changes + 1
  /\ \E row \in HostRows \cup {NoRow} :
       /\ hosts' = [hosts EXCEPT ![id] = row]
       /\ rowsSince' = [c \in Conns |-> IF c \in Asking /\ sni[c] = id
                                        THEN rowsSince[c] \cup {row} ELSE rowsSince[c]]
  /\ UNCHANGED <<teams, pc, asked, busy, loop, wg, stopping, teamsSince, late>>

ChangeTeam(t) ==
  /\ changes < MaxChanges /\ changes' = changes + 1
  /\ \E row \in TeamRows : teams' = [teams EXCEPT ![t] = row]
  /\ teamsSince' = [c \in Conns |-> IF c \in Asking THEN teamsSince[c] \cup {teams'}
                                                    ELSE teamsSince[c]]
  /\ UNCHANGED <<hosts, pc, asked, busy, loop, wg, stopping, rowsSince, late>>

-----------------------------------------------------------------------------
(* acceptConnections: accept, count, start the handler.                      *)

Accept(c) ==
  /\ loop = "accepting" /\ loop' = "holding"
  /\ stop \in {"up", "cancelled"}
  /\ Step(c, "idle", "accepted")
  /\ UNCHANGED <<tables, asked, busy, wg, stopping, history>>

(* A variant the runs must reject: the handler is not counted.               *)
UncountedSpawn(c) ==
  /\ Step(c, "accepted", "handshake")
  /\ loop' = "accepting"
  /\ UNCHANGED <<tables, asked, busy, wg, stopping, history>>

Spawn(c) ==
  /\ Step(c, "accepted", "handshake")
  /\ loop' = "accepting"
  /\ wg' = wg \cup {c}
  /\ UNCHANGED <<tables, asked, busy, stopping, history>>

(* Accept fails and the context is done.  (When it is not, the loop goes on.) *)
AcceptEnds ==
  /\ loop = "accepting" /\ Cancelled
  /\ loop' = "done"
  /\ wg' = wg \ {"loop"}
  /\ UNCHANGED <<tables, pc, asked, busy, stopping, history>>

-----------------------------------------------------------------------------
(* handleConnection                                                          *)

(* The handler returns: the deferred Done; what it knew is forgotten, and a  *)
(* query it gives up goes back to the pool.                                  *)
Return(c) ==
  /\ pc' = [pc EXCEPT ![c] = "done"]
  /\ wg' = wg \ {c}
  /\ busy' = busy \ {c}
  /\ listed' = [listed EXCEPT ![c] = {}]
  /\ target' = [target EXCEPT ![c] = None]
  /\ rowsSince' = [rowsSince EXCEPT ![c] = {}]
  /\ teamsSince' = [teamsSince EXCEPT ![c] = {}]
  /\ UNCHANGED <<tables, loop, stopping, late>>

(* The handshake took place, certificate and SNI are what they should be.    *)
Handshake(c) ==
  /\ Step(c, "handshake", "authorize")
  /\ rowsSince' = [rowsSince EXCEPT ![c] = {hosts[sni[c]]}]
  /\ teamsSince' = [teamsSince EXCEPT ![c] = {teams}]
  /\ UNCHANGED <<tables, asked, busy, loop, wg, stopping, late>>

(* A variant the runs must reject: the query's context is not the proxy's.   *)
UncancelledAcquire(c) ==
  /\ c \in Asking \ busy
  /\ stop \notin {"closingDB", "exited"} /\ Cardinality(busy) < PoolSize
  /\ busy' = busy \cup {c}
  /\ UNCHANGED <<tables, pc, asked, loop, wg, stopping, history>>

(* QueryRow takes a connection from the pool, unless the context is done or  *)
(* the pool is closed.                                                       *)
Acquire(c) ==
  /\ c \in Asking \ busy
  /\ ~Cancelled /\ Cardinality(busy) < PoolSize
  /\ busy' = busy \cup {c}
  /\ UNCHANGED <<tables, pc, asked, loop, wg, stopping, history>>

(* Scan reads the answer to query q and gives the connection back.  An       *)
(* answer that was under way may still be read when the context is done.     *)
Answered(c, q) == pc[c] = q /\ c \in busy
GoOn(c, next) ==
  /\ pc' = [pc EXCEPT ![c] = next]
  /\ busy' = busy \ {c}
  /\ UNCHANGED <<tables, loop, wg, stopping, history>>

(* A variant the runs must reject: a user id is taken for enough, whatever   *)
(* organization it is in.                                                    *)
UncheckedAuthorize(c) ==
  LET row == hosts[sni[c]]
  IN /\ Answered(c, "authorize")
     /\ \/ /\ row # NoRow /\ who[c] \in row.users
           /\ GoOn(c, "address")
           /\ UNCHANGED <<listed, target>>
        \/ /\ row # NoRow /\ who[c] \notin row.users /\ row.teams # {}
           /\ GoOn(c, "inTeams")
           /\ listed' = [listed EXCEPT ![c] = row.teams]
           /\ UNCHANGED target
        \/ /\ row # NoRow => who[c] \notin row.users /\ row.teams = {}
           /\ Return(c)

(* IsUserAuthorized: the host's row, its organization, its users.            *)
Authorize(c) ==
  LET row == hosts[sni[c]]
      mine == row # NoRow /\ row.org = OrgOf[c]
  IN /\ Answered(c, "authorize")
     /\ \/ /\ mine /\ who[c] \in row.users
           /\ GoOn(c, "address")
           /\ UNCHANGED <<listed, target>>
        \/ /\ mine /\ who[c] \notin row.users /\ row.teams # {}
           /\ GoOn(c, "inTeams")
           /\ listed' = [listed EXCEPT ![c] = row.teams]
           /\ UNCHANGED target
        \/ /\ mine => who[c] \notin row.users /\ row.teams = {}
           /\ Return(c)

(* isUserInTeams: one of the teams that were listed in the row.              *)
Member(c, t, table) == table[t].org = OrgOf[c] /\ who[c] \in table[t].users
InTeams(c) ==
  /\ Answered(c, "inTeams")
  /\ \/ /\ \E t \in listed[c] : Member(c, t, teams)
        /\ GoOn(c, "address")
        /\ UNCHANGED <<listed, target>>
     \/ /\ ~ \E t \in listed[c] : Member(c, t, teams)
        /\ Return(c)

(* The row is read again for the address.  An address that cannot be split   *)
(* is logged, and the empty host name used.                                  *)
Backend(addr) == IF addr \in WellFormed THEN addr ELSE Self
Address(c) ==
  LET row == hosts[sni[c]]
      found == row # NoRow /\ row.addr # NoAddr
  IN /\ Answered(c, "address")
     /\ \/ /\ found
           /\ GoOn(c, "request")
           /\ target' = [target EXCEPT ![c] = Backend(row.addr)]
           /\ UNCHANGED listed
        \/ ~found /\ Return(c)

(* RouteAndProxy: the first line of the request, then the dial.              *)
Request(c) ==
  /\ Step(c, "request", "dial")
  /\ UNCHANGED <<tables, asked, busy, loop, wg, stopping, history>>

Dialed(c) ==
  /\ Step(c, "dial", "relay")
  /\ UNCHANGED <<tables, asked, busy, loop, wg, stopping, history>>

(* The handler returns: the handshake fails or the identity is not valid; a  *)
(* query fails, or is given up after 30 s or when the context is done; the   *)
(* client goes; the backend cannot be reached; the relay has ended.          *)
Ends(c) ==
  /\ pc[c] \in Queries \cup {"handshake", "request", "dial", "relay"}
  /\ Return(c)

-----------------------------------------------------------------------------
(* Stop, called by main                                                      *)

StopStep(from, to) ==
  /\ stop = from /\ stop' = to
  /\ UNCHANGED <<tables, asked, busy, loop, wg, rowsSince, teamsSince>>

Cancel ==
  /\ StopStep("up", "cancelled")
  /\ late' = {c \in Conns : \/ pc[c] \in {"idle", "accepted", "handshake", "authorize", "inTeams"}
                            \/ pc[c] = "address" /\ c \notin busy}
  /\ UNCHANGED <<pc, graceful>>

CloseListener == StopStep("cancelled", "waiting") /\ UNCHANGED <<pc, graceful, late>>

(* wg.Wait has returned ...                                                  *)
AllClosed ==
  /\ wg = {}
  /\ StopStep("waiting", "closeDB")
  /\ graceful' = TRUE
  /\ UNCHANGED <<pc, late>>

(* A variant the runs must reject: no time limit.                            *)
PatientGivesUp == wg = {} /\ StopStep("waiting", "closeDB") /\ UNCHANGED <<pc, graceful, late>>

(* ... or 30 seconds have passed.                                            *)
GivesUp == StopStep("waiting", "closeDB") /\ UNCHANGED <<pc, graceful, late>>

(* pool.Close lets no new query in, and waits for those under way.           *)
CloseDB == StopStep("closeDB", "closingDB") /\ UNCHANGED <<pc, graceful, late>>

(* Then Stop and main return, and the process is gone.                       *)
Exit ==
  /\ busy = {}
  /\ StopStep("closingDB", "exited")
  /\ pc' = [c \in Conns |-> "done"]
  /\ UNCHANGED <<graceful, late>>

-----------------------------------------------------------------------------
Query(c) ==
  \/ Acquire(c) \/ Authorize(c) \/ InTeams(c) \/ Address(c)
  \/ pc[c] \in Queries /\ Ends(c)
LoopStep == AcceptEnds \/ \E c \in Conns : Spawn(c)
Stops == AllClosed \/ GivesUp \/ CloseListener \/ CloseDB \/ Exit

Next ==
  /\ stop # "exited"
  /\ \/ LoopStep \/ Stops \/ Cancel
     \/ \E c \in Conns : Accept(c) \/ Query(c) \/ Handshake(c) \/ Request(c) \/ Dialed(c) \/ Ends(c)
     \/ \E id \in ConnectIDs : ChangeHost(id)
     \/ \E t \in Teams : ChangeTeam(t)

Spec == Init /\ [][Next]_vars

(* A query ends, at the latest when its 30 s are over; the accept loop and   *)
(* Stop go on.  Clients and backends owe nothing.                            *)
FairSpec ==
  /\ Spec
  /\ \A c \in Conns : WF_vars(Query(c))
  /\ WF_vars(LoopStep) /\ WF_vars(Stops)

-----------------------------------------------------------------------------
(* Properties.                                                               *)

(* The row, and the teams at that time or another, let c's user in.          *)
Admits(c, row, table) ==
  /\ row.org = OrgOf[c]
  /\ who[c] \in row.users \/ \E t \in row.teams : Member(c, t, table)

(* The rows the host of c had since the handshake.                           *)
Since(c) == rowsSince[c] \ {NoRow}
OneOrg(c) == \A row, other \in Since(c) : row.org = other.org

(* Whoever is sent to a backend was let in by what the tables said after its *)
(* handshake: whatever is changed between the two reads of the row and the   *)
(* one of the teams, access withdrawn before a connection is made is never   *)
(* granted to it.  It is sent to an address the host had since then or, if   *)
(* the host had one that cannot be split, to this machine.  That may be a    *)
(* later row than the one that let it in; but unless the host has moved from *)
(* one organization to another meanwhile it is a row of the user's own.      *)
RoutedAsAllowed ==
  \A c \in Conns : target[c] # None =>
    /\ \E row \in Since(c), table \in teamsSince[c] : Admits(c, row, table)
    /\ \E row \in Since(c) :
         /\ target[c] = IF row.addr \in WellFormed THEN row.addr ELSE Self
         /\ OneOrg(c) => row.org = OrgOf[c]

(* A connection whose handler had a query to begin when Stop began, or that  *)
(* slipped in before the listener was closed, is not sent to any backend.    *)
LateAreRefused == \A c \in late : target[c] = None

(* When Stop reports that all connections closed gracefully, no handler is   *)
(* at work and none will start: the accept loop cannot add one behind the    *)
(* back of wg.Wait.                                                          *)
GracefulMeansQuiet ==
  graceful => loop = "done" /\ \A c \in Conns : pc[c] \in {"idle", "done"}

(* Stop comes to its end and so does the process, whatever clients, backends *)
(* and handlers do: it waits for them for 30 s, and for queries only as long *)
(* as these are given.                                                       *)
StopEnds == stop = "cancelled" ~> stop = "exited"
=============================================================================
