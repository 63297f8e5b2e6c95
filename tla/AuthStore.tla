------------------------------- MODULE AuthStore -------------------------------
(***************************************************************************)
(* tsctl auth login, switch-org and logout (pkg/tsctl/auth): processes     *)
(* that read and rewrite ~/.tinyscale/auth.json as a whole, without a      *)
(* lock, and the goroutine selectOrganization starts to refresh the tokens *)
(* while its process goes on with the old ones.                            *)
(*                                                                         *)
(* os.WriteFile is two steps, a truncation and a write at offset 0, so     *)
(* that a reader or the end of the process may come between them, and two  *)
(* writers may leave a mixture behind.                                     *)
(***************************************************************************)
EXTENDS Naturals, FiniteSets

CONSTANTS
  Commands,  (* runs of tsctl auth; a login is named by the run that did it*)
  Orgs,      (* what a user can choose from                                *)
  None,      (* no organization chosen yet                                 *)
  Absent,    (* no auth.json                                               *)
  Empty,     (* an auth.json that was truncated and not yet written        *)
  Mixed,     (* an auth.json with the end of another text: not JSON        *)
  MaxGen     (* bound: refreshes of one login's tokens                     *)

ASSUME MaxGenAssumption == MaxGen \in Nat

(* Tokens are known by the login they stem from and how often they were      *)
(* refreshed since; an organization, by the user it was listed for.          *)
Data == [login : Commands, gen : 0..MaxGen, org : {None} \cup (Commands \X Orgs)]

ASSUME FileAssumption ==
  /\ Absent \notin Data /\ Empty \notin Data /\ Mixed \notin Data
  /\ Cardinality({Absent, Empty, Mixed}) = 3
  /\ None \notin Commands \X Orgs

VARIABLES
  file,    (* auth.json                                                    *)
  pc,      (* what the main goroutine of each command does next            *)
  held,    (* the AuthData it has in memory, Absent without one            *)
  rpc,     (* what its refreshTokenAsync goroutine does next               *)
  fresh,   (* what that goroutine got, then what it is about to save       *)
  open,    (* the descriptors that are on the file called auth.json        *)
  issued,  (* the identity provider: the last refresh of each login        *)
  last,    (* history: the last login or logout that took effect           *)
  overlap  (* history: a command was started while another one ran         *)

vars == <<file, pc, held, rpc, fresh, open, issued, last, overlap>>

Writers == Commands \X {"main", "refresh"}

TypeOK ==
  /\ file \in Data \cup {Absent, Empty, Mixed}
  /\ pc \in [Commands -> {"idle", "truncate", "write", "select", "orgs",
                          "truncate2", "write2", "chosen", "exit", "remove", "done"}]
  /\ held \in [Commands -> Data \cup {Absent}]
  /\ rpc \in [Commands -> {"none", "asking", "load", "truncate", "write"}]
  /\ fresh \in [Commands -> Data \cup {Absent}]
  /\ open \subseteq Writers
  /\ issued \in [Commands -> 0..MaxGen]
  /\ last \in Commands \cup {Absent}
  /\ overlap \in BOOLEAN

Init ==
  /\ file = Absent
  /\ pc = [p \in Commands |-> "idle"]
  /\ held = [p \in Commands |-> Absent]
  /\ rpc = [p \in Commands |-> "none"]
  /\ fresh = [p \in Commands |-> Absent]
  /\ open = {}
  /\ issued = [p \in Commands |-> 0]
  /\ last = Absent
  /\ overlap = FALSE

-----------------------------------------------------------------------------
Step(p, from, to) == pc[p] = from /\ pc' = [pc EXCEPT ![p] = to]
RefreshStep(p, from, to) == rpc[p] = from /\ rpc' = [rpc EXCEPT ![p] = to]

Starts(p, to) ==
  /\ Step(p, "idle", to)
  /\ overlap' = (overlap \/ \E q \in Commands : pc[q] \notin {"idle", "done"})

(* os.WriteFile opens and truncates ...                                      *)
TruncateFile(w) == file' = Empty /\ open' = open \cup {w}

(* ... and writes, if auth.json is still the file it opened.  What another   *)
(* writer put there since stays where it is longer.                          *)
WriteFile(w, d) ==
  /\ open' = open \ {w}
  /\ IF w \in open
       THEN file' \in IF file = Empty THEN {d} ELSE {d, Mixed}
       ELSE UNCHANGED file

(* The process ends, and its refreshTokenAsync goroutine with it.            *)
Ends(p) ==
  /\ rpc' = [rpc EXCEPT ![p] = "none"]
  /\ fresh' = [fresh EXCEPT ![p] = Absent]
  /\ open' = open \ {<<p, "main">>, <<p, "refresh">>}

-----------------------------------------------------------------------------
(* tsctl auth login and switch-org                                           *)

(* runLogin: the device flow ends with the tokens of a new login.            *)
Login(p) ==
  /\ Starts(p, "truncate")
  /\ held' = [held EXCEPT ![p] = [login |-> p, gen |-> 0, org |-> None]]
  /\ UNCHANGED <<file, rpc, fresh, open, issued, last>>

SaveTruncate(p) ==
  /\ \/ Step(p, "truncate", "write") \/ Step(p, "truncate2", "write2")
  /\ TruncateFile(<<p, "main">>)
  /\ UNCHANGED <<held, rpc, fresh, issued, last, overlap>>

(* SaveAuthData returns: the login goes on to selectOrganization, the        *)
(* selection has been stored.                                                *)
SaveWrite(p) ==
  /\ \/ Step(p, "write", "select") /\ last' = p
     \/ Step(p, "write2", "chosen") /\ UNCHANGED last
  /\ WriteFile(<<p, "main">>, held[p])
  /\ UNCHANGED <<held, rpc, fresh, issued, overlap>>

(* runSwitchOrg: without readable data it fails.                             *)
SwitchOrg(p) ==
  /\ Starts(p, IF file \in Data THEN "select" ELSE "done")
  /\ held' = [held EXCEPT ![p] = IF file \in Data THEN file ELSE Absent]
  /\ UNCHANGED <<file, rpc, fresh, open, issued, last>>

(* selectOrganization: an expired token ends the command; one that is due    *)
(* starts the refresh (the token of a login is new, and never due).          *)
Select(p) ==
  /\ \/ Step(p, "select", "exit") /\ UNCHANGED rpc
     \/ Step(p, "select", "orgs") /\ UNCHANGED rpc
     \/ /\ Step(p, "select", "orgs")
        /\ held[p].login # p
        /\ rpc' = [rpc EXCEPT ![p] = "asking"]
  /\ UNCHANGED <<file, held, fresh, open, issued, last, overlap>>

(* The list is fetched with the tokens in memory, and the user chooses; or   *)
(* that fails, and the command with it.                                      *)
Choose(p) ==
  /\ \/ Step(p, "orgs", "exit") /\ UNCHANGED held
     \/ /\ Step(p, "orgs", "truncate2")
        /\ \E o \in Orgs : held' = [held EXCEPT ![p].org = <<held[p].login, o>>]
  /\ UNCHANGED <<file, rpc, fresh, open, issued, last, overlap>>

(* A variant the runs must reject: the refresh outlives the command.         *)
LingeringExit(p) ==
  /\ \E from \in {"chosen", "exit"} : Step(p, from, "done")
  /\ UNCHANGED <<file, held, rpc, fresh, open, issued, last, overlap>>

(* The command has printed its result and returns.                           *)
Exit(p) ==
  /\ \E from \in {"chosen", "exit"} : Step(p, from, "done")
  /\ Ends(p)
  /\ UNCHANGED <<file, held, issued, last, overlap>>

-----------------------------------------------------------------------------
(* tsctl auth logout                                                         *)

(* runLogout: it reads the file first, and gives up if it cannot parse it.   *)
Logout(p) ==
  /\ Starts(p, IF file \in Data THEN "remove" ELSE "done")
  /\ UNCHANGED <<file, held, rpc, fresh, open, issued, last>>

ClearAuthData(p) ==
  /\ Step(p, "remove", "done")
  /\ file' = Absent
  /\ open' = {}
  /\ last' = Absent
  /\ UNCHANGED <<held, rpc, fresh, issued, overlap>>

-----------------------------------------------------------------------------
(* refreshTokenAsync                                                         *)

(* The provider accepts the refresh token it issued last, and issues the     *)
(* next one with the new id token, or the same; or the request fails.        *)
RefreshAnswer(p) ==
  LET l == held[p].login
  IN \/ /\ RefreshStep(p, "asking", "none")
        /\ UNCHANGED <<fresh, issued>>
     \/ /\ RefreshStep(p, "asking", "load")
        /\ held[p].gen = issued[l]
        /\ \E g \in {issued[l], issued[l] + 1} :
             /\ g <= MaxGen
             /\ issued' = [issued EXCEPT ![l] = g]
             /\ fresh' = [fresh EXCEPT ![p] = [held[p] EXCEPT !.gen = g]]
RefreshAnswered(p) ==
  RefreshAnswer(p) /\ UNCHANGED <<file, pc, held, open, last, overlap>>

(* A variant the runs must reject: without the comparison of the tokens.     *)
UncheckedRefreshLoad(p) ==
  /\ RefreshStep(p, "load", IF file \in Data THEN "truncate" ELSE "none")
  /\ fresh' = [fresh EXCEPT ![p] = IF file \in Data THEN [@ EXCEPT !.org = file.org]
                                                    ELSE Absent]
  /\ UNCHANGED <<file, pc, held, open, issued, last, overlap>>

(* It reads the file again, goes on only if that has the tokens it           *)
(* refreshed, and puts the new ones in what it read.                         *)
RefreshLoad(p) ==
  LET matches == /\ file \in Data
                 /\ file.login = held[p].login /\ file.gen = held[p].gen
  IN /\ RefreshStep(p, "load", IF matches THEN "truncate" ELSE "none")
     /\ fresh' = [fresh EXCEPT ![p] = IF matches THEN [@ EXCEPT !.org = file.org]
                                                 ELSE Absent]
     /\ UNCHANGED <<file, pc, held, open, issued, last, overlap>>

RefreshTruncate(p) ==
  /\ RefreshStep(p, "truncate", "write")
  /\ TruncateFile(<<p, "refresh">>)
  /\ UNCHANGED <<pc, held, fresh, issued, last, overlap>>

RefreshWrite(p) ==
  /\ RefreshStep(p, "write", "none")
  /\ WriteFile(<<p, "refresh">>, fresh[p])
  /\ UNCHANGED <<pc, held, fresh, issued, last, overlap>>

-----------------------------------------------------------------------------
Next ==
  \E p \in Commands :
    \/ Login(p) \/ SaveTruncate(p) \/ SaveWrite(p)
    \/ SwitchOrg(p) \/ Select(p) \/ Choose(p) \/ Exit(p)
    \/ Logout(p) \/ ClearAuthData(p)
    \/ RefreshAnswered(p) \/ RefreshLoad(p) \/ RefreshTruncate(p) \/ RefreshWrite(p)

Spec == Init /\ [][Next]_vars

-----------------------------------------------------------------------------
Own(d) == d.org = None \/ d.org[1] = d.login

(* The active organization is one the user of the stored tokens was offered: *)
(* whatever commands and refreshes overlap, no file pairs the tokens of one  *)
(* login with the choice of another.                                         *)
OrgOfUser == file \in Data => Own(file)

(* The last login or logout stands while commands do not overlap: what is    *)
(* stored is its tokens, or nothing after a logout, and no refresh or        *)
(* selection for an earlier one replaces it, though refreshes do overlap     *)
(* the commands that started them.                                           *)
LastStands == ~overlap /\ file \in Data => file.login = last

(* A refresh replaces only the tokens it refreshed: "Only update if tokens   *)
(* still match (prevent overwriting newer auth)".                            *)
RefreshesItsOwn ==
  [][\A p \in Commands :
       rpc[p] = "truncate" /\ rpc'[p] = "write" /\ file \in Data
         => file.login = held[p].login]_vars
=============================================================================
