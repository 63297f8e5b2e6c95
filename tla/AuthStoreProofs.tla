---------------------------- MODULE AuthStoreProofs ----------------------------
(***************************************************************************)
(* Proof that auth.json never pairs the tokens of one login with the       *)
(* organization chosen under another, for any number of overlapping        *)
(* commands and refreshes.  Alone that is not inductive: it has to hold of *)
(* everything that may be written later too, which is what each command    *)
(* holds in memory and what each refresh has loaded and is about to save.  *)
(***************************************************************************)
EXTENDS AuthStore, TLAPS

(* The part of TypeOK the argument needs, with who has data in memory.       *)
Typed ==
  /\ file \in Data \cup {Absent, Empty, Mixed}
  /\ pc \in [Commands -> {"idle", "truncate", "write", "select", "orgs",
                          "truncate2", "write2", "chosen", "exit", "remove", "done"}]
  /\ rpc \in [Commands -> {"none", "asking", "load", "truncate", "write"}]
  /\ held \in [Commands -> Data \cup {Absent}]
  /\ fresh \in [Commands -> Data \cup {Absent}]
  /\ issued \in [Commands -> 0..MaxGen]

Loaded(p) ==
  /\ pc[p] \in {"truncate", "write", "orgs", "select", "truncate2", "write2"}
       => held[p] \in Data
  /\ rpc[p] # "none" => held[p] \in Data /\ pc[p] # "idle"

(* Everything in memory that reaches the file is of one user.                *)
MemoryOwn(p) ==
  /\ held[p] \in Data => Own(held[p])
  /\ rpc[p] = "load" => fresh[p] \in Data /\ fresh[p].login = held[p].login
  /\ rpc[p] \in {"truncate", "write"} => fresh[p] \in Data /\ Own(fresh[p])

IInv == Typed /\ OrgOfUser /\ \A p \in Commands : Loaded(p) /\ MemoryOwn(p)

-----------------------------------------------------------------------------
(* With no file and nothing in memory there is nothing to mix.               *)
LEMMA InitOK == Init => IInv
BY MaxGenAssumption, FileAssumption
DEF Init, IInv, Typed, OrgOfUser, Loaded, MemoryOwn

(* A command that works in its own memory leaves the file and the others.    *)
LEMMA LocalStep ==
  ASSUME IInv, Typed', NEW p \in Commands, Loaded(p)', MemoryOwn(p)', OrgOfUser',
         \A c \in Commands \ {p} : /\ pc'[c] = pc[c] /\ rpc'[c] = rpc[c]
                                   /\ held'[c] = held[c] /\ fresh'[c] = fresh[c]
  PROVE  IInv'
<1>1. ASSUME NEW c \in Commands \ {p} PROVE Loaded(c)' /\ MemoryOwn(c)'
  BY DEF IInv, Loaded, MemoryOwn
<1> QED BY <1>1 DEF IInv

(* What a write leaves in the file is what was there, what was written, or   *)
(* no JSON.                                                                  *)
LEMMA WriteOutcome ==
  ASSUME NEW w, NEW d \in Data, Own(d), Typed, OrgOfUser, WriteFile(w, d)
  PROVE  file' \in Data \cup {Absent, Empty, Mixed} /\ OrgOfUser'
BY FileAssumption DEF WriteFile, Typed, OrgOfUser, Own

(* A login starts from tokens of its own, without an organization.            *)
LEMMA LoginOK == ASSUME IInv, NEW p \in Commands, Login(p) PROVE IInv'
<1> DEFINE d == [login |-> p, gen |-> 0, org |-> None]
<1>1. d \in Data /\ Own(d) BY MaxGenAssumption DEF Data, Own
<1>2. Typed' /\ OrgOfUser' BY <1>1 DEF IInv, Typed, OrgOfUser, Login, Starts, Step
<1>3. /\ held'[p] = d /\ rpc' = rpc /\ fresh' = fresh /\ pc'[p] = "truncate"
      /\ rpc[p] = "none"
  BY DEF IInv, Typed, Login, Starts, Step, Loaded
<1>4. Loaded(p)' /\ MemoryOwn(p)' BY <1>1, <1>3 DEF Loaded, MemoryOwn
<1>5. \A c \in Commands \ {p} : /\ pc'[c] = pc[c] /\ rpc'[c] = rpc[c]
                                /\ held'[c] = held[c] /\ fresh'[c] = fresh[c]
  BY DEF IInv, Typed, Login, Starts, Step
<1> QED BY <1>2, <1>4, <1>5, LocalStep

(* A command writes what it holds, which is of one user.                     *)
LEMMA SaveOK ==
  ASSUME IInv, NEW p \in Commands, SaveTruncate(p) \/ SaveWrite(p) PROVE IInv'
<1>1. file' \in Data \cup {Absent, Empty, Mixed} /\ OrgOfUser'
  <2>1. CASE SaveTruncate(p)
    BY <2>1, FileAssumption DEF SaveTruncate, TruncateFile, OrgOfUser
  <2>2. CASE SaveWrite(p)
    <3>1. held[p] \in Data /\ Own(held[p])
      BY <2>2 DEF IInv, Loaded, MemoryOwn, SaveWrite, Step
    <3> QED BY <2>2, <3>1, WriteOutcome DEF SaveWrite, IInv
  <2> QED BY <2>1, <2>2
<1>2. Typed' BY <1>1 DEF IInv, Typed, SaveTruncate, SaveWrite, Step
<1>3. held' = held /\ rpc' = rpc /\ fresh' = fresh
  BY DEF SaveTruncate, SaveWrite
<1>4. Loaded(p)' /\ MemoryOwn(p)'
  BY <1>3 DEF IInv, Typed, Loaded, MemoryOwn, SaveTruncate, SaveWrite, Step
<1>5. \A c \in Commands \ {p} : pc'[c] = pc[c]
  BY DEF IInv, Typed, SaveTruncate, SaveWrite, Step
<1> QED BY <1>1, <1>2, <1>3, <1>4, <1>5, LocalStep

(* What switch-org loads is what the file has.                               *)
LEMMA SwitchOrgOK == ASSUME IInv, NEW p \in Commands, SwitchOrg(p) PROVE IInv'
<1>1. Typed' /\ OrgOfUser' BY DEF IInv, Typed, OrgOfUser, SwitchOrg, Starts, Step
<1>2. /\ rpc' = rpc /\ fresh' = fresh /\ rpc[p] = "none"
      /\ pc'[p] = IF file \in Data THEN "select" ELSE "done"
      /\ held'[p] = IF file \in Data THEN file ELSE Absent
  BY DEF IInv, Typed, SwitchOrg, Starts, Step, Loaded
<1>3. Loaded(p)' /\ MemoryOwn(p)'
  BY <1>2, FileAssumption DEF IInv, OrgOfUser, Loaded, MemoryOwn
<1>4. \A c \in Commands \ {p} : /\ pc'[c] = pc[c] /\ rpc'[c] = rpc[c]
                                /\ held'[c] = held[c] /\ fresh'[c] = fresh[c]
  BY DEF IInv, Typed, SwitchOrg, Starts, Step
<1> QED BY <1>1, <1>3, <1>4, LocalStep

(* Starting the refresh changes no data.                                     *)
LEMMA SelectOK == ASSUME IInv, NEW p \in Commands, Select(p) PROVE IInv'
<1>1. Typed' /\ OrgOfUser'
  BY DEF IInv, Typed, OrgOfUser, Select, Step, RefreshStep
<1>2. /\ held' = held /\ fresh' = fresh /\ held[p] \in Data
      /\ pc'[p] \in {"exit", "orgs"}
      /\ rpc'[p] = rpc[p] \/ rpc'[p] = "asking"
  BY DEF IInv, Typed, Select, Step, RefreshStep, Loaded
<1>3. Loaded(p)' /\ MemoryOwn(p)'
  BY <1>2 DEF IInv, Loaded, MemoryOwn
<1>4. \A c \in Commands \ {p} : pc'[c] = pc[c] /\ rpc'[c] = rpc[c]
  BY DEF IInv, Typed, Select, Step, RefreshStep
<1> QED BY <1>1, <1>2, <1>3, <1>4, LocalStep

(* The organization chosen was listed with the tokens held.                  *)
LEMMA ChooseOK == ASSUME IInv, NEW p \in Commands, Choose(p) PROVE IInv'
<1>1. CASE held' = held /\ Step(p, "orgs", "exit")
  <2>1. Typed' /\ OrgOfUser' BY <1>1 DEF IInv, Typed, OrgOfUser, Choose, Step
  <2>2. Loaded(p)' /\ MemoryOwn(p)'
    BY <1>1 DEF IInv, Typed, Loaded, MemoryOwn, Choose, Step
  <2>3. \A c \in Commands \ {p} : pc'[c] = pc[c]
    BY <1>1 DEF IInv, Typed, Step
  <2> QED BY <1>1, <2>1, <2>2, <2>3, LocalStep DEF Choose
<1>2. ASSUME NEW o \in Orgs, Step(p, "orgs", "truncate2"),
             held' = [held EXCEPT ![p].org = <<held[p].login, o>>]
      PROVE  IInv'
  <2>1. held[p] \in Data BY <1>2 DEF IInv, Loaded, Step
  <2>2. /\ held'[p] \in Data /\ held'[p].login = held[p].login
        /\ held'[p].org = <<held[p].login, o>>
    BY <1>2, <2>1 DEF IInv, Typed, Data
  <2>3. Own(held'[p]) BY <2>2 DEF Own
  <2>4. Typed' /\ OrgOfUser'
    BY <1>2, <2>2 DEF IInv, Typed, OrgOfUser, Choose, Step
  <2>5. pc'[p] = "truncate2" /\ pc[p] = "orgs" BY <1>2 DEF IInv, Typed, Step
  <2>6. Loaded(p)' /\ MemoryOwn(p)'
    BY <2>2, <2>3, <2>5 DEF IInv, Loaded, MemoryOwn, Choose
  <2>7. \A c \in Commands \ {p} : pc'[c] = pc[c] /\ held'[c] = held[c]
    BY <1>2 DEF IInv, Typed, Step
  <2> QED BY <2>4, <2>6, <2>7, LocalStep DEF Choose
<1> QED BY <1>1, <1>2 DEF Choose

(* Ending a command or removing the file leaves nothing to mix.              *)
LEMMA EndOK ==
  ASSUME IInv, NEW p \in Commands, Exit(p) \/ Logout(p) \/ ClearAuthData(p) PROVE IInv'
<1>1. Typed' BY DEF IInv, Typed, Exit, Ends, Logout, ClearAuthData, Starts, Step
<1>2. OrgOfUser'
  BY FileAssumption DEF IInv, OrgOfUser, Exit, Logout, ClearAuthData
<1>3. /\ held' = held /\ pc'[p] \in {"done", "remove"}
      /\ (rpc'[p] = "none" \/ (rpc' = rpc /\ fresh' = fresh))
  BY DEF IInv, Typed, Exit, Ends, Logout, ClearAuthData, Starts, Step
<1>4. Loaded(p)' /\ MemoryOwn(p)'
  BY <1>3 DEF IInv, Loaded, MemoryOwn
<1>5. \A c \in Commands \ {p} : /\ pc'[c] = pc[c] /\ rpc'[c] = rpc[c]
                                /\ fresh'[c] = fresh[c]
  BY DEF IInv, Typed, Exit, Ends, Logout, ClearAuthData, Starts, Step
<1> QED BY <1>1, <1>2, <1>3, <1>4, <1>5, LocalStep

(* The provider answers with tokens of the login that asked.                 *)
LEMMA AnsweredOK == ASSUME IInv, NEW p \in Commands, RefreshAnswered(p) PROVE IInv'
<1>1. CASE RefreshStep(p, "asking", "none") /\ UNCHANGED <<fresh, issued>>
  <2>1. Typed' /\ OrgOfUser'
    BY <1>1 DEF IInv, Typed, OrgOfUser, RefreshAnswered, RefreshStep
  <2>2. rpc'[p] = "none" BY <1>1 DEF IInv, Typed, RefreshStep
  <2>3. Loaded(p)' /\ MemoryOwn(p)'
    BY <2>2 DEF IInv, Loaded, MemoryOwn, RefreshAnswered
  <2>4. \A c \in Commands \ {p} : rpc'[c] = rpc[c] BY <1>1 DEF IInv, Typed, RefreshStep
  <2> QED BY <1>1, <2>1, <2>3, <2>4, LocalStep DEF RefreshAnswered
<1>2. ASSUME NEW g \in {issued[held[p].login], issued[held[p].login] + 1}, g <= MaxGen,
             RefreshStep(p, "asking", "load"),
             issued' = [issued EXCEPT ![held[p].login] = g],
             fresh' = [fresh EXCEPT ![p] = [held[p] EXCEPT !.gen = g]]
      PROVE  IInv'
  <2>1. held[p] \in Data /\ rpc[p] # "none"
    BY <1>2 DEF IInv, Loaded, RefreshStep
  <2>2. g \in 0..MaxGen
    BY <1>2, <2>1, MaxGenAssumption DEF IInv, Typed, Data
  <2>3. /\ fresh'[p] \in Data /\ fresh'[p].login = held[p].login /\ rpc'[p] = "load"
    BY <1>2, <2>1, <2>2 DEF IInv, Typed, Data, RefreshStep
  <2>4. Typed' /\ OrgOfUser'
    BY <1>2, <2>1, <2>2, <2>3
    DEF IInv, Typed, OrgOfUser, RefreshAnswered, RefreshStep
  <2>5. Loaded(p)' /\ MemoryOwn(p)'
    BY <2>1, <2>3 DEF IInv, Loaded, MemoryOwn, RefreshAnswered
  <2>6. \A c \in Commands \ {p} : rpc'[c] = rpc[c] /\ fresh'[c] = fresh[c]
    BY <1>2 DEF IInv, Typed, RefreshStep
  <2> QED BY <2>4, <2>5, <2>6, LocalStep DEF RefreshAnswered
<1> QED BY <1>1, <1>2 DEF RefreshAnswered, RefreshAnswer

(* The comparison is what makes the pair: the organization comes from the    *)
(* file, the tokens from the provider, and both have held[p].login.          *)
LEMMA RefreshLoadOK == ASSUME IInv, NEW p \in Commands, RefreshLoad(p) PROVE IInv'
<1>1. fresh[p] \in Data /\ fresh[p].login = held[p].login
  BY DEF IInv, MemoryOwn, RefreshLoad, RefreshStep
<1> DEFINE matches == /\ file \in Data
                      /\ file.login = held[p].login /\ file.gen = held[p].gen
           d == [fresh[p] EXCEPT !.org = file.org]
<1>2. ASSUME matches PROVE d \in Data /\ Own(d)
  <2>1. d \in Data /\ d.login = file.login /\ d.org = file.org
    BY <1>1, <1>2 DEF Data
  <2> QED BY <1>2, <2>1 DEF IInv, OrgOfUser, Own
<1>3. /\ rpc'[p] = IF matches THEN "truncate" ELSE "none"
      /\ fresh'[p] = IF matches THEN d ELSE Absent
  BY DEF IInv, Typed, RefreshLoad, RefreshStep
<1>4. Typed' /\ OrgOfUser'
  BY <1>2, <1>3 DEF IInv, Typed, OrgOfUser, RefreshLoad, RefreshStep
<1>5. Loaded(p)' /\ MemoryOwn(p)'
  BY <1>2, <1>3 DEF IInv, Loaded, MemoryOwn, RefreshLoad, RefreshStep
<1>6. \A c \in Commands \ {p} : rpc'[c] = rpc[c] /\ fresh'[c] = fresh[c]
  BY DEF IInv, Typed, RefreshLoad, RefreshStep
<1> QED BY <1>4, <1>5, <1>6, LocalStep DEF RefreshLoad

(* The refresh writes what it loaded.                                        *)
LEMMA RefreshSaveOK ==
  ASSUME IInv, NEW p \in Commands, RefreshTruncate(p) \/ RefreshWrite(p) PROVE IInv'
<1>1. fresh[p] \in Data /\ Own(fresh[p])
  BY DEF IInv, MemoryOwn, RefreshTruncate, RefreshWrite, RefreshStep
<1>2. file' \in Data \cup {Absent, Empty, Mixed} /\ OrgOfUser'
  <2>1. CASE RefreshTruncate(p)
    BY <2>1, FileAssumption DEF RefreshTruncate, TruncateFile, OrgOfUser
  <2>2. CASE RefreshWrite(p)
    BY <2>2, <1>1, WriteOutcome DEF RefreshWrite, IInv
  <2> QED BY <2>1, <2>2
<1>3. /\ held' = held /\ fresh' = fresh /\ pc' = pc /\ rpc[p] # "none"
      /\ rpc'[p] \in {"write", "none"}
  BY DEF IInv, Typed, RefreshTruncate, RefreshWrite, RefreshStep
<1>4. Typed' BY <1>2 DEF IInv, Typed, RefreshTruncate, RefreshWrite, RefreshStep
<1>5. Loaded(p)' /\ MemoryOwn(p)'
  BY <1>1, <1>3 DEF IInv, Loaded, MemoryOwn
<1>6. \A c \in Commands \ {p} : rpc'[c] = rpc[c]
  BY DEF IInv, Typed, RefreshTruncate, RefreshWrite, RefreshStep
<1> QED BY <1>2, <1>3, <1>4, <1>5, <1>6, LocalStep

LEMMA Inductive == Spec => []IInv
<1>1. IInv /\ [Next]_vars => IInv'
  <2> SUFFICES ASSUME IInv, [Next]_vars PROVE IInv'
    OBVIOUS
  <2>1. CASE UNCHANGED vars
    BY <2>1 DEF vars, IInv, Typed, OrgOfUser, Loaded, MemoryOwn
  <2>2. CASE Next
    BY <2>2, LoginOK, SaveOK, SwitchOrgOK, SelectOK, ChooseOK, EndOK, AnsweredOK,
       RefreshLoadOK, RefreshSaveOK DEF Next
  <2> QED BY <2>1, <2>2
<1> QED BY <1>1, InitOK, PTL DEF Spec

(* Whatever logins, selections, logouts and refreshes overlap, the stored    *)
(* organization is one that was listed for the user of the stored tokens.    *)
THEOREM OneUser == Spec => []OrgOfUser
<1>1. IInv => OrgOfUser BY DEF IInv
<1> QED BY <1>1, Inductive, PTL

-----------------------------------------------------------------------------
(* The last login or logout stands.                                          *)

Active(p) == pc[p] \notin {"idle", "done"}
Chosen == {"select", "orgs", "truncate2", "write2", "chosen", "exit"}

(* What a command that has the file to itself holds is what the file is to   *)
(* have; the tokens of a login become the last when they are written.        *)
HoldsLast(p) ==
  /\ rpc[p] # "none" => pc[p] \in Chosen \ {"select"}
  /\ rpc[p] \in {"load", "truncate", "write"} => fresh[p].login = held[p].login
  /\ pc[p] \in {"truncate", "write"} => held[p].login = p
  /\ pc[p] = "write" => file \notin Data
  /\ pc[p] \in Chosen => held[p].login = last

Serial ==
  ~overlap => /\ \A p, q \in Commands : Active(p) /\ Active(q) => p = q
              /\ \A p \in Commands : HoldsLast(p)
              /\ file \in Data => file.login = last

LEMMA SerialInit == Init => Serial
BY FileAssumption DEF Init, Serial, HoldsLast, Active, Chosen

(* A step of one command that does not overlap with others: they are not     *)
(* active, so nothing is said of what they hold.                             *)
LEMMA SerialStep ==
  ASSUME IInv, Serial, NEW p \in Commands, overlap' = overlap, Active(p),
         \A c \in Commands \ {p} : pc'[c] = pc[c] /\ rpc'[c] = rpc[c],
         ~overlap => HoldsLast(p)' /\ (file' \in Data => file'.login = last')
  PROVE  Serial'
<1> SUFFICES ASSUME ~overlap
             PROVE  /\ \A c \in Commands \ {p} : ~Active(c)' /\ HoldsLast(c)'
                    /\ \A c, q \in Commands : Active(c)' /\ Active(q)' => c = q
  BY DEF Serial
<1>1. ASSUME NEW c \in Commands \ {p} PROVE ~Active(c)' /\ HoldsLast(c)'
  <2>1. ~Active(c) /\ rpc[c] = "none"
    BY DEF Serial, HoldsLast, Active, Chosen
  <2> QED BY <2>1 DEF HoldsLast, Active, Chosen
<1> QED BY <1>1

(* A command that starts, and does not overlap, is the only one.             *)
LEMMA SerialStart ==
  ASSUME IInv, Serial, NEW p \in Commands, NEW to, Starts(p, to),
         UNCHANGED <<rpc, file, last>>, ~overlap => HoldsLast(p)'
  PROVE  Serial'
<1> SUFFICES ASSUME ~overlap' PROVE Serial'
  BY DEF Serial
<1>1. ~overlap /\ \A q \in Commands : ~Active(q)
  BY DEF Starts, Active
<1>2. ASSUME NEW c \in Commands \ {p} PROVE ~Active(c)' /\ HoldsLast(c)'
  <2>1. rpc[c] = "none" BY <1>1 DEF Serial, HoldsLast, Active, Chosen
  <2>2. pc'[c] = pc[c] BY DEF IInv, Typed, Starts, Step
  <2> QED BY <1>1, <2>1, <2>2 DEF HoldsLast, Active, Chosen
<1> QED BY <1>1, <1>2 DEF Serial

LEMMA SerialNext == IInv /\ IInv' /\ Serial /\ [Next]_vars => Serial'
<1> SUFFICES ASSUME IInv, IInv', Serial, [Next]_vars PROVE Serial'
  OBVIOUS
<1>t. Typed /\ Typed' BY DEF IInv
<1>0. CASE UNCHANGED vars
  BY <1>0 DEF vars, Serial, HoldsLast, Active
<1>1. ASSUME NEW p \in Commands, Login(p) PROVE Serial'
  <2>1. ~overlap => HoldsLast(p)'
    BY <1>1, <1>t DEF Login, Starts, Step, Serial, HoldsLast, Chosen, Typed
  <2> QED BY <1>1, <2>1, SerialStart DEF Login
<1>2. ASSUME NEW p \in Commands, SwitchOrg(p) PROVE Serial'
  <2>1. ~overlap => HoldsLast(p)'
    BY <1>2, <1>t DEF SwitchOrg, Starts, Step, Serial, HoldsLast, Chosen, Typed
  <2> QED BY <1>2, <2>1, SerialStart DEF SwitchOrg
<1>3. ASSUME NEW p \in Commands, Logout(p) PROVE Serial'
  <2>1. ~overlap => HoldsLast(p)'
    BY <1>3, <1>t DEF Logout, Starts, Step, Serial, HoldsLast, Chosen, Typed
  <2> QED BY <1>3, <2>1, SerialStart DEF Logout
<1>4. ASSUME NEW p \in Commands, SaveTruncate(p) PROVE Serial'
  <2>1. /\ overlap' = overlap /\ Active(p)
        /\ \A c \in Commands \ {p} : pc'[c] = pc[c] /\ rpc'[c] = rpc[c]
    BY <1>4, <1>t DEF SaveTruncate, Step, Active, Typed
  <2>2. ~overlap => HoldsLast(p)' /\ (file' \in Data => file'.login = last')
    BY <1>4, <1>t, FileAssumption
    DEF SaveTruncate, TruncateFile, Step, Serial, HoldsLast, Chosen, Typed
  <2> QED BY <2>1, <2>2, SerialStep
<1>5. ASSUME NEW p \in Commands, SaveWrite(p) PROVE Serial'
  <2>1. /\ overlap' = overlap /\ Active(p)
        /\ \A c \in Commands \ {p} : pc'[c] = pc[c] /\ rpc'[c] = rpc[c]
    BY <1>5, <1>t DEF SaveWrite, Step, Active, Typed
  <2>2. file' = file \/ file' = held[p] \/ file' \notin Data
    BY <1>5, FileAssumption DEF SaveWrite, WriteFile
  <2>3. ~overlap => HoldsLast(p)' /\ (file' \in Data => file'.login = last')
    <3>1. CASE Step(p, "write", "select") /\ last' = p
      BY <1>5, <1>t, <2>2, <3>1 DEF SaveWrite, Step, Serial, HoldsLast, Chosen, Typed
    <3>2. CASE Step(p, "write2", "chosen") /\ UNCHANGED last
      BY <1>5, <1>t, <2>2, <3>2 DEF SaveWrite, Step, Serial, HoldsLast, Chosen, Typed
    <3> QED BY <1>5, <3>1, <3>2 DEF SaveWrite
  <2> QED BY <2>1, <2>3, SerialStep
<1>6. ASSUME NEW p \in Commands, Select(p) PROVE Serial'
  <2>1. /\ overlap' = overlap /\ Active(p)
        /\ \A c \in Commands \ {p} : pc'[c] = pc[c] /\ rpc'[c] = rpc[c]
    BY <1>6, <1>t DEF Select, Step, RefreshStep, Active, Typed
  <2>2. ~overlap => HoldsLast(p)' /\ (file' \in Data => file'.login = last')
    BY <1>6, <1>t DEF Select, Step, RefreshStep, Serial, HoldsLast, Chosen, Typed
  <2> QED BY <2>1, <2>2, SerialStep
<1>7. ASSUME NEW p \in Commands, Choose(p) PROVE Serial'
  <2>1. /\ overlap' = overlap /\ Active(p)
        /\ \A c \in Commands \ {p} : pc'[c] = pc[c] /\ rpc'[c] = rpc[c]
    BY <1>7, <1>t DEF Choose, Step, Active, Typed
  <2>2. held[p] \in Data
    BY <1>7 DEF IInv, Loaded, Choose, Step
  <2>3. held'[p].login = held[p].login
    BY <1>7, <1>t, <2>2 DEF Choose, Typed, Data
  <2>4. ~overlap => HoldsLast(p)' /\ (file' \in Data => file'.login = last')
    BY <1>7, <1>t, <2>3 DEF Choose, Step, Serial, HoldsLast, Chosen, Typed
  <2> QED BY <2>1, <2>4, SerialStep
<1>8. ASSUME NEW p \in Commands, Exit(p) PROVE Serial'
  <2>1. /\ overlap' = overlap /\ Active(p)
        /\ \A c \in Commands \ {p} : pc'[c] = pc[c] /\ rpc'[c] = rpc[c]
    BY <1>8, <1>t DEF Exit, Ends, Step, Active, Typed
  <2>2. ~overlap => HoldsLast(p)' /\ (file' \in Data => file'.login = last')
    BY <1>8, <1>t DEF Exit, Ends, Step, Serial, HoldsLast, Chosen, Typed
  <2> QED BY <2>1, <2>2, SerialStep
<1>9. ASSUME NEW p \in Commands, ClearAuthData(p) PROVE Serial'
  <2>1. /\ overlap' = overlap /\ Active(p)
        /\ \A c \in Commands \ {p} : pc'[c] = pc[c] /\ rpc'[c] = rpc[c]
    BY <1>9, <1>t DEF ClearAuthData, Step, Active, Typed
  <2>2. ~overlap => HoldsLast(p)' /\ (file' \in Data => file'.login = last')
    BY <1>9, <1>t, FileAssumption
    DEF ClearAuthData, Step, Serial, HoldsLast, Chosen, Typed
  <2> QED BY <2>1, <2>2, SerialStep
<1>10. ASSUME NEW p \in Commands,
              \/ RefreshAnswered(p) \/ RefreshLoad(p)
              \/ RefreshTruncate(p) \/ RefreshWrite(p)
       PROVE  Serial'
  <2>1. /\ overlap' = overlap /\ pc' = pc /\ held' = held /\ last' = last
        /\ rpc[p] # "none" /\ rpc[p] # rpc'[p]
        /\ \A c \in Commands \ {p} : rpc'[c] = rpc[c]
    BY <1>10, <1>t
    DEF RefreshAnswered, RefreshAnswer, RefreshLoad, RefreshTruncate, RefreshWrite,
        RefreshStep, Typed
  <2>2. CASE overlap
    BY <2>1, <2>2 DEF Serial
  <2>3. CASE ~overlap
    <3>1. pc[p] \in Chosen \ {"select"} /\ held[p].login = last /\ Active(p)
      BY <2>1, <2>3 DEF Serial, HoldsLast, Active, Chosen
    <3>2. rpc'[p] \in {"load", "truncate", "write"} => fresh'[p].login = held[p].login
      <4>1. CASE RefreshAnswered(p)
        BY <4>1, <2>1 DEF IInv, MemoryOwn, RefreshAnswered, RefreshAnswer, RefreshStep, Typed
      <4>2. CASE RefreshLoad(p)
        <5>1. fresh[p] \in Data /\ fresh[p].login = held[p].login
          BY <4>2 DEF IInv, MemoryOwn, RefreshLoad, RefreshStep
        <5> QED BY <4>2, <5>1, <1>t DEF RefreshLoad, RefreshStep, Typed, Data
      <4>3. CASE RefreshTruncate(p) \/ RefreshWrite(p)
        BY <4>3, <2>1, <2>3 DEF RefreshTruncate, RefreshWrite, RefreshStep, Serial, HoldsLast
      <4> QED BY <1>10, <4>1, <4>2, <4>3
    <3>3. file' \in Data => file'.login = last
      <4>1. CASE RefreshAnswered(p) \/ RefreshLoad(p)
        BY <4>1, <2>3 DEF RefreshAnswered, RefreshLoad, Serial
      <4>2. CASE RefreshTruncate(p)
        BY <4>2, FileAssumption DEF RefreshTruncate, TruncateFile
      <4>3. CASE RefreshWrite(p)
        <5>1. file' = file \/ file' = fresh[p] \/ file' \notin Data
          BY <4>3, FileAssumption DEF RefreshWrite, WriteFile
        <5>2. fresh[p].login = last
          BY <4>3, <2>3, <3>1 DEF RefreshWrite, RefreshStep, Serial, HoldsLast
        <5> QED BY <5>1, <5>2, <2>3 DEF Serial
      <4> QED BY <1>10, <4>1, <4>2, <4>3
    <3>4. HoldsLast(p)'
      BY <2>1, <3>1, <3>2 DEF HoldsLast, Chosen
    <3> QED BY <2>1, <3>1, <3>3, <3>4, SerialStep
  <2> QED BY <2>2, <2>3
<1> QED BY <1>0, <1>1, <1>2, <1>3, <1>4, <1>5, <1>6, <1>7, <1>8, <1>9, <1>10 DEF Next

(* While commands do not overlap, the file has the tokens of the last login, *)
(* or none after a logout, for any number of commands and refreshes.         *)
THEOREM LastKept == Spec => []LastStands
<1>1. Serial => LastStands BY DEF Serial, LastStands
<1> QED BY <1>1, SerialInit, SerialNext, Inductive, PTL DEF Spec
=============================================================================
