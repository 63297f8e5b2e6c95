------------------------------ MODULE StreamRelay ------------------------------
(***************************************************************************)
(* The byte streams this code relays: a chain of hops between a user, on   *)
(* the left, and a command, on the right.  Every hop runs two io.Copy      *)
(* goroutines, one per direction, and differs from the others only in what *)
(* it does when one of them ends:                                          *)
(*                                                                         *)
(*   "attach"   the Docker proxy's transparentProxy: one direction that    *)
(*              ended ends the hop                                         *)
(*   "relay"    the connector's CopyBiDirectional: both have to end        *)
(*   "client"   tsctl host-exec's CopyWithSplitMerge over its own stdin    *)
(*              and stdout: both have to end, and the end of stdin is      *)
(*              passed on with CloseWrite; before, it reads the guest's    *)
(*              answer (101) from the connection, over TLS                 *)
(*   "plain"    the same, where the guest is asked over plain TCP          *)
(*   "server"   the guest's CopyWithSplitMerge over the command's stdout   *)
(*              and stdin: both have to end, the end of stdout is passed   *)
(*              on with CloseWrite, and then it waits for the command      *)
(*                                                                         *)
(* Pipe up[i] runs from hop i to hop i + 1, up[0] starts at the user and   *)
(* the last one ends at the command; down[i] runs the other way.           *)
(***************************************************************************)
EXTENDS Naturals, Sequences

CONSTANTS
  Chains,  (* chains of hops that occur, each the kinds of its hops        *)
  Cap,     (* what a pipe holds                                            *)
  MaxSend, (* bound: what the user and the command each write              *)
  Allowed  (* what the ends may do: see Behaviours                         *)

(* The user may type, and may close its end of the input; the command may    *)
(* write, may end of its own accord, and may end once its input did.         *)
Behaviours == {"type", "hangup", "output", "exit", "exitOnEOF"}

(* The user is connected to the Docker proxy, or types to host-exec.         *)
Clients == {"client", "plain"}
ASSUME ChainsAssumption ==
  \A ch \in Chains :
    /\ ch \in Seq({"attach", "relay", "server"} \cup Clients) /\ ch # <<>>
    /\ \A h \in 1..Len(ch) : ch[h] \in {"attach"} \cup Clients => h = 1
ASSUME BoundsAssumption == Cap \in Nat \ {0} /\ MaxSend \in Nat
ASSUME AllowedAssumption == Allowed \subseteq Behaviours

VARIABLES
  chain,     (* the kinds of the hops, from the user to the command         *)
  up, down,  (* per pipe: how much is in it, whether its writer closed it, *)
             (* whether its reader did                                     *)
  copier,    (* per hop, the directions whose io.Copy has not returned     *)
  hop,       (* per hop: "asking" for the answer, "copying", "waiting" for *)
             (* the command, "returned"                                    *)
  command,   (* the command runs                                           *)
  sent,      (* history: written by the user and by the command            *)
  got,       (* history: read by the command and by the user               *)
  missed     (* history: output that came with the answer                  *)

vars == <<chain, up, down, copier, hop, command, sent, got, missed>>

Hops == Len(chain)

Pipe == [n : 0..Cap, eof : BOOLEAN, broken : BOOLEAN]
Ends == {"user", "command"}

TypeOK ==
  /\ chain \in Chains
  /\ up \in [0..Hops -> Pipe] /\ down \in [0..Hops -> Pipe]
  /\ copier \in [1..Hops -> SUBSET {"up", "down"}]
  /\ hop \in [1..Hops -> {"asking", "copying", "waiting", "returned"}]
  /\ command \in BOOLEAN
  /\ sent \in [Ends -> 0..MaxSend] /\ got \in [Ends -> 0..MaxSend]
  /\ missed \in 0..MaxSend

Init ==
  LET quiet == [n |-> 0, eof |-> FALSE, broken |-> FALSE]
  IN /\ chain \in Chains
     /\ up = [i \in 0..Hops |-> quiet] /\ down = [i \in 0..Hops |-> quiet]
     /\ copier = [h \in 1..Hops |-> {"up", "down"}]
     /\ hop = [h \in 1..Hops |-> IF chain[h] \in Clients THEN "asking" ELSE "copying"]
     /\ command = TRUE
     /\ sent = [e \in Ends |-> 0] /\ got = [e \in Ends |-> 0] /\ missed = 0

Put(p) == [p EXCEPT !.n = @ + 1]
Take(p) == [p EXCEPT !.n = @ - 1]
Finish(p) == [p EXCEPT !.eof = TRUE]
Break(p) == [p EXCEPT !.broken = TRUE]

Room(p) == p.n < Cap /\ ~p.eof /\ ~p.broken
Drained(p) == p.n = 0 /\ p.eof

-----------------------------------------------------------------------------
(* The two ends.                                                             *)

UserTypes ==
  /\ "type" \in Allowed
  /\ sent["user"] < MaxSend /\ Room(up[0])
  /\ up' = [up EXCEPT ![0] = Put(@)]
  /\ sent' = [sent EXCEPT !["user"] = @ + 1]
  /\ UNCHANGED <<chain, down, copier, hop, command, got, missed>>

(* End of input; what the user is being sent is still read.                  *)
UserHangsUp ==
  /\ "hangup" \in Allowed
  /\ ~up[0].eof
  /\ up' = [up EXCEPT ![0] = Finish(@)]
  /\ UNCHANGED <<chain, down, copier, hop, command, sent, got, missed>>

UserReads ==
  /\ down[0].n > 0
  /\ down' = [down EXCEPT ![0] = Take(@)]
  /\ got' = [got EXCEPT !["user"] = @ + 1]
  /\ UNCHANGED <<chain, up, copier, hop, command, sent, missed>>

CommandWrites ==
  /\ "output" \in Allowed /\ command
  /\ sent["command"] < MaxSend /\ Room(down[Hops])
  /\ down' = [down EXCEPT ![Hops] = Put(@)]
  /\ sent' = [sent EXCEPT !["command"] = @ + 1]
  /\ UNCHANGED <<chain, up, copier, hop, command, got, missed>>

CommandReads ==
  /\ command /\ up[Hops].n > 0
  /\ up' = [up EXCEPT ![Hops] = Take(@)]
  /\ got' = [got EXCEPT !["command"] = @ + 1]
  /\ UNCHANGED <<chain, down, copier, hop, command, sent, missed>>

CommandEnds ==
  /\ command
  /\ \/ "exit" \in Allowed
     \/ "exitOnEOF" \in Allowed /\ Drained(up[Hops])
  /\ command' = FALSE
  /\ down' = [down EXCEPT ![Hops] = Finish(@)]
  /\ up' = [up EXCEPT ![Hops] = Break(@)]
  /\ UNCHANGED <<chain, copier, hop, sent, got, missed>>

-----------------------------------------------------------------------------
(* The hops.                                                                 *)

(* executeCommand reads the answer through a bufio.Reader, and then copies   *)
(* from the connection itself: what the reader took beyond the answer is not *)
(* copied.  Over TLS a read ends with the record the answer came in.         *)
ReadAnswer(h) ==
  /\ hop[h] = "asking"
  /\ \E k \in 0..(IF chain[h] = "plain" THEN down[h].n ELSE 0) :
       /\ down' = [down EXCEPT ![h].n = @ - k]
       /\ missed' = missed + k
  /\ hop' = [hop EXCEPT ![h] = "copying"]
  /\ UNCHANGED <<chain, up, copier, command, sent, got>>

(* io.Copy moves what has arrived as soon as the other side takes it.        *)
CopyUp(h) ==
  /\ hop[h] = "copying" /\ "up" \in copier[h]
  /\ up[h - 1].n > 0 /\ Room(up[h])
  /\ up' = [up EXCEPT ![h - 1] = Take(@), ![h] = Put(@)]
  /\ UNCHANGED <<chain, down, copier, hop, command, sent, got, missed>>

CopyDown(h) ==
  /\ hop[h] = "copying" /\ "down" \in copier[h]
  /\ down[h].n > 0 /\ Room(down[h - 1])
  /\ down' = [down EXCEPT ![h] = Take(@), ![h - 1] = Put(@)]
  /\ UNCHANGED <<chain, up, copier, hop, command, sent, got, missed>>

(* A variant the runs must reject: what had arrived before the end is        *)
(* dropped with it.                                                          *)
EagerEndUp(h) ==
  /\ hop[h] = "copying" /\ "up" \in copier[h]
  /\ up[h - 1].eof \/ (up[h - 1].n > 0 /\ up[h].broken)
  /\ copier' = [copier EXCEPT ![h] = @ \ {"up"}]
  /\ up' = IF chain[h] \in Clients THEN [up EXCEPT ![h] = Finish(@)] ELSE up
  /\ UNCHANGED <<chain, down, hop, command, sent, got, missed>>

(* io.Copy returns at the end of its input, or when a write fails.  In the   *)
(* client, CloseWrite follows.                                               *)
EndUp(h) ==
  /\ hop[h] = "copying" /\ "up" \in copier[h]
  /\ Drained(up[h - 1]) \/ (up[h - 1].n > 0 /\ up[h].broken)
  /\ copier' = [copier EXCEPT ![h] = @ \ {"up"}]
  /\ up' = IF chain[h] \in Clients THEN [up EXCEPT ![h] = Finish(@)] ELSE up
  /\ UNCHANGED <<chain, down, hop, command, sent, got, missed>>

(* A variant the runs must reject: the guest does not pass on the end of the *)
(* command's output.                                                         *)
UnfinishedEndDown(h) ==
  /\ hop[h] = "copying" /\ "down" \in copier[h]
  /\ Drained(down[h]) \/ (down[h].n > 0 /\ down[h - 1].broken)
  /\ copier' = [copier EXCEPT ![h] = @ \ {"down"}]
  /\ UNCHANGED <<chain, up, down, hop, command, sent, got, missed>>

(* The same for the other direction; in the guest, CloseWrite follows.       *)
EndDown(h) ==
  /\ hop[h] = "copying" /\ "down" \in copier[h]
  /\ Drained(down[h]) \/ (down[h].n > 0 /\ down[h - 1].broken)
  /\ copier' = [copier EXCEPT ![h] = @ \ {"down"}]
  /\ down' = IF chain[h] = "server" THEN [down EXCEPT ![h - 1] = Finish(@)] ELSE down
  /\ UNCHANGED <<chain, up, hop, command, sent, got, missed>>

(* Variants the runs must reject: the first direction to end ends the hop,   *)
(* and an attached connection waits for both.                                *)
HastyReturns(h) ==
  /\ hop[h] = "copying" /\ copier[h] # {"up", "down"}
  /\ hop' = [hop EXCEPT ![h] = IF chain[h] = "server" THEN "waiting" ELSE "returned"]
  /\ up' = [up EXCEPT ![h - 1] = Break(@), ![h] = Finish(@)]
  /\ down' = [down EXCEPT ![h - 1] = Finish(@),
                          ![h] = IF chain[h] = "server" THEN @ ELSE Break(@)]
  /\ UNCHANGED <<chain, copier, command, sent, got, missed>>
PatientReturns(h) ==
  /\ hop[h] = "copying" /\ copier[h] = {}
  /\ hop' = [hop EXCEPT ![h] = IF chain[h] = "server" THEN "waiting" ELSE "returned"]
  /\ up' = [up EXCEPT ![h - 1] = Break(@), ![h] = Finish(@)]
  /\ down' = [down EXCEPT ![h - 1] = Finish(@),
                          ![h] = IF chain[h] = "server" THEN @ ELSE Break(@)]
  /\ UNCHANGED <<chain, copier, command, sent, got, missed>>

(* The deferred Close calls; the guest keeps the command's output open until *)
(* the command has ended.                                                    *)
Returns(h) ==
  /\ hop[h] = "copying"
  /\ IF chain[h] = "attach" THEN copier[h] # {"up", "down"} ELSE copier[h] = {}
  /\ hop' = [hop EXCEPT ![h] = IF chain[h] = "server" THEN "waiting" ELSE "returned"]
  /\ up' = [up EXCEPT ![h - 1] = Break(@), ![h] = Finish(@)]
  /\ down' = [down EXCEPT ![h - 1] = Finish(@),
                          ![h] = IF chain[h] = "server" THEN @ ELSE Break(@)]
  /\ UNCHANGED <<chain, copier, command, sent, got, missed>>

(* The guest's cmd.Wait.                                                     *)
WaitReturns(h) ==
  /\ hop[h] = "waiting" /\ ~command
  /\ hop' = [hop EXCEPT ![h] = "returned"]
  /\ down' = [down EXCEPT ![h] = Break(@)]
  /\ UNCHANGED <<chain, up, copier, command, sent, got, missed>>

-----------------------------------------------------------------------------
HopStep(h) ==
  \/ ReadAnswer(h) \/ CopyUp(h) \/ CopyDown(h) \/ EndUp(h) \/ EndDown(h)
  \/ Returns(h) \/ WaitReturns(h)

Next ==
  \/ UserTypes \/ UserHangsUp \/ UserReads
  \/ CommandWrites \/ CommandReads \/ CommandEnds
  \/ \E h \in 1..Hops : HopStep(h)

Spec == Init /\ [][Next]_vars

(* Each goroutine runs; the user reads what it gets, the command reads its   *)
(* input and ends when it said it would at the end of it.                    *)
FairSpec ==
  /\ Spec
  /\ \A ch \in Chains : \A h \in 1..Len(ch) :
       /\ WF_vars(chain = ch /\ ReadAnswer(h))
       /\ WF_vars(chain = ch /\ (CopyUp(h) \/ EndUp(h)))
       /\ WF_vars(chain = ch /\ (CopyDown(h) \/ EndDown(h)))
       /\ WF_vars(chain = ch /\ (Returns(h) \/ WaitReturns(h)))
  /\ WF_vars(UserReads) /\ WF_vars(CommandReads)
  /\ WF_vars("exitOnEOF" \in Allowed /\ Drained(up[Hops]) /\ CommandEnds)

-----------------------------------------------------------------------------
Attached == \E h \in 1..Hops : chain[h] = "attach"
OnGuest == chain[Hops] = "server"

(* Nothing the command wrote is missing when the user sees the end of the    *)
(* output.                                                                   *)
OutputComplete == Drained(down[0]) => got["user"] = sent["command"]

(* The same for host-exec, whichever side of each hop ended first; over plain *)
(* TCP, what came with the guest's answer is missing, and nothing else.       *)
ExecOutputComplete ==
  ~Attached /\ Drained(down[0]) =>
    sent["command"] = got["user"] + IF chain[1] = "plain" THEN missed ELSE 0

(* The command does not take a prefix of the input for all of it.            *)
InputComplete ==
  command /\ Drained(up[Hops]) => got["command"] = sent["user"]

(* An attached connection ends with either of its ends, though nothing comes *)
(* from the other.  Every other hop returns, and closes its connections, once *)
(* the user has closed the input and the command has ended; not before, since *)
(* neither end is passed on by a relay.                                       *)
Over(h) ==
  IF chain[h] = "attach" THEN up[h - 1].eof \/ down[h].eof ELSE up[0].eof /\ ~command
AllHopsReturn ==
  \A ch \in Chains : \A h \in 1..Len(ch) :
    chain = ch /\ Over(h) ~> chain = ch /\ hop[h] = "returned"

(* The guest passes the end of the command's output on to the next hop while *)
(* the input stays open.                                                     *)
OutputEndPassedOn == OnGuest /\ ~command ~> down[Hops - 1].eof
=============================================================================
