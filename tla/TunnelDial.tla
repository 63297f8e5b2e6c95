------------------------------ MODULE TunnelDial ------------------------------
(***************************************************************************)
(* Connect of the two ts-tunnel protocol handlers (pkg/ts-tunnel/          *)
(* synchronization-protocol and forwarding-protocol, which differ only in  *)
(* what they build from the stream): a goroutine dials the agent, which    *)
(* starts a tsctl host-exec process, while Connect waits for it or for the *)
(* cancellation of its context.  The results channel is unbuffered: the    *)
(* goroutine hands the stream over only to a Connect that takes it.        *)
(***************************************************************************)
EXTENDS Naturals, FiniteSets

CONSTANTS Calls  (* calls of Connect *)

VARIABLES
  main,       (* what Connect does next, or what it returned               *)
  dialer,     (* what its goroutine does next                              *)
  stream,     (* the stream the dial opened                                *)
  cancelled   (* the calls whose context is done                           *)

vars == <<main, dialer, stream, cancelled>>

Returned == {"failed", "canceled", "endpoint"}

TypeOK ==
  /\ main \in [Calls -> {"idle", "waiting", "building"} \cup Returned]
  /\ dialer \in [Calls -> {"none", "dialing", "offering", "ended"}]
  /\ stream \in [Calls -> {"none", "open", "closed"}]
  /\ cancelled \subseteq Calls

Init ==
  /\ main = [k \in Calls |-> "idle"]
  /\ dialer = [k \in Calls |-> "none"]
  /\ stream = [k \in Calls |-> "none"]
  /\ cancelled = {}

MainStep(k, from, to) == main[k] = from /\ main' = [main EXCEPT ![k] = to]
DialerStep(k, from, to) == dialer[k] = from /\ dialer' = [dialer EXCEPT ![k] = to]

-----------------------------------------------------------------------------
(* The URL or the transport's options are refused, or the dial starts.       *)
Connect(k) ==
  /\ \/ MainStep(k, "idle", "failed") /\ UNCHANGED dialer
     \/ MainStep(k, "idle", "waiting") /\ DialerStep(k, "none", "dialing")
  /\ UNCHANGED <<stream, cancelled>>

(* The session that called Connect is paused, terminated or shut down.       *)
Cancel(k) ==
  /\ main[k] \in {"waiting", "building"} /\ k \notin cancelled
  /\ cancelled' = cancelled \cup {k}
  /\ UNCHANGED <<main, dialer, stream>>

(* agent.Dial returns, with a stream or an error; it does not watch ctx.     *)
Dialed(k) ==
  /\ DialerStep(k, "dialing", "offering")
  /\ \E s \in {"open", "none"} : stream' = [stream EXCEPT ![k] = s]
  /\ UNCHANGED <<main, cancelled>>

(* Both selects take the channel.                                            *)
Deliver(k) ==
  /\ MainStep(k, "waiting", IF stream[k] = "open" THEN "building" ELSE "failed")
  /\ DialerStep(k, "offering", "ended")
  /\ UNCHANGED <<stream, cancelled>>

(* Connect takes ctx.Done, and leaves the goroutine to itself.               *)
GiveUp(k) ==
  /\ k \in cancelled
  /\ MainStep(k, "waiting", "canceled")
  /\ UNCHANGED <<dialer, stream, cancelled>>

(* Variants the runs must reject: the goroutine ends without closing, or     *)
(* without watching ctx.                                                     *)
LeakyDiscard(k) ==
  /\ k \in cancelled
  /\ DialerStep(k, "offering", "ended")
  /\ UNCHANGED <<main, stream, cancelled>>
BlockedDiscard(k) ==
  /\ k \in cancelled
  /\ DialerStep(k, "offering", "offering")
  /\ UNCHANGED <<main, stream, cancelled>>

(* The goroutine takes ctx.Done: it closes the stream it has.                *)
Discard(k) ==
  /\ k \in cancelled
  /\ DialerStep(k, "offering", "ended")
  /\ stream' = [stream EXCEPT ![k] = IF @ = "open" THEN "closed" ELSE @]
  /\ UNCHANGED <<main, cancelled>>

(* remote.NewEndpoint owns the stream: it closes it when it fails.           *)
NewEndpoint(k) ==
  /\ \/ MainStep(k, "building", "endpoint") /\ UNCHANGED stream
     \/ /\ MainStep(k, "building", "failed")
        /\ stream' = [stream EXCEPT ![k] = "closed"]
  /\ UNCHANGED <<dialer, cancelled>>

-----------------------------------------------------------------------------
Runs(k) == Dialed(k) \/ Deliver(k) \/ GiveUp(k) \/ Discard(k) \/ NewEndpoint(k)

Next == \E k \in Calls : Connect(k) \/ Cancel(k) \/ Runs(k)

Spec == Init /\ [][Next]_vars

(* A dial ends, with an error at the latest; nobody has to cancel.           *)
FairSpec == Spec /\ \A k \in Calls : WF_vars(Runs(k))

-----------------------------------------------------------------------------
(* A stream is open only while somebody will close it: the goroutine that    *)
(* dialed it, the Connect that is about to use it, or the endpoint it became.*)
(* In particular a Connect that was cancelled just as the dial succeeded     *)
(* leaves no host-exec process behind, whichever branch each select took.    *)
StreamOwned ==
  \A k \in Calls : stream[k] = "open"
    => dialer[k] = "offering" \/ main[k] \in {"building", "endpoint"}

(* A cancelled Connect returns, its goroutine ends, and only an endpoint it  *)
(* had already handed out keeps a stream.                                    *)
CancelCleansUp ==
  \A k \in Calls :
    k \in cancelled ~> /\ main[k] \in Returned /\ dialer[k] = "ended"
                       /\ stream[k] = "open" => main[k] = "endpoint"
=============================================================================
