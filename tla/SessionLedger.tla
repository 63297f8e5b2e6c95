---------------------------- MODULE SessionLedger ----------------------------
(***************************************************************************)
(* What a session manager promises, without its maps, its mutex or the     *)
(* order of its calls: sessions are opened only for a container it is      *)
(* tracking, and a container stops being tracked only through a closing    *)
(* phase that ends its sessions, or confesses which ones it left behind.   *)
(* BridgeManager implements it.                                            *)
(***************************************************************************)
EXTENDS Naturals

CONSTANTS Containers, Items, MaxSessions

VARIABLES
  phase,     (* what the manager knows of each container                   *)
  sessions,  (* the sessions running for each container and item           *)
  stray      (* containers whose sessions nobody tracks, and it is known   *)

vars == <<phase, sessions, stray>>

Phases == {"unknown", "tracked", "closing"}

Open(c) == \E i \in Items : sessions[c][i] > 0

Init ==
  /\ phase = [c \in Containers |-> "unknown"]
  /\ sessions = [c \in Containers |-> [i \in Items |-> 0]]
  /\ stray = {}

Track(c) ==
  /\ phase[c] # "closing"
  /\ phase' = [phase EXCEPT ![c] = "tracked"]
  /\ UNCHANGED <<sessions, stray>>

OpenSession(c, i) ==
  /\ phase[c] = "tracked"
  /\ sessions[c][i] < MaxSessions
  /\ sessions' = [sessions EXCEPT ![c][i] = @ + 1]
  /\ UNCHANGED <<phase, stray>>

Close(cs) ==
  /\ phase' = [c \in Containers |-> IF c \in cs THEN "closing" ELSE phase[c]]
  /\ UNCHANGED <<sessions, stray>>

Closing == {c \in Containers : phase[c] = "closing"}

Closed(kept) ==
  LET left(c, i) == IF c \in Closing /\ <<c, i>> \notin kept
                      THEN 0 ELSE sessions[c][i]
  IN /\ sessions' = [c \in Containers |-> [i \in Items |-> left(c, i)]]
     /\ stray' = (stray \ Closing)
                   \cup {c \in Closing : \E i \in Items : left(c, i) > 0}
     /\ phase' = [c \in Containers |->
                    IF c \in Closing THEN "unknown" ELSE phase[c]]

Forget ==
  /\ phase' = [c \in Containers |-> "unknown"]
  /\ stray' = {c \in Containers : Open(c)}
  /\ UNCHANGED sessions

Next ==
  \/ \E c \in Containers : Track(c)
  \/ \E c \in Containers, i \in Items : OpenSession(c, i)
  \/ \E cs \in SUBSET Containers : Close(cs)
  \/ \E kept \in SUBSET (Containers \X Items) : Closed(kept)
  \/ Forget

Spec == Init /\ [][Next]_vars

(* No session runs unaccounted for: its container is tracked, is being       *)
(* closed, or is on record as stray.                                         *)
Accounted ==
  \A c \in Containers : Open(c) => phase[c] # "unknown" \/ c \in stray
=============================================================================
