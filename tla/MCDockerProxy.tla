---------------------------- MODULE MCDockerProxy ----------------------------
(* Instances of the proxy for model checking, with one container, or one     *)
(* name: connections are interchangeable where that serves symmetry, and     *)
(* numbered in the order they are accepted where liveness rules it out.      *)
EXTENDS DockerProxy, TLC

CONSTANTS n1, r1, r2, r3, r4, r5

OneName == [c \in Containers |-> n1]

(* The environments of the runs.                                             *)
Most(restarts, exits, faults, crashes) ==
  [restarts |-> restarts, exits |-> exits, faults |-> faults, crashes |-> crashes]

(* Any five requests and Close; a start that comes again.                    *)
Orderly == [allows |-> RequestKinds \cup {"close"}, requests |-> 5,
            most |-> Most(0, 0, 0, 0)]
Restarted == [allows |-> {"create", "start", "stop"}, requests |-> 4,
              most |-> Most(1, 0, 0, 0)]
(* Clients that hurry and faults; a crash and what it leads to, and a        *)
(* connection that comes too late for Close; clients that keep their         *)
(* connections, and exits nobody sees.                                       *)
Hurried == [allows |-> RequestKinds \cup {"early", "duringBoot", "waitUnstarted"},
            requests |-> 3, most |-> Most(0, 0, 1, 0)]
Crashing == [allows |-> RequestKinds \cup {"startByName", "waitUnstarted", "close", "late"},
             requests |-> 3, most |-> Most(1, 0, 0, 1)]
KeepAlive == [allows |-> RequestKinds \cup {"early", "keepalive", "close", "unattended",
                                            "waitByName"},
              requests |-> 3, most |-> Most(0, 1, 1, 0)]
Recovering == [allows |-> {"create", "start", "stop", "wait"},
               requests |-> 4, most |-> Most(0, 1, 0, 1)]
Shutting == [allows |-> {"create", "start", "stop", "wait", "keepalive", "late", "close",
                         "closeDuringBoot"},
             requests |-> 3, most |-> Most(0, 1, 0, 1)]

All == {Orderly, Hurried, Crashing, KeepAlive}
OnlyOrderly == {Orderly}
OnlyRestarted == {Restarted}
RecoveringOrShutting == {Recovering, Shutting}

Interchangeable == [r \in Requests |-> 0]
InOrder == [r \in Requests |->
              CHOOSE n \in 0..4 : <<r1, r2, r3, r4, r5>>[n + 1] = r]

Symmetry == Permutations(Requests)
=============================================================================
