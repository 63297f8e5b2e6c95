----------------------------- MODULE MCConnector -----------------------------
(* Two connections, of the users of two organizations, to one host, and the  *)
(* rows that tell the ways of being let in apart: listed, as a member of a   *)
(* team, at another address of the same organization, and moved to another   *)
(* organization.  The address in the last row cannot be split.               *)
EXTENDS Connector, TLC

CONSTANTS c1, c2, h1, t1

Certificates == c1 :> "u1" @@ c2 :> "u2"
Orgs == c1 :> "o1" @@ c2 :> "o2"
Names == [c \in Conns |-> h1]
Row(addr, org, users, ts) == [addr |-> addr, org |-> org, users |-> users, teams |-> ts]
Hosts == {Row("a:22", "o1", {"u1", "u2"}, {}), Row("d:22", "o1", {}, {t1}),
          Row("b", "o2", {"u2"}, {t1})}
Members == {[org |-> "o1", users |-> {"u1"}], [org |-> "o2", users |-> {"u1", "u2"}]}
=============================================================================
