---------------------------- MODULE MCStreamRelay ----------------------------
(* The chains that occur: docker attach through the proxy, directly and      *)
(* through the connector; host-exec to a guest it reaches directly, with and *)
(* without TLS; and host-exec through the connector, which asks for TLS.     *)
EXTENDS StreamRelay

Attach == {<<"attach">>}
AllChains ==
  {<<"attach">>, <<"attach", "relay">>,
   <<"client", "server">>, <<"plain", "server">>, <<"client", "relay", "server">>}
=============================================================================
