---------------------------- MODULE MCReconnect ----------------------------
(* tests/disconnect_reconnect.c: one successor and two consumers.          *)
EXTENDS Reconnect
Both == {<<"cons1", "suc">>, <<"cons2", "suc">>}
=============================================================================
