----------------------------- MODULE MCStreams -----------------------------
(* The library under its most general client: a producer read by two       *)
(* threads, one of which is itself read by the other.                      *)
EXTENDS Streams
Diamond == {<<"b", "a">>, <<"c", "a">>, <<"c", "b">>}
=============================================================================
