---------------------------- MODULE MCConnection ----------------------------
(* The first call can be aborted either way, the second not at all. *)
EXTENDS Connection

CONSTANTS c1, c2

FirstOnly == {<<c1, "soft">>, <<c1, "hard">>}
=============================================================================
