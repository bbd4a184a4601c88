----------------------------- MODULE MCSession ------------------------------
(***************************************************************************)
(* A session of call on its own, for what cli_loop.c says about a hangup.  *)
(***************************************************************************)
EXTENDS Session

TakenFiles == {<<"x8", "cr">>, <<"x", "nul8">>, <<"ctrlA8", "lf">>}
=============================================================================
