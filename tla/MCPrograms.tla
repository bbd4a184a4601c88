----------------------------- MODULE MCPrograms -----------------------------
(* The constants of Programs that a configuration cannot write itself.     *)
EXTENDS Programs

(* Values for the configuration.  The conversations have an overlap inside *)
(* an expected string, every escape, the phone number with and without a   *)
(* lone backslash, and an escape that is not known, in either place.       *)
Job       == <<1, 2, 3>>
SlaveLine == <<1, 2, 3>>
UserLine  == <<1, 2>>
OpenErrs  == {-1, -2, -256, -257, -512, 3}
PtyLists  == {<<"busy", "free">>, <<"busy", "absent", "free">>}
TakenFiles == {<<"x8", "cr">>, <<"x", "nul8">>, <<"ctrlA8", "lf">>}
Conversations ==
  {<< <<"a", "b", "a">>, <<"\\E", "x", "\\T", "\\p", "\\e", "\\c", "\\r", "\\c">>, <<"a">> >>,
   << << >>, <<"\\s", "\\T">>, <<"b", "\\r">>, <<"y", "\\?">> >>,
   << <<"\\?">>, <<"x">> >>}
Numbers == {<<"1">>, <<"1", "\\">>}
=============================================================================
