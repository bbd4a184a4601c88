------------------------------ MODULE MCCalld -------------------------------
(* Instances of Calld for TLC.                                             *)
EXTENDS Calld, TLC

CONSTANTS c1, c2, c3

Sys(n, t, k) == [name |-> n, type |-> t, class |-> k]
Dev(t, k, l) == [type |-> t, class |-> k, line |-> l]
Req(n, k)    == [sysname |-> n, speed |-> k]

(* Host "a" can be reached over two lines; "b" over the second only, and a *)
(* later entry for it names a device that does not exist.                  *)
TwoLines    == <<Dev("ACU", "1200", "cua0"), Dev("ACU", "2400", "cua1")>>
TwoHosts    == <<Sys("a", "ACU", "1200"), Sys("b", "ACU", "2400"),
                 Sys("a", "ACU", "2400"), Sys("b", "DIR", "9600")>>
AskTwo      == {Req("a", AnySpeed), Req("b", AnySpeed)}

OneLine     == <<Dev("ACU", "1200", "cua0")>>
OneHost     == <<Sys("a", "ACU", "1200")>>
AskOne      == {Req("a", AnySpeed)}
AskOrMiss   == {Req("a", AnySpeed), Req("a", "2400")}

(* Clients differ in nothing but their names.                              *)
SameClients == Permutations(Clients)
=============================================================================
