------------------------------ MODULE DbRefine ------------------------------
(***************************************************************************)
(* The database library as an implementation of DbMap.                     *)
(***************************************************************************)
EXTENDS Db

(* The DbMap state of a database: calls of db_nextrec and db_rewind are    *)
(* not calls of the map, a call has taken effect once its result is known. *)
Visible(p) == arg[p].op \in {"fetch", "store", "delete"}
Took(p)    == \/ pc[p] = "unlock"
              \/ pc[p] = "del_unlock" /\ arg[p].op = "delete"
absSt  == [p \in Procs |-> IF pc[p] = "dead" THEN "dead"
                           ELSE IF ~Visible(p) THEN "idle"
                           ELSE IF Took(p) THEN "done" ELSE "called"]
absReq == [p \in Procs |-> IF Visible(p) THEN arg[p] ELSE NoArg]
absRes == [p \in Procs |-> IF Visible(p) /\ Took(p) THEN rc[p] ELSE NULL]

Map == INSTANCE DbMap WITH st <- absSt, req <- absReq, res <- absRes

(* fetch, store and delete are atomic operations on a map: every step of   *)
(* the library is a step of DbMap or leaves its state unchanged.           *)
ImplementsMap == Map!Spec
=============================================================================
