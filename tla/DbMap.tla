------------------------------- MODULE DbMap -------------------------------
(***************************************************************************)
(* What the database library promises its callers: db_fetch, db_store and  *)
(* db_delete are atomic operations on a map from keys to data.  A process  *)
(* makes a call, the call takes effect in one step between its invocation  *)
(* and its return, and its result is the one the map gives at that step.   *)
(***************************************************************************)
EXTENDS Integers

CONSTANTS Procs, Keys, Vals, NULL

VARIABLES
  map,   \* the stored datum of each key, or NULL
  st,    \* st[p]: "idle", "called", "done" or "dead"
  req,   \* req[p]: the call in progress
  res    \* res[p]: its result, once it has taken effect

vars == <<map, st, req, res>>

NoReq == [op |-> "none", key |-> NULL, val |-> NULL, flag |-> {}]

Requests ==
  [op : {"fetch", "delete"}, key : Keys, val : {NULL}, flag : {{}}]
    \cup [op : {"store"}, key : Keys, val : Vals, flag : SUBSET {"INSERT", "REPLACE"}]

Init ==
  /\ map = [k \in Keys |-> NULL]
  /\ st  = [p \in Procs |-> "idle"]
  /\ req = [p \in Procs |-> NoReq]
  /\ res = [p \in Procs |-> NULL]

Invoke(p) ==
  /\ st[p] = "idle"
  /\ st' = [st EXCEPT ![p] = "called"]
  /\ \E r \in Requests : req' = [req EXCEPT ![p] = r]
  /\ UNCHANGED <<map, res>>

(* The result and the effect of request r.                                 *)
Result(r) ==
  LET found == map[r.key] # NULL
  IN  CASE r.op = "fetch"  -> map[r.key]
        [] r.op = "delete" -> IF found THEN 0 ELSE -1
        [] r.op = "store"  -> IF found THEN IF "INSERT" \in r.flag THEN 1 ELSE 0
                                       ELSE IF "REPLACE" \in r.flag THEN -1 ELSE 0

Effect(r) ==
  CASE r.op = "fetch" -> map
    [] r.op = "delete" -> [map EXCEPT ![r.key] = NULL]
    [] r.op = "store"  -> IF Result(r) = 0 THEN [map EXCEPT ![r.key] = r.val]
                                           ELSE map

Do(p) ==
  /\ st[p] = "called"
  /\ st' = [st EXCEPT ![p] = "done"]
  /\ res' = [res EXCEPT ![p] = Result(req[p])]
  /\ map' = Effect(req[p])
  /\ UNCHANGED req

Return(p) ==
  /\ st[p] = "done"
  /\ st' = [st EXCEPT ![p] = "idle"]
  /\ req' = [req EXCEPT ![p] = NoReq]
  /\ res' = [res EXCEPT ![p] = NULL]
  /\ UNCHANGED map

(* A process may end during a call.  A store that ends before it takes     *)
(* effect leaves its key as it was or, when the index file is full and it  *)
(* was replacing a record, without a record.                               *)
Die(p) ==
  /\ st[p] # "dead"
  /\ st' = [st EXCEPT ![p] = "dead"]
  /\ req' = [req EXCEPT ![p] = NoReq]
  /\ res' = [res EXCEPT ![p] = NULL]
  /\ \/ UNCHANGED map
     \/ /\ st[p] = "called" /\ req[p].op = "store"
        /\ map' = [map EXCEPT ![req[p].key] = NULL]

Next == \E p \in Procs : Invoke(p) \/ Do(p) \/ Return(p) \/ Die(p)

(* A call in progress takes effect and returns, or its process ends.       *)
Progress(p) == st[p] \in {"called", "done"} /\ (Do(p) \/ Return(p) \/ Die(p))

Spec     == Init /\ [][Next]_vars
FairSpec == Spec /\ \A p \in Procs : WF_vars(Progress(p))
=============================================================================
