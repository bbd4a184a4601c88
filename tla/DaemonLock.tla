----------------------------- MODULE DaemonLock -----------------------------
(***************************************************************************)
(* daemon-lock.c: a daemon that makes sure that only one copy of it runs,  *)
(* with a record lock on the whole of daemon.pid, and leaves its process   *)
(* id there.  Any number of copies may be started at any time; each may    *)
(* fail or be killed at any step.  The kernel drops the lock of a process  *)
(* that ends, whatever ended it.                                           *)
(***************************************************************************)
CONSTANT Pids      \* process ids; each names one run of the program

VARIABLES
  at,       \* at[p]: "new", "open", "locked", "truncated", "runs", "over"
  holder,   \* the set of processes that hold the lock
  pidfile   \* the ids that show in the file: a write starts at offset 0, and
            \* leaves the end of a longer id that was there before

lockVars == <<at, holder, pidfile>>

States == {"new", "open", "locked", "truncated", "runs", "over"}

lockInit == at = [p \in Pids |-> "new"] /\ holder = {} /\ pidfile = {}

Goes(p, a, b) == at[p] = a /\ at' = [at EXCEPT ![p] = b]

Open(p) == Goes(p, "new", "open") /\ UNCHANGED <<holder, pidfile>>

(* write_lock: fcntl grants the lock unless another process has one.       *)
write_lock(p) == holder \subseteq {p} /\ holder' = holder \cup {p}

Lock(p) == Goes(p, "open", "locked") /\ write_lock(p) /\ UNCHANGED pidfile

(* EACCES or EAGAIN: the daemon is already running.                        *)
Refused(p) ==
  /\ ~(holder \subseteq {p}) /\ Goes(p, "open", "over") /\ UNCHANGED <<holder, pidfile>>

(* Mutant of ftruncate: what another run has left stays in the file.       *)
ftruncateNot(p) == Goes(p, "locked", "truncated") /\ UNCHANGED <<holder, pidfile>>
ftruncate(p)    == Goes(p, "locked", "truncated") /\ pidfile' = {} /\ UNCHANGED holder

WritePid(p) ==
  Goes(p, "truncated", "runs") /\ pidfile' = pidfile \cup {p} /\ UNCHANGED holder

(* exit, an error on the way, or a kill.                                   *)
Ends(p) ==
  /\ at[p] \in States \ {"new", "over"} /\ at' = [at EXCEPT ![p] = "over"]
  /\ holder' = holder \ {p} /\ UNCHANGED pidfile

lockNext == \E p \in Pids : Open(p) \/ Lock(p) \/ Refused(p) \/ ftruncate(p) \/ WritePid(p) \/ Ends(p)
lockSpec == lockInit /\ [][lockNext]_lockVars

-----------------------------------------------------------------------------
(* The types of the three variables.                                       *)
LockTypeOK == at \in [Pids -> States] /\ holder \subseteq Pids /\ pidfile \subseteq Pids

(* At most one process is past write_lock, whatever copies were started    *)
(* and killed meanwhile, and while a daemon does its work the file names   *)
(* it and nobody else: no other copy has written or truncated it, and      *)
(* nothing of an earlier run is left (daemon-lock.c:19-33).                *)
OneDaemon ==
  /\ \A p, q \in Pids : at[p] \in {"locked", "truncated", "runs"}
                        /\ at[q] \in {"locked", "truncated", "runs"} => p = q
  /\ \A p \in Pids : at[p] = "runs" => pidfile = {p}
=============================================================================
