------------------------------- MODULE Popen --------------------------------
(***************************************************************************)
(* popen and pclose of pipe-func.c.  The k-th call of popen makes child k; *)
(* the caller's end of its pipe is a descriptor.  A command that reads     *)
(* ("w") runs until its standard input ends.  file2popen.c closes such a   *)
(* stream with fclose, which leaves its entry in childpid[].               *)
(***************************************************************************)
EXTENDS Integers, FiniteSets, FiniteSetsExt

CONSTANT MaxPopen   \* bound: calls of popen

VARIABLES
  childpid,  \* childpid[fd]: the child behind a descriptor, or 0
  stream,    \* stream[fd]: the call of popen whose pipe end it is, or 0
  type,      \* type[k]: "r", "w", or "none" if there was no k-th call
  kid,       \* kid[k]: "none", "forked", "runs", "zombie", "reaped"
  ends,      \* ends[k]: the other pipes of which child k holds the caller's end
  waits,     \* the call of popen whose stream pclose is closing, or 0
  waitfor    \* the pid pclose has read from childpid[]

popenVars == <<childpid, stream, type, kid, ends, waits, waitfor>>

Calls == 1..MaxPopen
Fds   == 3..(3 + MaxPopen)

popenInit ==
  /\ childpid = [fd \in Fds |-> 0] /\ stream = [fd \in Fds |-> 0]
  /\ type = [k \in Calls |-> "none"] /\ kid = [k \in Calls |-> "none"]
  /\ ends = [k \in Calls |-> {}] /\ waits = 0 /\ waitfor = 0

(* childpid[fileno(fp)] = pid.                                             *)
Remember(fd, k) == childpid' = [childpid EXCEPT ![fd] = k]

(* popen in the caller: pipe takes the two lowest descriptors, of which    *)
(* the caller keeps the first to read and the second to write; fork copies *)
(* all that are open.                                                      *)
popen(t) ==
  LET k    == Cardinality({c \in Calls : type[c] # "none"}) + 1
      free == {f \in Fds : stream[f] = 0}
      fd   == IF t = "r" THEN Min(free) ELSE Min(free \ {Min(free)})
  IN  /\ waits = 0 /\ k <= MaxPopen
      /\ type' = [type EXCEPT ![k] = t]
      /\ kid' = [kid EXCEPT ![k] = "forked"]
      /\ ends' = [ends EXCEPT ![k] = {stream[f] : f \in Fds} \ {0}]
      /\ stream' = [stream EXCEPT ![fd] = k]
      /\ Remember(fd, k)
      /\ UNCHANGED <<waits, waitfor>>

(* Mutant of CloseOthers: the child keeps the descriptors.                 *)
CloseOthersNot(k) == UNCHANGED ends
(* The child closes the descriptors in childpid[].                         *)
CloseOthers(k) == ends' = [ends EXCEPT ![k] = {}]

(* popen in the child: exec, or _exit(127).                                *)
ChildRuns(k) ==
  /\ kid[k] = "forked"
  /\ CloseOthers(k)
  /\ kid' = [kid EXCEPT ![k] = "runs"]
  /\ UNCHANGED <<childpid, stream, type, waits, waitfor>>
ExecFails(k) ==
  /\ kid[k] = "forked"
  /\ kid' = [kid EXCEPT ![k] = "zombie"] /\ ends' = [ends EXCEPT ![k] = {}]
  /\ UNCHANGED <<childpid, stream, type, waits, waitfor>>

(* The command ends: one that reads, at the end of its input, when nobody  *)
(* has the other end of its pipe open any more.                            *)
CommandEnds(k) ==
  /\ kid[k] = "runs"
  /\ type[k] = "w" => (\A fd \in Fds : stream[fd] # k) /\ (\A j \in Calls : k \notin ends[j])
  /\ kid' = [kid EXCEPT ![k] = "zombie"] /\ ends' = [ends EXCEPT ![k] = {}]
  /\ UNCHANGED <<childpid, stream, type, waits, waitfor>>

(* pclose up to its waitpid.                                               *)
pclose(fd) ==
  /\ waits = 0 /\ stream[fd] # 0 /\ childpid[fd] # 0
  /\ waits' = stream[fd] /\ waitfor' = childpid[fd]
  /\ childpid' = [childpid EXCEPT ![fd] = 0]
  /\ stream' = [stream EXCEPT ![fd] = 0]
  /\ UNCHANGED <<type, kid, ends>>

(* waitpid returns the child; a signal only makes the loop wait again.     *)
PcloseReturns ==
  /\ waits # 0 /\ kid[waitfor] = "zombie"
  /\ kid' = [kid EXCEPT ![waitfor] = "reaped"]
  /\ waits' = 0 /\ waitfor' = 0
  /\ UNCHANGED <<childpid, stream, type, ends>>

(* fclose in place of pclose.                                              *)
fclose(fd) ==
  /\ waits = 0 /\ stream[fd] # 0
  /\ stream' = [stream EXCEPT ![fd] = 0]
  /\ UNCHANGED <<childpid, type, kid, ends, waits, waitfor>>

Child(k) == ChildRuns(k) \/ ExecFails(k) \/ CommandEnds(k)
popenNext == \/ \E t \in {"r", "w"} : popen(t)
             \/ \E fd \in Fds : pclose(fd) \/ fclose(fd)
             \/ PcloseReturns \/ \E k \in Calls : Child(k)

-----------------------------------------------------------------------------
(* pclose waits for the child of its own stream, also on a descriptor      *)
(* whose earlier stream was closed with fclose.                            *)
OwnChild == waits # 0 => waitfor = waits /\ kid[waitfor] # "reaped"

(* pclose returns: a command that reads sees the end of its input, because *)
(* no later child has kept the caller's end of its pipe.                   *)
PcloseEnds == waits # 0 ~> waits = 0
=============================================================================
