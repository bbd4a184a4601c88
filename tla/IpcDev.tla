------------------------------- MODULE IpcDev -------------------------------
(***************************************************************************)
(* AP_UNIX/ipc_dev.c and ipc_anonymous.c: a parent and a child increment   *)
(* a long in shared memory in turn, NLOOPS times in all, and each checks   *)
(* the value it found.  The turns are taken with the routines of           *)
(* SignalSync.  An increment is a load and a store.                        *)
(***************************************************************************)
EXTENDS SignalSync

CONSTANT NLOOPS
ASSUME NLoopsAssumption == NLOOPS \in Nat

VARIABLES
  area,     \* the shared long
  counter,  \* counter[p]: the value p loaded
  i         \* i[p]: the loop variable

vars == <<pc, sync, area, counter, i>>

(* Where p is at the top of its loop, given its loop variable.             *)
Top(p, n) ==
  IF p = "parent" THEN (IF n < NLOOPS THEN "load" ELSE "exit")
                  ELSE (IF n < NLOOPS + 1 THEN "wait" ELSE "exit")

Init ==
  /\ TELL_WAIT
  /\ area = 0
  /\ counter = [p \in Procs |-> 0]
  /\ i = [p \in Procs |-> IF p = "parent" THEN 0 ELSE 1]
  /\ pc = [p \in Procs |-> Top(p, i[p])]

(* update() returns the value before the increment.                        *)
Load(p) ==
  /\ pc[p] = "load"
  /\ counter' = [counter EXCEPT ![p] = area]
  /\ Goto(p, "store")
  /\ UNCHANGED <<sync, area, i>>

Store(p) ==
  /\ pc[p] = "store"
  /\ area' = counter[p] + 1
  /\ Goto(p, IF counter[p] # i[p] THEN "err_quit" ELSE "tell")
  /\ UNCHANGED <<sync, counter, i>>

(* TELL ends a turn; the child's TELL and the parent's WAIT end a round.   *)
Tell(p) ==
  /\ IF p = "parent"
     THEN TELL(p, "wait") /\ UNCHANGED i
     ELSE TELL(p, Top(p, i[p] + 2)) /\ i' = [i EXCEPT ![p] = @ + 2]
  /\ UNCHANGED <<area, counter>>

WaitEnds(p) ==
  /\ IF p = "child"
     THEN WaitUnmask(p, "load") /\ UNCHANGED i
     ELSE WaitUnmask(p, Top(p, i[p] + 2)) /\ i' = [i EXCEPT ![p] = @ + 2]
  /\ UNCHANGED <<area, counter>>

Wait(p) ==
  /\ WaitTest(p) \/ WaitSuspend(p) \/ WaitReset(p) \/ sig_usr(p)
  /\ UNCHANGED <<area, counter, i>>

Step(p) == Load(p) \/ Store(p) \/ Tell(p) \/ WaitEnds(p) \/ Wait(p)

Done == (\A p \in Procs : pc[p] = "exit") /\ UNCHANGED vars

Next == (\E p \in Procs : Step(p)) \/ Done

Spec == Init /\ [][Next]_vars

(* The kernel schedules both processes and delivers signals.               *)
FairSpec == Spec /\ \A p \in Procs : WF_vars(Step(p))
-----------------------------------------------------------------------------
Labels == WaitLabels \cup {"load", "store", "err_quit", "tell", "exit"}

(* The variables have their types.                                         *)
TypeOK ==
  /\ SyncTypeOK
  /\ pc \in [Procs -> Labels]
  /\ area \in Nat
  /\ counter \in [Procs -> Nat]
  /\ i \in [Procs -> Nat]

(* A turn: p has it from the moment the other process's signal is on its   *)
(* way until p has sent its own.                                           *)
HasTurn(p) ==
  \/ pc[p] \in {"load", "store", "err_quit", "tell", "reset", "unmask"}
  \/ pending[p]
  \/ sigflag[p] = 1

(* The err_quit calls "expected %d, got %d" are unreachable: each process  *)
(* finds the value its loop variable says, so no increment is lost.        *)
NoErrQuit == \A p \in Procs : pc[p] # "err_quit"

(* The two never have the turn together, and none is lost: while a process *)
(* still runs, one of the two has it.  So no increment is lost either.     *)
TurnsAlternate ==
  /\ ~(HasTurn("parent") /\ HasTurn("child"))
  /\ (pc["parent"] # "exit") => HasTurn("parent") \/ HasTurn("child")
  /\ NoErrQuit

(* Why: a process is at its update, or waits with no signal sent to it, or *)
(* waits with its signal pending or its flag set but not both.             *)
Asleep == {"wait", "suspend", "asleep"}

Active(p) == /\ pc[p] \in {"load", "store", "tell"}
             /\ ~pending[p] /\ sigflag[p] = 0
             /\ pc[p] # "tell" => area = i[p]
             /\ pc[p] = "store" => counter[p] = i[p]
             /\ pc[p] = "tell" => area = i[p] + 1
Idle(p)   == pc[p] \in Asleep /\ ~pending[p] /\ sigflag[p] = 0
Gone(p)   == pc[p] = "exit" /\ ~pending[p] /\ sigflag[p] = 0
Called(p) == \/ pc[p] \in Asleep /\ pending[p] /\ sigflag[p] = 0
             \/ pc[p] \in Asleep \cup {"reset"} /\ ~pending[p] /\ sigflag[p] = 1
             \/ pc[p] = "unmask" /\ ~pending[p] /\ sigflag[p] = 0

(* The four phases of a round, and the end.                                *)
SameRound == i["child"] = i["parent"] + 1 /\ i["parent"] < NLOOPS
TurnInv ==
  \/ Active("parent") /\ Idle("child") /\ SameRound
  \/ Called("child") /\ Idle("parent") /\ SameRound /\ area = i["child"]
  \/ Active("child") /\ Idle("parent") /\ SameRound
  \/ /\ Called("parent")
     /\ i["child"] = i["parent"] + 3 /\ area = i["parent"] + 2
     /\ IF i["child"] < NLOOPS + 1 THEN Idle("child") ELSE Gone("child")
  \/ Gone("parent") /\ Gone("child")

(* Both processes finish their loops.                                      *)
Terminates == <>(\A p \in Procs : pc[p] = "exit")
=============================================================================
