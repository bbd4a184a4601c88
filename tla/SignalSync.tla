----------------------------- MODULE SignalSync -----------------------------
(***************************************************************************)
(* The TELL/WAIT routines of AP_UNIX/signal-sync.c, with which a parent    *)
(* and a child take turns: a TELL is a kill, a WAIT sleeps in sigsuspend   *)
(* until the signal handler has set sigflag.                               *)
(*                                                                         *)
(* The two processes have a signal each (SIGUSR1 to the child, SIGUSR2 to  *)
(* the parent), one handler and one flag, so a process has one pending     *)
(* bit.  Labels "wait", "suspend", "asleep", "reset" and "unmask" belong   *)
(* to a WAIT; the others to the program that extends this module.          *)
(***************************************************************************)
EXTENDS Naturals

VARIABLES
  pc,       \* pc[p]: the statement p executes next
  sigflag,  \* sigflag[p]: the flag set by sig_usr
  pending,  \* pending[p]: a signal has been sent to p and not delivered
  blocked   \* blocked[p]: the process's mask blocks the signals

sync == <<sigflag, pending, blocked>>

Procs    == {"parent", "child"}
Other(p) == IF p = "parent" THEN "child" ELSE "parent"

WaitLabels == {"wait", "suspend", "asleep", "reset", "unmask"}

Goto(p, label) == pc' = [pc EXCEPT ![p] = label]

(* Mutant of TELL_WAIT: the signals are not blocked.                       *)
TELL_WAITUnblocked ==
  /\ sigflag = [p \in Procs |-> 0]
  /\ pending = [p \in Procs |-> FALSE]
  /\ blocked = [p \in Procs |-> FALSE]

(* TELL_WAIT runs before fork: both processes start with its mask.         *)
TELL_WAIT ==
  /\ sigflag = [p \in Procs |-> 0]
  /\ pending = [p \in Procs |-> FALSE]
  /\ blocked = [p \in Procs |-> TRUE]

(* TELL_PARENT or TELL_CHILD, then statement next.                         *)
TELL(p, next) ==
  /\ pc[p] = "tell"
  /\ pending' = [pending EXCEPT ![Other(p)] = TRUE]
  /\ Goto(p, next)
  /\ UNCHANGED <<sigflag, blocked>>

(* sig_usr runs when a signal is pending that the mask lets through; the   *)
(* mask of sigsuspend is empty, and sigsuspend returns after the handler.  *)
sig_usr(p) ==
  /\ pending[p] /\ (~blocked[p] \/ pc[p] = "asleep")
  /\ pc[p] \notin {"exit", "err_quit"}
  /\ pending' = [pending EXCEPT ![p] = FALSE]
  /\ sigflag' = [sigflag EXCEPT ![p] = 1]
  /\ IF pc[p] = "asleep" THEN Goto(p, "wait") ELSE UNCHANGED pc
  /\ UNCHANGED blocked

(* WAIT_PARENT or WAIT_CHILD: the loop, the reset of the flag and the      *)
(* restoration of the mask that was in force before TELL_WAIT.             *)
WaitTest(p) ==
  /\ pc[p] = "wait"
  /\ Goto(p, IF sigflag[p] = 0 THEN "suspend" ELSE "reset")
  /\ UNCHANGED sync

WaitSuspend(p) ==
  /\ pc[p] = "suspend"
  /\ Goto(p, "asleep")
  /\ UNCHANGED sync

(* Mutant of WaitReset: the flag stays set.                                *)
WaitResetKeeps(p) ==
  /\ pc[p] = "reset"
  /\ Goto(p, "unmask")
  /\ UNCHANGED sync

WaitReset(p) ==
  /\ pc[p] = "reset"
  /\ sigflag' = [sigflag EXCEPT ![p] = 0]
  /\ Goto(p, "unmask")
  /\ UNCHANGED <<pending, blocked>>

WaitUnmask(p, next) ==
  /\ pc[p] = "unmask"
  /\ blocked' = [blocked EXCEPT ![p] = FALSE]
  /\ Goto(p, next)
  /\ UNCHANGED <<sigflag, pending>>

SyncTypeOK ==
  /\ sigflag \in [Procs -> {0, 1}]
  /\ pending \in [Procs -> BOOLEAN]
  /\ blocked \in [Procs -> BOOLEAN]
=============================================================================
