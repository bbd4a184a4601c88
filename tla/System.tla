------------------------------- MODULE System -------------------------------
(***************************************************************************)
(* The two versions of system: system-func.c, which leaves signals alone,  *)
(* and ystem.c, which ignores SIGINT and SIGQUIT (one disposition here)    *)
(* and blocks SIGCHLD while it waits.  The caller has its own disposition  *)
(* for SIGINT, as in system-ed.c, and a handler for SIGCHLD that may wait  *)
(* for a child itself.                                                     *)
(***************************************************************************)
EXTENDS Naturals

CONSTANT MaxIntr   \* bound: SIGINTs typed at the terminal

VARIABLES
  build,     \* "plain" or "signals"
  own,       \* the caller's disposition of SIGINT: "dfl" or "catch"
  reaps,     \* the caller's handler of SIGCHLD waits for a child
  ypc,       \* the statement system is at
  disp,      \* the disposition of SIGINT now
  chld,      \* SIGCHLD: "none", "pending"
  blocked,   \* SIGCHLD is blocked
  kidst,     \* the child: "none", "forked", "runs", "zombie", "reaped"
  kiddisp,   \* the child's disposition of SIGINT
  how,       \* how the command ended: "none", "exit", "intr"
  status,    \* what system returns
  hit,       \* SIGINT has reached the caller's disposition inside system
  intrs

sysVars == <<build, own, reaps, ypc, disp, chld, blocked, kidst, kiddisp, how, status, hit, intrs>>
chosenBy == <<build, own, reaps>>
command  == <<kidst, kiddisp, how>>

sysInit ==
  /\ build \in {"plain", "signals"} /\ own \in {"dfl", "catch"} /\ reaps \in BOOLEAN
  /\ ypc = (IF build = "signals" THEN "ignore" ELSE "fork")
  /\ disp = own /\ chld = "none" /\ blocked = FALSE
  /\ kidst = "none" /\ kiddisp = own /\ how = "none" /\ status = "none" /\ hit = FALSE /\ intrs = 0

(* sigaction of SIGINT and SIGQUIT.                                        *)
Ignore ==
  /\ ypc = "ignore"
  /\ disp' = "ign" /\ ypc' = "block"
  /\ UNCHANGED <<chosenBy, chld, blocked, command, status, hit, intrs>>

(* Mutant of Block: SIGCHLD is not blocked.                                *)
BlockNot ==
  /\ ypc = "block" /\ ypc' = "fork"
  /\ UNCHANGED <<chosenBy, disp, chld, blocked, command, status, hit, intrs>>
Block ==
  /\ ypc = "block" /\ ypc' = "fork" /\ blocked' = TRUE
  /\ UNCHANGED <<chosenBy, disp, chld, command, status, hit, intrs>>

(* fork fails, or there is a child with the caller's dispositions.         *)
Fork ==
  /\ ypc = "fork"
  /\ \/ ypc' = "restore" /\ status' = "-1" /\ UNCHANGED <<kidst, kiddisp>>
     \/ ypc' = "waitpid" /\ kidst' = "forked" /\ kiddisp' = disp /\ UNCHANGED status
  /\ UNCHANGED <<chosenBy, disp, chld, blocked, how, hit, intrs>>

(* ystem.c: the child gets the caller's dispositions back.                 *)
ChildDisp == IF build = "signals" THEN own ELSE kiddisp

(* The child restores what it inherited and runs the command; exec turns a *)
(* caught signal into the default.                                         *)
ChildRuns ==
  /\ kidst = "forked"
  /\ kidst' = "runs"
  /\ kiddisp' = IF ChildDisp = "ign" THEN "ign" ELSE "dfl"
  /\ UNCHANGED <<chosenBy, ypc, disp, chld, blocked, how, status, hit, intrs>>
CommandEnds ==
  /\ kidst = "runs"
  /\ kidst' = "zombie" /\ how' = "exit" /\ chld' = "pending"
  /\ UNCHANGED <<chosenBy, ypc, disp, blocked, kiddisp, status, hit, intrs>>

(* waitpid returns the status, or ECHILD if somebody else has reaped the   *)
(* child; EINTR makes it wait again.                                       *)
Waitpid ==
  /\ ypc = "waitpid" /\ kidst \in {"zombie", "reaped"}
  /\ status' = IF kidst = "zombie" THEN how ELSE "-1"
  /\ kidst' = "reaped"
  /\ ypc' = "restore"
  /\ UNCHANGED <<chosenBy, disp, chld, blocked, kiddisp, how, hit, intrs>>

Restore ==
  /\ ypc = "restore"
  /\ disp' = own /\ ypc' = "unblock"
  /\ UNCHANGED <<chosenBy, chld, blocked, command, status, hit, intrs>>
Unblock ==
  /\ ypc = "unblock"
  /\ blocked' = FALSE /\ ypc' = "return"
  /\ UNCHANGED <<chosenBy, disp, chld, command, status, hit, intrs>>

(* SIGCHLD is delivered: the caller's handler may reap the child.          *)
sig_chld ==
  /\ chld = "pending" /\ ~blocked /\ ypc # "dead"
  /\ chld' = "none"
  /\ kidst' = IF reaps /\ kidst = "zombie" THEN "reaped" ELSE kidst
  /\ UNCHANGED <<chosenBy, ypc, disp, blocked, kiddisp, how, status, hit, intrs>>

(* SIGINT is typed: it goes to the caller and to the child.                *)
Interrupt ==
  /\ intrs < MaxIntr /\ intrs' = intrs + 1 /\ ypc # "dead"
  /\ ypc' = IF disp = "dfl" THEN "dead" ELSE ypc
  /\ hit' = (hit \/ (disp # "ign" /\ kidst \in {"forked", "runs"}))
  /\ IF kidst \in {"forked", "runs"} /\ kiddisp # "ign"
     THEN IF kiddisp = "catch"      \* the caller's handler runs in the child
          THEN UNCHANGED <<kidst, how, chld>>
          ELSE kidst' = "zombie" /\ how' = "intr" /\ chld' = "pending"
     ELSE UNCHANGED <<kidst, how, chld>>
  /\ UNCHANGED <<chosenBy, disp, blocked, kiddisp, status>>

sysStep == Ignore \/ Block \/ Fork \/ Waitpid \/ Restore \/ Unblock
sysNext == sysStep \/ ChildRuns \/ CommandEnds \/ sig_chld \/ Interrupt

-----------------------------------------------------------------------------
(* system returns how its command ended, although the caller's handler for *)
(* SIGCHLD may wait too (blocked SIGCHLD) and signals interrupt waitpid;   *)
(* the plain version, only with a handler that does not wait.              *)
StatusRight ==
  (build = "signals" \/ ~reaps) /\ how # "none" /\ ypc = "return" => status = how

(* With signal handling, SIGINT is the command's alone: it never reaches   *)
(* the caller while the command runs, the command takes it as if the       *)
(* caller had started it directly, and the caller finds its own            *)
(* disposition and mask on return.                                         *)
SignalsApart ==
  /\ build = "signals" => ~hit
  /\ kidst = "runs" => kiddisp = "dfl"
  /\ ypc = "return" => disp = own /\ ~blocked
=============================================================================
