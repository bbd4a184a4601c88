----------------------------- MODULE SyncDemos ------------------------------
(***************************************************************************)
(* The programs of AP_UNIX that rendezvous once with the routines of       *)
(* SignalSync: race-fork.c (the parent writes first), deadlock-demo.c      *)
(* (each locks a byte and then asks for the other's) and chk-lck.c (the    *)
(* child tries a lock that the parent holds).  The record locks are those  *)
(* of lock-func.c; the kernel refuses a request that would close a cycle.  *)
(***************************************************************************)
EXTENDS SignalSync, Sequences

CONSTANT Chars   \* characters in a line written by charatatime

VARIABLES
  prog,   \* the program that runs
  at,     \* at[p]: index of p's statement in its script
  owner,  \* owner[b]: the process that holds a lock on byte b, or "none"
  asks,   \* asks[p]: the byte p sleeps for in fcntl, or "none"
  out     \* what charatatime has written, one process name per character

vars == <<prog, pc, sync, at, owner, asks, out>>

(* Mutant of Script: chk-lck tells the child before it sets the lock.      *)
ScriptTellsFirst ==
  [race     |-> [parent |-> <<"write", "tell">>,
                 child  |-> <<"wait", "write">>],
   deadlock |-> [parent |-> <<"lock1", "tell", "wait", "lock0">>,
                 child  |-> <<"lock0", "tell", "wait", "lock1">>],
   chklck   |-> [parent |-> <<"tell", "lockall", "waitpid">>,
                 child  |-> <<"wait", "trylock">>]]

Script ==
  [race     |-> [parent |-> <<"write", "tell">>,
                 child  |-> <<"wait", "write">>],
   deadlock |-> [parent |-> <<"lock1", "tell", "wait", "lock0">>,
                 child  |-> <<"lock0", "tell", "wait", "lock1">>],
   chklck   |-> [parent |-> <<"lockall", "tell", "waitpid">>,
                 child  |-> <<"wait", "trylock">>]]

(* A byte each; locking the whole file locks both.                         *)
Bytes == {"lock0", "lock1"}

Ended(p) == pc[p] \in {"exit", "err_sys"}

NextStmt(p) ==
  LET s == Script[prog][p]
  IN  IF at[p] < Len(s) THEN s[at[p] + 1] ELSE "exit"
Advance(p) == at' = [at EXCEPT ![p] = @ + 1]

Init ==
  /\ TELL_WAIT
  /\ prog \in DOMAIN Script
  /\ at = [p \in Procs |-> 1]
  /\ pc = [p \in Procs |-> Script[prog][p][1]]
  /\ owner = [b \in Bytes |-> "none"]
  /\ asks = [p \in Procs |-> "none"]
  /\ out = << >>

(* exit and err_sys end a process, which releases its locks.               *)
Released(p) == [b \in Bytes |-> IF owner[b] = p THEN "none" ELSE owner[b]]

Finish(p) == owner' = IF NextStmt(p) = "exit" THEN Released(p) ELSE owner

(* charatatime: stdout is unbuffered, every character is a write.          *)
Write(p) ==
  /\ pc[p] = "write"
  /\ out' = Append(out, p)
  /\ IF Len(SelectSeq(out, LAMBDA c : c = p)) + 1 < Chars
     THEN UNCHANGED <<pc, at>>
     ELSE Goto(p, NextStmt(p)) /\ Advance(p)
  /\ UNCHANGED <<prog, sync, owner, asks>>

Tell(p) ==
  /\ TELL(p, NextStmt(p))
  /\ Advance(p) /\ Finish(p)
  /\ UNCHANGED <<prog, asks, out>>

Wait(p) ==
  /\ WaitTest(p) \/ WaitSuspend(p) \/ WaitReset(p) \/ sig_usr(p)
  /\ UNCHANGED <<prog, at, owner, asks, out>>

WaitEnds(p) ==
  /\ WaitUnmask(p, NextStmt(p))
  /\ Advance(p)
  /\ UNCHANGED <<prog, owner, asks, out>>

(* lockabyte: writew_lock gets a byte that the other process does not hold.*)
LockByte(p) ==
  /\ pc[p] \in Bytes
  /\ owner[pc[p]] # Other(p)
  /\ owner' = IF NextStmt(p) = "exit" THEN Released(p) ELSE [owner EXCEPT ![pc[p]] = p]
  /\ asks' = [asks EXCEPT ![p] = "none"]
  /\ Goto(p, NextStmt(p)) /\ Advance(p)
  /\ UNCHANGED <<prog, sync, out>>

(* The byte is taken: p sleeps, unless its owner sleeps for a byte of p's, *)
(* in which case fcntl fails with EDEADLK and err_sys ends p.              *)
Cycle(p) == LET q == Other(p) IN asks[q] # "none" /\ owner[asks[q]] = p

LockSleeps(p) ==
  /\ pc[p] \in Bytes /\ asks[p] = "none"
  /\ owner[pc[p]] = Other(p) /\ ~Cycle(p)
  /\ asks' = [asks EXCEPT ![p] = pc[p]]
  /\ UNCHANGED <<prog, pc, sync, at, owner, out>>

LockRefused(p) ==
  /\ pc[p] \in Bytes /\ asks[p] = "none"
  /\ owner[pc[p]] = Other(p) /\ Cycle(p)
  /\ owner' = Released(p)
  /\ Goto(p, "err_sys")
  /\ UNCHANGED <<prog, sync, at, asks, out>>

(* chk-lck: the parent's write_lock of the whole file, which does not wait.*)
LockAll(p) ==
  /\ pc[p] = "lockall"
  /\ owner' = [b \in Bytes |-> p]
  /\ Goto(p, NextStmt(p)) /\ Advance(p)
  /\ UNCHANGED <<prog, sync, asks, out>>

(* chk-lck: the child's read_lock must fail, or err_sys is called.         *)
TryLock(p) ==
  /\ pc[p] = "trylock"
  /\ Goto(p, IF \E b \in Bytes : owner[b] = Other(p) THEN "exit" ELSE "err_sys")
  /\ Advance(p)
  /\ UNCHANGED <<prog, sync, owner, asks, out>>

WaitPid(p) ==
  /\ pc[p] = "waitpid" /\ Ended(Other(p))
  /\ Goto(p, NextStmt(p)) /\ Advance(p) /\ Finish(p)
  /\ UNCHANGED <<prog, sync, asks, out>>

Step(p) ==
  \/ Write(p) \/ Tell(p) \/ Wait(p) \/ WaitEnds(p)
  \/ LockByte(p) \/ LockSleeps(p) \/ LockRefused(p)
  \/ LockAll(p) \/ TryLock(p) \/ WaitPid(p)

Done == (\A p \in Procs : Ended(p)) /\ UNCHANGED vars

Next == (\E p \in Procs : Step(p)) \/ Done

Spec == Init /\ [][Next]_vars

(* The kernel schedules both processes, grants free locks and delivers     *)
(* signals.                                                                *)
FairSpec == Spec /\ \A p \in Procs : WF_vars(Step(p))
-----------------------------------------------------------------------------
(* race-fork: "parent goes first": no character of the child's line before *)
(* the last one of the parent's.                                           *)
ParentFirst ==
  \A m, n \in DOMAIN out : out[m] = "child" /\ out[n] = "parent" => n < m

(* deadlock-demo: the two always meet in the deadlock, and it is broken    *)
(* for exactly one of them: one process is refused and ends in err_sys,    *)
(* the other gets both bytes.                                              *)
OneRefused ==
  prog = "deadlock" =>
    /\ ~(\A p \in Procs : pc[p] = "err_sys")
    /\ (\A p \in Procs : Ended(p)) => \E p \in Procs : pc[p] = "err_sys"

(* chk-lck: the child tries the lock while the parent holds it, so the     *)
(* err_sys "child: read_lock succeeded" is unreachable.                    *)
LockSeen == prog = "chklck" => \A p \in Procs : pc[p] # "err_sys"

(* Every program ends: no signal is lost and nobody sleeps for ever.       *)
Terminates == <>(\A p \in Procs : Ended(p))
=============================================================================
