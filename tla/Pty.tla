-------------------------------- MODULE Pty ---------------------------------
(***************************************************************************)
(* The pty program: main of ptymain.c, pty_fork of ptyfork.c with the BSD  *)
(* ptym_open, do_driver of dodriver.c and the two copying processes of     *)
(* ptyloop.c.  The slave program writes SlaveOut to its terminal and ends; *)
(* the user (or the driver) types Typed and may then close standard input. *)
(***************************************************************************)
EXTENDS Integers, Sequences, SequencesExt, TtyModes

CONSTANTS
  SlaveOut, Typed,   \* what the slave writes and what the user types
  BUFFSIZE,
  Ptys               \* the states the pty devices may be in: sequences of
                     \* "busy", "free" and "absent"

VARIABLES
  opts,      \* [interactive, ignoreeof, driver]: main's flags
  devs,      \* devs[i]: the i-th pty device
  ppc,       \* main and the parent: the statement it is at
  kpc,       \* the child that copies stdin to ptym: "none", "read", "write", "eof",
             \* "exit", "done", "killed"
  slave,     \* the program on the slave: "none", "runs", "done"
  stdin, ineof,      \* what is left to be typed, and whether EOF follows
  ptyIn, ptyOut,     \* ptyIn: what has reached the slave; ptyOut: not yet read
  left,      \* what the slave has still to write
  pbuff, kbuff,      \* the buffers of the two processes
  stdout,    \* what the parent has written
  handler,   \* sig_term is installed
  sigterm,   \* SIGTERM is pending for the parent
  sigcaught

ptyVars == <<termios, tty, opts, devs, ppc, kpc, slave, stdin, ineof, ptyIn, ptyOut,
             left, pbuff, kbuff, stdout, handler, sigterm, sigcaught>>

terminal == <<termios, tty>>
typing   == <<stdin, ineof, ptyIn, kbuff>>
showing  == <<ptyOut, left, pbuff, stdout>>
signals  == <<handler, sigterm, sigcaught>>

ptyInit ==
  /\ termios = "user" /\ tty = [p \in {"parent", "child"} |-> NotSaved]
  /\ opts \in [interactive : BOOLEAN, ignoreeof : BOOLEAN, driver : BOOLEAN]
  /\ devs \in Ptys
  /\ ppc = "pty_fork" /\ kpc = "none" /\ slave = "none"
  /\ stdin = Typed /\ ineof = FALSE /\ ptyIn = << >> /\ ptyOut = << >> /\ left = SlaveOut
  /\ pbuff = << >> /\ kbuff = << >> /\ stdout = << >>
  /\ handler = FALSE /\ sigterm = FALSE /\ sigcaught = 0

-----------------------------------------------------------------------------
(* ptym_open: the first device that can be opened, 0 if one is missing     *)
(* before it or none is left.                                              *)
ptym_open ==
  LET at == SelectInSeq(devs, LAMBDA d : d # "busy")
  IN  IF at # 0 /\ devs[at] = "free" THEN at ELSE 0

(* pty_fork; err_sys ends main if there is no device.  The child opens the *)
(* slave (ptys_open) and becomes the program.                              *)
pty_fork ==
  /\ ppc = "pty_fork"
  /\ IF ptym_open = 0
     THEN ppc' = "done" /\ UNCHANGED <<devs, slave>>
     ELSE /\ devs' = [devs EXCEPT ![ptym_open] = "busy"]
          /\ slave' = "runs"
          /\ ppc' = IF opts.driver THEN "driver"
                    ELSE IF opts.interactive THEN "tty_raw" ELSE "fork"
  /\ UNCHANGED <<terminal, opts, kpc, typing, showing, signals>>

(* The user's terminal to raw mode, and atexit(tty_atexit).                *)
MainRaw ==
  /\ ppc = "tty_raw"
  /\ tty_raw("parent")
  /\ ppc' = "fork"
  /\ UNCHANGED <<opts, devs, kpc, slave, typing, showing, signals>>

(* do_driver: standard input and output become a stream pipe to the driver,*)
(* which from here on types and reads in place of the user.                *)
do_driver ==
  /\ ppc = "driver"
  /\ ppc' = "fork"
  /\ UNCHANGED <<terminal, opts, devs, kpc, slave, typing, showing, signals>>

(* loop: the child inherits the saved mode and the exit handler.           *)
Fork ==
  /\ ppc = "fork"
  /\ kpc' = "read" /\ ppc' = "signal"
  /\ tty' = [tty EXCEPT !["child"] = tty["parent"]]
  /\ UNCHANGED <<termios, opts, devs, slave, typing, showing, signals>>

-----------------------------------------------------------------------------
(* exit: the atexit functions run.                                         *)
Exit(p) == tty_atexit(p)

(* The child that copies standard input to the master.                     *)
CopyIn ==
  \/ /\ kpc = "read" /\ stdin # << >>
     /\ \E n \in 1..Len(stdin) :
          /\ n <= BUFFSIZE
          /\ kbuff' = SubSeq(stdin, 1, n)
          /\ stdin' = SubSeq(stdin, n + 1, Len(stdin))
     /\ kpc' = "write" /\ UNCHANGED <<terminal, ptyIn, sigterm>>
  \/ /\ kpc = "read" /\ stdin = << >> /\ ineof
     /\ kpc' = "eof" /\ UNCHANGED <<terminal, stdin, ptyIn, kbuff, sigterm>>
  \/ /\ kpc = "write"
     /\ ptyIn' = ptyIn \o kbuff /\ kbuff' = << >>
     /\ kpc' = "read" /\ UNCHANGED <<terminal, stdin, sigterm>>
  \/ /\ kpc = "write" /\ slave = "done"      \* err_sys: the slave is closed
     /\ kpc' = "exit" /\ UNCHANGED <<terminal, stdin, ptyIn, kbuff, sigterm>>
  \/ /\ kpc = "eof"      \* kill(getppid()): init, if the parent is gone
     /\ sigterm' = (~opts.ignoreeof /\ ppc # "done")
     /\ kpc' = "exit" /\ UNCHANGED <<terminal, stdin, ptyIn, kbuff>>
  \/ /\ kpc = "exit"
     /\ Exit("child")
     /\ kpc' = "done" /\ UNCHANGED <<stdin, ptyIn, kbuff, sigterm>>

(* signal_intr(SIGTERM, sig_term).                                         *)
signal_intr ==
  /\ ppc = "signal"
  /\ handler' = TRUE /\ ppc' = "read"
  /\ UNCHANGED <<terminal, opts, devs, kpc, slave, typing, showing, sigterm, sigcaught>>

(* The parent reads the master; EOF once the slave has ended.              *)
CopyOut ==
  /\ ppc = "read"
  /\ \/ /\ ptyOut # << >>
        /\ \E n \in 1..Len(ptyOut) :
             /\ n <= BUFFSIZE
             /\ pbuff' = SubSeq(ptyOut, 1, n)
             /\ ptyOut' = SubSeq(ptyOut, n + 1, Len(ptyOut))
        /\ ppc' = "write"
     \/ ptyOut = << >> /\ slave = "done" /\ ppc' = "stop" /\ UNCHANGED <<pbuff, ptyOut>>
  /\ UNCHANGED <<terminal, opts, devs, kpc, slave, typing, left, stdout, signals>>

(* Mutant of Written: one write, whatever it took.                         *)
WrittenOnce == \E n \in 1..Len(pbuff) : stdout' = stdout \o SubSeq(pbuff, 1, n)
(* writen: until all of it is written.                                     *)
Written == stdout' = stdout \o pbuff

(* Writing to a driver that has ended kills the parent with SIGPIPE.       *)
CopyOutWrite ==
  /\ ppc = "write"
  /\ \/ Written /\ pbuff' = << >> /\ ppc' = "read"
     \/ opts.driver /\ ineof /\ ppc' = "done" /\ UNCHANGED <<pbuff, stdout>>
  /\ UNCHANGED <<terminal, opts, devs, kpc, slave, typing, ptyOut, left, signals>>

(* SIGTERM is delivered: without the handler it kills the parent.  With it,*)
(* a read of the master that sleeps is interrupted, and so may writen be,  *)
(* which ends in err_sys; between the two it only sets the flag.           *)
sig_term ==
  /\ sigterm /\ ppc # "done"
  /\ sigterm' = FALSE
  /\ \/ ~handler /\ ppc' = "done" /\ UNCHANGED sigcaught
     \/ handler /\ sigcaught' = 1 /\ UNCHANGED ppc
     \/ handler /\ sigcaught' = 1 /\ ppc = "read" /\ ptyOut = << >> /\ ppc' = "stop"
     \/ handler /\ sigcaught' = 1 /\ ppc = "write" /\ ppc' = "exit"
  /\ UNCHANGED <<terminal, opts, devs, kpc, slave, typing, showing, handler>>

(* Mutant of TellChild: the child is left alone.                           *)
TellChildNot == UNCHANGED kpc
(* kill(child, SIGTERM) if the child did not send us the signal.           *)
TellChild ==
  kpc' = IF sigcaught = 0 /\ kpc # "done" THEN "killed" ELSE kpc

LoopEnds ==
  /\ ppc = "stop"
  /\ TellChild
  /\ ppc' = "exit"
  /\ UNCHANGED <<terminal, opts, devs, slave, typing, showing, signals>>

(* main exits.                                                             *)
MainExit ==
  /\ ppc = "exit"
  /\ Exit("parent")
  /\ ppc' = "done"
  /\ UNCHANGED <<opts, devs, kpc, slave, typing, showing, signals>>

CopyInStep == CopyIn /\ UNCHANGED <<opts, devs, ppc, slave, ineof, showing, handler, sigcaught>>
ParentStep == \/ pty_fork \/ MainRaw \/ do_driver \/ Fork \/ signal_intr \/ CopyOut
              \/ CopyOutWrite \/ LoopEnds \/ MainExit

-----------------------------------------------------------------------------
(* Both processes of pty have ended, and the master is closed.             *)
Ended == ppc = "done" /\ kpc \in {"none", "done", "killed"}

(* The slave writes the next part of its output, or ends, also when its    *)
(* terminal hangs up.                                                      *)
Slave ==
  /\ slave = "runs"
  /\ \/ /\ left # << >>
        /\ ptyOut' = Append(ptyOut, Head(left)) /\ left' = Tail(left)
        /\ UNCHANGED slave
     \/ /\ left = << >> \/ Ended
        /\ slave' = "done" /\ UNCHANGED <<ptyOut, left>>
  /\ UNCHANGED <<terminal, opts, devs, ppc, kpc, typing, pbuff, stdout, signals>>

(* Standard input is closed, or the driver ends.                           *)
UserEof ==
  /\ ~ineof /\ ineof' = TRUE
  /\ UNCHANGED <<terminal, opts, devs, ppc, kpc, slave, stdin, ptyIn, kbuff, showing, signals>>

ptyNext == ParentStep \/ CopyInStep \/ sig_term \/ Slave \/ UserEof

-----------------------------------------------------------------------------
(* What the user sees is what the slave wrote, in order, and all of it     *)
(* unless SIGTERM cut the copying short; what was typed arrives in order.  *)
CopiesInOrder ==
  /\ IsPrefix(stdout, SlaveOut) /\ IsPrefix(ptyIn, Typed)
  /\ ppc \in {"stop", "exit"} /\ sigcaught = 0 => stdout = SlaveOut

(* Once both processes of pty have ended, whatever ended them, the user's  *)
(* terminal is as it was: the parent dies of a SIGTERM sent before its     *)
(* handler was there only if the child is on its way to exit, which resets *)
(* the terminal too.                                                       *)
TtyRestored == Ended => termios = "user"

(* Both processes end once the slave has: the parent at the end of file,   *)
(* and the child, which may sleep in a read of standard input for ever, by *)
(* the parent's SIGTERM or because it sent one itself.                     *)
BothEnd == slave = "done" ~> Ended
=============================================================================
