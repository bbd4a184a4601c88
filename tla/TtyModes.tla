------------------------------ MODULE TtyModes ------------------------------
(***************************************************************************)
(* The terminal mode routines of term-func.c.  A mode stands for a whole   *)
(* struct termios: "user" is what the user had, "raw" is what tty_raw      *)
(* makes of it.  The static data of the file (save_termios, ttystate and   *)
(* ttysavefd) belong to a process, and fork copies them.                   *)
(***************************************************************************)
EXTENDS Integers

VARIABLES
  termios,  \* the mode of the terminal
  tty       \* tty[p]: the static data of process p

NotSaved == [save |-> "none", state |-> "RESET", fd |-> -1]

(* tcgetattr into save_termios, and the raw mode made from it.             *)
tty_raw(p) ==
  /\ tty' = [tty EXCEPT ![p] = [save |-> termios, state |-> "RAW", fd |-> 0]]
  /\ termios' = "raw"

(* Mutant of tty_reset: it writes back the mode it finds.                  *)
tty_resetKeeps(p) ==
  /\ tty' = [tty EXCEPT ![p].state = "RESET"]
  /\ UNCHANGED termios
tty_reset(p) ==
  IF tty[p].state = "RAW"
  THEN termios' = tty[p].save /\ tty' = [tty EXCEPT ![p].state = "RESET"]
  ELSE UNCHANGED <<termios, tty>>

tty_atexit(p) ==
  IF tty[p].fd >= 0 THEN tty_reset(p) ELSE UNCHANGED <<termios, tty>>
=============================================================================
