------------------------------- MODULE Sleeps -------------------------------
(***************************************************************************)
(* The programs of AP_UNIX that wait for a signal or a time: the three     *)
(* versions of sleep, the two reads with a time limit, and the loop of     *)
(* sigsuspend-global.c.  A program is the sequence of its system calls; a  *)
(* signal may come between any two.  do-sleep2.c calls sleep with a        *)
(* handler for SIGINT that takes a while (sig_int).                        *)
(***************************************************************************)
EXTENDS Naturals, Sequences

CONSTANT MaxSig   \* bound: SIGINTs

(* sleep1-demo.c, sleep2-demo.c, read-time.c, read-demo.c.                 *)
sleep1    == <<"signal", "alarm", "pause", "cancel">>
sleep2    == <<"signal", "setjmp", "alarm", "pause", "cancel">>
read_time == <<"signal", "alarm", "read", "cancel", "write">>
read_demo == <<"signal", "setjmp", "alarm", "read", "cancel", "write">>

(* Mutants of sleep: SIGALRM is not blocked; the old action is back before *)
(* the signal comes.                                                       *)
sleepOpen  == <<"sigaction", "alarm", "sigsuspend", "cancel", "restore", "unblock">>
sleepEarly == <<"sigaction", "block", "alarm", "restore", "sigsuspend", "cancel", "unblock">>
(* my-sleep.c.                                                             *)
sleep == <<"sigaction", "block", "alarm", "sigsuspend", "cancel", "restore", "unblock">>

(* sigsuspend-global.c: SIGQUIT stands where the others have SIGALRM.      *)
quit_loop == <<"signal", "block", "loop", "unblock">>

Script == [sleep1 |-> sleep1, sleep2 |-> sleep2, read_time |-> read_time,
           read_demo |-> read_demo, sleep |-> sleep, quit_loop |-> quit_loop]
Progs == DOMAIN Script

(* The programs whose handler of SIGALRM calls longjmp.                    *)
Jumps == {"sleep2", "read_demo"}

VARIABLES
  wprog,    \* the program
  wat,      \* index of its next system call; past the last when it is done
  fired,    \* "off", "armed", "pending": the alarm, or SIGQUIT
  mask,     \* SIGALRM (SIGQUIT) is blocked
  action,   \* its disposition: "caller" or "ours"
  inint,    \* sig_int is running
  asleep,   \* it sleeps in pause, sigsuspend or read
  woken,    \* a signal has been caught meanwhile
  quitflag,
  typed,    \* a line is there to be read
  trace,    \* what has happened: a subset of {"int", "aborted", "stray", "timeout"}
  ints

sleepVars == <<wprog, wat, fired, mask, action, inint, asleep, woken, quitflag, typed, trace, ints>>

sleepsInit ==
  /\ wprog \in Progs /\ wat = 1 /\ fired = "off" /\ mask = FALSE /\ action = "caller"
  /\  inint = FALSE /\ asleep = FALSE /\ woken = FALSE /\ quitflag = 0 /\ typed = FALSE
  /\ trace = {} /\ ints = 0

Done == wat > Len(Script[wprog])
At(op) == ~Done /\ Script[wprog][wat] = op /\ ~inint
Next1 == wat' = wat + 1
Stop  == wat' = Len(Script[wprog]) + 1

-----------------------------------------------------------------------------
(* signal or sigaction, setjmp, sigprocmask, alarm(nsecs).                 *)
Setup ==
  \/ (At("signal") \/ At("sigaction")) /\ action' = "ours" /\ Next1
       /\ UNCHANGED <<fired, mask, woken, quitflag, trace>>
  \/ At("setjmp") /\ Next1
       /\ UNCHANGED <<fired, mask, action, woken, quitflag, trace>>
  \/ At("block") /\ mask' = TRUE /\ Next1
       /\ UNCHANGED <<fired, action, woken, quitflag, trace>>
  \/ At("alarm") /\ fired' = "armed" /\ Next1
       /\ UNCHANGED <<mask, action, woken, quitflag, trace>>

(* pause, sigsuspend and read go to sleep; sigsuspend lets the signal in.  *)
Sleep ==
  /\ At("pause") \/ At("sigsuspend") \/ At("read") \/ (At("loop") /\ quitflag = 0)
  /\ ~asleep /\ asleep' = TRUE
  /\ UNCHANGED <<wat, fired, mask, action, woken, quitflag, trace>>

(* pause and sigsuspend return once a handler has; read, with the line or, *)
(* interrupted, with err_sys; the loop ends when quitflag is set.          *)
Wakes ==
  /\ \/ (At("pause") \/ At("sigsuspend")) /\ asleep /\ woken /\ Next1 /\ UNCHANGED quitflag
     \/ At("read") /\ asleep /\ typed /\ Next1 /\ UNCHANGED quitflag
     \/ At("read") /\ asleep /\ woken /\ Stop /\ UNCHANGED quitflag
     \/ At("loop") /\ asleep /\ woken /\ UNCHANGED <<wat, quitflag>>
     \/ At("loop") /\ ~asleep /\ quitflag = 1 /\ quitflag' = 0 /\ Next1
  /\ asleep' = FALSE /\ woken' = FALSE
  /\ UNCHANGED <<fired, mask, action, trace>>

(* alarm(0) takes back an alarm that has not gone off; a signal that is    *)
(* there and not blocked is delivered before the call returns.             *)
Finish ==
  \/ At("cancel") /\ (fired = "pending" => mask) /\ fired' = (IF fired = "armed" THEN "off" ELSE fired) /\ Next1
       /\ UNCHANGED <<mask, action, woken, quitflag, trace>>
  \/ At("restore") /\ action' = "caller" /\ Next1
       /\ UNCHANGED <<fired, mask, woken, quitflag, trace>>
  \/ At("unblock") /\ mask' = FALSE /\ Next1
       /\ UNCHANGED <<fired, action, woken, quitflag, trace>>
  \/ At("write") /\ Next1
       /\ UNCHANGED <<fired, mask, action, woken, quitflag, trace>>

Program == \/ (Setup \/ Finish) /\ UNCHANGED <<wprog, inint, asleep, typed, ints>>
           \/ (Sleep \/ Wakes) /\ UNCHANGED <<wprog, inint, typed, ints>>

-----------------------------------------------------------------------------
(* The time is up, or the user types the quit character.                   *)
Fires ==
  /\ IF wprog = "quit_loop" THEN fired = "off" /\ action = "ours" ELSE fired = "armed"
  /\ fired' = "pending"
  /\ UNCHANGED <<wprog, wat, mask, action, inint, asleep, woken, quitflag, typed, trace, ints>>

(* SIGALRM (SIGQUIT) is delivered: sigsuspend lets it in.  A longjmp drops *)
(* a handler that was running; a program that has given its action back    *)
(* leaves the signal to the caller's.                                      *)
Deliver ==
  /\ fired = "pending"
  /\ ~mask \/ asleep
  /\ fired' = "off"
  /\ IF action = "caller"
     THEN trace' = trace \cup {"stray"} /\ woken' = (woken \/ asleep)
          /\ UNCHANGED <<wat, inint, asleep, quitflag>>
     ELSE IF wprog \in Jumps
     THEN /\ inint' = FALSE /\ asleep' = FALSE /\ woken' = FALSE /\ UNCHANGED quitflag
          /\ trace' = trace \cup (IF inint THEN {"aborted"} ELSE {})
                            \cup (IF wprog = "read_demo" THEN {"timeout"} ELSE {})
          /\ IF wprog = "read_demo" THEN Stop ELSE wat' = Len(Script[wprog])
     ELSE /\ woken' = (woken \/ asleep)
          /\ quitflag' = IF wprog = "quit_loop" THEN 1 ELSE quitflag
          /\ UNCHANGED <<wat, inint, asleep, trace>>
  /\ UNCHANGED <<wprog, mask, action, typed, ints>>

(* SIGINT interrupts the sleeping programs; its handler takes a while.     *)
sig_int ==
  \/ /\ wprog \in {"sleep1", "sleep2", "sleep", "quit_loop"} /\ ~Done /\ ~inint /\ ints < MaxSig
     /\ inint' = TRUE /\ ints' = ints + 1
     /\ woken' = (woken \/ asleep)
     /\ trace' = IF asleep THEN trace \cup {"int"} ELSE trace
     /\ UNCHANGED <<wprog, wat, fired, mask, action, asleep, quitflag, typed>>
  \/ /\ inint /\ inint' = FALSE
     /\ UNCHANGED <<wprog, wat, fired, mask, action, asleep, woken, quitflag, typed, trace, ints>>

Types ==
  /\ ~typed /\ typed' = TRUE
  /\ wprog \in {"read_time", "read_demo"}
  /\ UNCHANGED <<wprog, wat, fired, mask, action, inint, asleep, woken, quitflag, trace, ints>>

sleepsNext == Program \/ Fires \/ Deliver \/ sig_int \/ Types

(* What happens in the end: an alarm that is set goes off, sig_int returns.*)
TimePasses == fired = "armed" /\ Fires
IntReturns == inint /\ sig_int

-----------------------------------------------------------------------------
(* The sleeps and the read that are meant to be free of the race between   *)
(* alarm and pause return when their time is up, and the loop when SIGQUIT *)
(* has come, wherever the signal falls and whatever else is caught.        *)
(* sleep1 and read_time may sleep on, as their handler only returns.       *)
TimeUp == wprog \notin {"sleep1", "read_time"} /\ fired = "pending" ~> Done

(* Only longjmp drops a handler of the caller's: sleep lets it finish.     *)
HandlersFinish == "aborted" \in trace => wprog = "sleep2"

(* The alarm of sleep reaches the caller's action for SIGALRM only when    *)
(* another signal has ended the sleep first.                               *)
AlarmKept == "stray" \in trace => "int" \in trace
=============================================================================
