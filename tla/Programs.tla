------------------------------ MODULE Programs ------------------------------
(***************************************************************************)
(* The smaller programs of AP_UNIX in one model.  They do not interact     *)
(* with each other: chosen says which of them a behaviour is about, the    *)
(* variables of the others keep their initial values, and every property   *)
(* holds of the whole exactly when it holds of the program it is about.    *)
(*                                                                         *)
(* Variables keep the names they have in their modules, except where two   *)
(* modules use the same one.                                               *)
(***************************************************************************)
EXTENDS IpcDev, DaemonLock, Lprps, Integers, Sequences, FiniteSets

CONSTANTS
  Chars,                                            \* SyncDemos
  MBSIZE, MaxSeen,                                  \* PsInput
  MAXLINE, Good, Bad, ErrCodes, MaxOpens,           \* FdPass
  Clients, Names, Openable, NALLOC, MaxAsks,        \* OpenServer
  SlaveOut, Typed, BUFFSIZE, Ptys,                  \* Pty
  Keys, Bodies, MaxKeys, MaxNoise,                  \* Session
  Expsends, Phones, Heard, MaxHeard,                \* DialChat
  MaxPopen, MaxIntr, MaxSig                         \* Popen, System, Sleeps

(* Bounds are numbers, texts are sequences.                                *)
Elements(s) == {s[j] : j \in DOMAIN s}
ASSUME ProcessAssumption == MaxPopen \in Nat
ASSUME PtyAssumption ==
  SlaveOut \in Seq(Elements(SlaveOut)) /\ Typed \in Seq(Elements(Typed))
ASSUME FdAssumption ==
  /\ MAXLINE \in Nat \ {0} /\ ErrCodes \subseteq Int
  /\ Good \cap Bad = {}
ASSUME ChatAssumption == \A e \in Expsends : e \in Seq(Seq(STRING)) /\ e # << >>
ASSUME OpenAssumption == IsFiniteSet(Clients) /\ NALLOC \in Nat \ {0}

VARIABLES
  chosen,
  demo, dpc, dsigflag, dpending, dblocked, dat, owner, dasks, out,
  parse_state, msgbuf, found, mail, seen,
  cli, srv, request, wire, rights, name, err, shown, answer, opens,
  mux, spc, client, maxi, allset, rset, scan, backlog, fdOf, cpc, toServ, toCli, asks, got,
  termios, tty, opts, devs, ppc, kpc, slave, stdin, ineof, ptyIn, ptyOut, left, pbuff,
  kbuff, stdout, handler, sigterm, sigcaught,
  stermios, stty, st, bol, bol0, typed, sent, remote, hup, noise, buf, fpout, body, clean, revents,
  cdpc, dialer, expsend, phone, word, stack, inbuf, read, caught_alrm, alarmed, modem, heard,
  written, result,
  childpid, stream, type, kid, ends, waits, waitfor,
  build, own, reaps, ypc, disp, chld, yblocked, kidst, kiddisp, how, ystatus, hit, intrs,
  wprog, wat, fired, mask, action, inint, asleep, woken, quitflag, wtyped, trace, wints

D == INSTANCE SyncDemos WITH prog <- demo, pc <- dpc, sigflag <- dsigflag, pending <- dpending,
                             blocked <- dblocked, at <- dat, asks <- dasks
P == INSTANCE PsInput
F == INSTANCE FdPass
O == INSTANCE OpenServer
Y == INSTANCE Pty
S == INSTANCE Session WITH termios <- stermios, tty <- stty
C == INSTANCE DialChat WITH dpc <- cdpc
N == INSTANCE Popen
Z == INSTANCE System WITH blocked <- yblocked, status <- ystatus
W == INSTANCE Sleeps WITH ints <- wints, typed <- wtyped

Programs == {"ipc_dev", "demo", "daemon", "lprps", "input", "open", "opend", "pty", "call",
             "dial", "popen", "system", "sleep"}

demoVars  == <<demo, dpc, dsigflag, dpending, dblocked, dat, owner, dasks, out>>
callVars  == <<stermios, stty, st, bol, bol0, typed, sent, remote, hup, noise, buf, fpout, body,
               clean, revents>>
dialVars  == <<cdpc, dialer, expsend, phone, word, stack, inbuf, read, caught_alrm, alarmed, modem,
               heard, written, result>>
systemVars == <<build, own, reaps, ypc, disp, chld, yblocked, kidst, kiddisp, how, ystatus, hit,
                intrs>>
sleepVars == <<wprog, wat, fired, mask, action, inint, asleep, woken, quitflag, wtyped, trace,
               wints>>
inputVars == <<parse_state, msgbuf, found, mail, seen>>
openVars  == <<cli, srv, request, wire, rights, name, err, shown, answer, opens>>
opendVars == <<mux, spc, client, maxi, allset, rset, scan, backlog, fdOf, cpc, toServ, toCli, asks,
               got>>
ptyVars   == <<termios, tty, opts, devs, ppc, kpc, slave, stdin, ineof, ptyIn, ptyOut, left, pbuff,
               kbuff, stdout, handler, sigterm, sigcaught>>
popenVars == <<childpid, stream, type, kid, ends, waits, waitfor>>
allVars == <<chosen, vars, demoVars, lockVars, lprpsVars, inputVars, openVars, opendVars, ptyVars,
             callVars, dialVars, popenVars, systemVars, sleepVars>>

(* The rest of a step of program x: the other programs stand still.        *)
Rest(x) ==
  /\ UNCHANGED chosen
  /\ x # "ipc_dev" => UNCHANGED vars
  /\ x # "demo"    => UNCHANGED demoVars
  /\ x # "daemon"  => UNCHANGED lockVars
  /\ x # "lprps"   => UNCHANGED lprpsVars
  /\ x # "input"   => UNCHANGED inputVars
  /\ x # "open"    => UNCHANGED openVars
  /\ x # "opend"   => UNCHANGED opendVars
  /\ x # "pty"     => UNCHANGED ptyVars
  /\ x # "call"    => UNCHANGED callVars
  /\ x # "dial"    => UNCHANGED dialVars
  /\ x # "popen"   => UNCHANGED popenVars
  /\ x # "system"  => UNCHANGED systemVars
  /\ x # "sleep"   => UNCHANGED sleepVars

(* Programs that start in one of several ways do so only when chosen.      *)
ProgInit ==
  /\ chosen \in Programs
  /\ Init /\ lockInit /\ D!Init /\ lprpsInit /\ P!psInit /\ F!fdInit /\ O!osInit /\ Y!ptyInit
  /\ S!sesInit /\ C!chatInit /\ N!popenInit /\ Z!sysInit /\ W!sleepsInit
  /\ chosen # "demo"   => demo = "race"
  /\ chosen # "opend"  => mux = "select"
  /\ chosen # "pty"    => /\ opts = [interactive |-> FALSE, ignoreeof |-> FALSE, driver |-> FALSE]
                          /\ devs = CHOOSE d \in Ptys : TRUE
  /\ chosen # "call"   => bol0 = 0
  /\ chosen # "dial"   => /\ dialer = "direct" /\ expsend = CHOOSE e \in Expsends : TRUE
                          /\ phone = CHOOSE p \in Phones : TRUE
  /\ chosen # "system" => build = "plain" /\ own = "dfl" /\ ~reaps
  /\ chosen # "sleep"  => wprog = "sleep1"

ProgNext ==
  \/ chosen = "ipc_dev" /\ (\E p \in Procs : Step(p))   /\ Rest("ipc_dev")
  \/ chosen = "demo"    /\ (\E p \in Procs : D!Step(p)) /\ Rest("demo")
  \/ chosen = "daemon"  /\ lockNext     /\ Rest("daemon")
  \/ chosen = "lprps"   /\ lprpsNext  /\ Rest("lprps")
  \/ chosen = "input"   /\ P!psNext     /\ Rest("input")
  \/ chosen = "open"    /\ F!fdNext     /\ Rest("open")
  \/ chosen = "opend"   /\ O!osNext     /\ Rest("opend")
  \/ chosen = "pty"     /\ Y!ptyNext    /\ Rest("pty")
  \/ chosen = "call"    /\ S!sesNext    /\ Rest("call")
  \/ chosen = "dial"    /\ C!chatNext   /\ Rest("dial")
  \/ chosen = "popen"   /\ N!popenNext  /\ Rest("popen")
  \/ chosen = "system"  /\ Z!sysNext    /\ Rest("system")
  \/ chosen = "sleep"   /\ W!sleepsNext /\ Rest("sleep")

(* The fairness of the modules: the kernel schedules the processes of the  *)
(* chosen program, delivers its signals and lets its time pass.            *)
DemoFair  == \A p \in Procs : WF_demoVars(chosen = "demo" /\ D!Step(p) /\ Rest("demo"))
OpendFair == /\ WF_opendVars(chosen = "opend" /\ O!Daemon /\ Rest("opend"))
             /\ \A c \in Clients : WF_opendVars(chosen = "opend" /\ O!Goes(c) /\ Rest("opend"))
PtyFair   == /\ WF_ptyVars(chosen = "pty" /\ Y!ParentStep /\ Rest("pty"))
             /\ WF_ptyVars(chosen = "pty" /\ Y!CopyInStep /\ Rest("pty"))
             /\ WF_ptyVars(chosen = "pty" /\ Y!sig_term /\ Rest("pty"))
             /\ WF_ptyVars(chosen = "pty" /\ Y!Slave /\ Rest("pty"))
PopenFair == /\ WF_popenVars(chosen = "popen" /\ N!PcloseReturns /\ Rest("popen"))
             /\ \A k \in 1..MaxPopen : WF_popenVars(chosen = "popen" /\ N!Child(k) /\ Rest("popen"))
SleepFair == /\ WF_sleepVars(chosen = "sleep" /\ W!Program /\ Rest("sleep"))
             /\ WF_sleepVars(chosen = "sleep" /\ W!TimePasses /\ Rest("sleep"))
             /\ WF_sleepVars(chosen = "sleep" /\ W!Deliver /\ Rest("sleep"))
             /\ WF_sleepVars(chosen = "sleep" /\ W!IntReturns /\ Rest("sleep"))

ProgSpec == /\ ProgInit /\ [][ProgNext]_allVars
            /\ DemoFair /\ OpendFair /\ PtyFair /\ PopenFair /\ SleepFair

-----------------------------------------------------------------------------
(* The programs on TELL and WAIT: the parent of race-fork writes its whole *)
(* line first, the deadlock of deadlock-demo is met and broken for exactly *)
(* one process, and the child of chk-lck tries the lock while the parent   *)
(* holds it.                                                               *)
DemosAgree == D!ParentFirst /\ D!OneRefused /\ D!LockSeen

(* They end: no signal is lost and nobody sleeps for ever.                 *)
Terminated == chosen = "demo" ~> \A p \in Procs : D!Ended(p)

(* lprps: the states of proc_input_char find the printer's messages, and   *)
(* the rest of the input is mailed; msgbuf and the zero byte behind it     *)
(* stay inside the buffer.                                                 *)
ParsesRight == P!ParsesRight /\ P!MsgFits

(* send_fd, send_err and recv_fd: csopen returns the descriptor it asked   *)
(* for, or an error with its whole text and nothing of the protocol, and   *)
(* leaves nothing for the next call; "message format error" is met only    *)
(* for a text that ends one byte before the buffer.                        *)
AnswerRight == F!AnswerRight /\ F!TextWhole /\ F!DumpsOnlyAtEdge

(* opend: every client reads the answers to its own requests, in order,    *)
(* also when descriptors and entries are used again; client[], the watched *)
(* set and the open connections agree, and client[] does not grow beyond   *)
(* the clients connected at once.                                          *)
ClientsServed == O!AnswersInOrder /\ O!TableAgrees /\ O!TableBounded

(* opend: a client that waits for its answer gets it.                      *)
Answered == O!Answered

(* pty: both directions are copied in order, and the output completely.    *)
CopiesInOrder == Y!CopiesInOrder

(* pty: both processes end once the program on the slave has.              *)
BothEnd == Y!BothEnd

(* pty and call: the user's terminal is as it was once the processes have  *)
(* ended, whatever ended them, and in call raw exactly while the line or a *)
(* file is copied (tty_raw, tty_reset, tty_atexit).                        *)
TerminalRight == Y!TtyRestored /\ S!ModeRight

(* call: the remote host is sent exactly the keys that are meant for it,   *)
(* where a key above 127 after an escape ends the session and a NUL there  *)
(* is dropped; take leaves the remote file in the local one, without       *)
(* returns and eighth bits and up to the first CTRLA.                      *)
KeysSent == S!KeysSent /\ S!TakeExact

(* calld's child: expect_str goes on at the first place where what it has  *)
(* read ends in the expected string, also when beginnings of it overlap.   *)
ExpectFound == C!ExpectFound

(* calld's child: the modem is sent the characters of the conversation,    *)
(* each once and in order, and all of them before the client gets the      *)
(* line.                                                                   *)
SaysAll == C!SaysAll

(* popen: pclose returns, as no later child keeps the caller's end of the  *)
(* pipe open.                                                              *)
PcloseEnds == N!PcloseEnds

(* pclose and system wait for the child of their own call: pclose also on  *)
(* a descriptor whose earlier stream was closed with fclose, system also   *)
(* when the caller's SIGCHLD handler waits too; SIGINT belongs to system's *)
(* command alone, and the caller finds its own disposition and mask again. *)
StatusRight == N!OwnChild /\ Z!StatusRight /\ Z!SignalsApart

(* sleep, sleep2, read with setjmp, the sigsuspend loop: they end when the *)
(* time is up, wherever the signal falls.                                  *)
TimeUp == W!TimeUp

(* sleep: its alarm reaches the caller's action only when another signal   *)
(* has ended the sleep first, and a handler of the caller's is never       *)
(* abandoned.                                                              *)
AlarmKept == W!AlarmKept /\ W!HandlersFinish
=============================================================================
