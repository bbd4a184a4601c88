---------------------------- MODULE ProcessProofs -----------------------------
(***************************************************************************)
(* Processes and signals, for every caller, every number of streams and any*)
(* signals: pclose and system return the status of their own child, SIGINT *)
(* belongs to the command of system alone, and the alarm of sleep is kept  *)
(* from the caller.  SysInv ties the statements of system to the signal    *)
(* state and the child, PopenInv the entries of childpid to the children,  *)
(* SleepInv the calls of sleep to the alarm.                               *)
(***************************************************************************)
EXTENDS Programs, FiniteSetTheorems, TLAPS

(* Steps of the other programs leave the variables of system alone.        *)
LEMMA SystemSteps == [ProgNext]_allVars => Z!sysNext \/ UNCHANGED systemVars
BY DEF ProgNext, Rest, allVars

SysType ==
  /\ build \in {"plain", "signals"} /\ own \in {"dfl", "catch"} /\ reaps \in BOOLEAN
  /\ ypc \in {"ignore", "block", "fork", "waitpid", "restore", "unblock", "return", "dead"}
  /\ disp \in {"dfl", "catch", "ign"} /\ chld \in {"none", "pending"}
  /\ yblocked \in BOOLEAN /\ hit \in BOOLEAN
  /\ kidst \in {"none", "forked", "runs", "zombie", "reaped"}
  /\ kiddisp \in {"dfl", "catch", "ign"}
  /\ how \in {"none", "exit", "intr"} /\ ystatus \in {"none", "exit", "intr", "-1"}

(* The command has ended exactly when the child is no longer there to run. *)
SysKid ==
  /\ ypc \in {"ignore", "block", "fork"} => kidst = "none"
  /\ ypc = "waitpid" => kidst # "none"
  /\ kidst \in {"zombie", "reaped"} <=> how # "none"
  /\ ypc \in {"restore", "unblock", "return"} /\ how # "none" => kidst = "reaped"
  /\ ypc \in {"restore", "unblock", "return"} => kidst \in {"none", "reaped"}
  /\ kidst = "runs" => kiddisp = "dfl"
  /\ build = "plain" => kiddisp # "ign"

(* ystem.c: SIGCHLD is blocked and SIGINT ignored from before fork until   *)
(* after waitpid, so that only waitpid reaps the child.                    *)
SysSignals ==
  /\ build = "signals" /\ ypc = "block" => disp = "ign"
  /\ build = "signals" /\ ypc \in {"fork", "waitpid", "restore"} => disp = "ign" /\ yblocked
  /\ build = "plain" => disp = own /\ ~yblocked /\ ypc \notin {"ignore", "block"}
  /\ ypc \in {"unblock", "return"} => disp = own
  /\ ypc = "return" => ~yblocked
  /\ build = "signals" => ~hit
  /\ (build = "signals" \/ ~reaps) /\ ypc = "waitpid" => kidst # "reaped"
  /\ (build = "signals" \/ ~reaps) /\ ypc \in {"restore", "unblock", "return"} /\ how # "none" => ystatus = how
SysInv == SysType /\ SysKid /\ SysSignals

LEMMA SysInitInv == Z!sysInit => SysInv
BY DEF Z!sysInit, SysInv, SysType, SysKid, SysSignals

LEMMA SysNextInv == ASSUME SysInv, Z!sysNext PROVE SysInv'
<1> USE DEF SysInv, SysType, SysKid, SysSignals, Z!chosenBy, Z!command
<1>1. CASE Z!Ignore BY <1>1 DEF Z!Ignore
<1>2. CASE Z!Block BY <1>2 DEF Z!Block
<1>3. CASE Z!Fork BY <1>3 DEF Z!Fork
<1>4. CASE Z!Waitpid BY <1>4 DEF Z!Waitpid
<1>5. CASE Z!Restore BY <1>5 DEF Z!Restore
<1>6. CASE Z!Unblock BY <1>6 DEF Z!Unblock
<1>7. CASE Z!ChildRuns BY <1>7 DEF Z!ChildRuns, Z!ChildDisp
<1>8. CASE Z!CommandEnds BY <1>8 DEF Z!CommandEnds
<1>9. CASE Z!sig_chld BY <1>9 DEF Z!sig_chld
<1>10. CASE Z!Interrupt BY <1>10 DEF Z!Interrupt
<1>11. QED
  BY <1>1, <1>2, <1>3, <1>4, <1>5, <1>6, <1>7, <1>8, <1>9, <1>10 DEF Z!sysNext, Z!sysStep

LEMMA SysAlways == ProgSpec => []SysInv
<1>1. ProgInit => SysInv
  BY SysInitInv DEF ProgInit
<1>2. SysInv /\ [ProgNext]_allVars => SysInv'
  <2> SUFFICES ASSUME SysInv, [ProgNext]_allVars PROVE SysInv'
    OBVIOUS
  <2>1. CASE Z!sysNext BY <2>1, SysNextInv
  <2>2. CASE UNCHANGED systemVars
    BY <2>2 DEF systemVars, SysInv, SysType, SysKid, SysSignals
  <2>3. QED BY <2>1, <2>2, SystemSteps
<1>3. QED
  BY <1>1, <1>2, PTL DEF ProgSpec

LEMMA SysProps == SysInv => Z!StatusRight /\ Z!SignalsApart
BY DEF SysInv, SysType, SysKid, SysSignals, Z!StatusRight, Z!SignalsApart

-----------------------------------------------------------------------------
LEMMA PopenSteps == [ProgNext]_allVars => N!popenNext \/ UNCHANGED popenVars
BY DEF ProgNext, Rest, allVars

Pids0 == 0..MaxPopen
PopenType ==
  /\ childpid \in [N!Fds -> Pids0] /\ stream \in [N!Fds -> Pids0]
  /\ type \in [N!Calls -> {"none", "r", "w"}]
  /\ kid \in [N!Calls -> {"none", "forked", "runs", "zombie", "reaped"}]
  /\ waits \in Pids0 /\ waitfor \in Pids0

(* Calls are numbered in order.                                            *)
CallsMade == \E m \in Pids0 : \A c \in N!Calls : type[c] # "none" <=> c <= m

(* An open stream is the one childpid[] remembers, its child has not been  *)
(* waited for, and no other descriptor is the same pipe end.               *)
StreamsOwn ==
  /\ \A fd \in N!Fds : stream[fd] # 0 =>
       /\ childpid[fd] = stream[fd]
       /\ type[stream[fd]] # "none" /\ kid[stream[fd]] # "reaped"
  /\ \A fd, gd \in N!Fds : stream[fd] = stream[gd] /\ stream[fd] # 0 => fd = gd

WaitOwn ==
  waits # 0 => /\ waitfor = waits /\ type[waits] # "none" /\ kid[waits] # "reaped"
               /\ \A fd \in N!Fds : stream[fd] # waits
PopenInv == PopenType /\ CallsMade /\ StreamsOwn /\ WaitOwn

LEMMA PopenInitInv == N!popenInit => PopenInv
<1> SUFFICES ASSUME N!popenInit PROVE PopenInv
  OBVIOUS
<1> USE ProcessAssumption DEF N!popenInit, N!Fds, N!Calls, Pids0
<1>1. PopenType BY DEF PopenType
<1>2. CallsMade
  <2>1. \A c \in N!Calls : type[c] # "none" <=> c <= 0 OBVIOUS
  <2>2. QED BY <2>1 DEF CallsMade
<1>3. StreamsOwn /\ WaitOwn BY DEF StreamsOwn, WaitOwn
<1>4. QED BY <1>1, <1>2, <1>3 DEF PopenInv

(* Cardinality as Popen takes it from its own copy of FiniteSets.          *)
LEMMA PopenCard == ASSUME NEW T PROVE N!Cardinality(T) = Cardinality(T)
<1>1. N!IsFiniteSet(T) <=> IsFiniteSet(T)
  BY DEF N!IsFiniteSet, IsFiniteSet
<1>2. QED
  BY <1>1 DEF N!Cardinality, Cardinality

NewCall == N!Cardinality({c \in N!Calls : type[c] # "none"}) + 1

LEMMA NextCall ==
  ASSUME PopenInv
  PROVE  /\ NewCall \in Nat
         /\ NewCall <= MaxPopen =>
              NewCall \in N!Calls /\ \A c \in N!Calls : type[c] # "none" <=> c < NewCall
<1>1. PICK m \in Pids0 : \A c \in N!Calls : type[c] # "none" <=> c <= m
  BY DEF PopenInv, CallsMade
<1>2. {c \in N!Calls : type[c] # "none"} = 1..m
  BY <1>1, ProcessAssumption DEF N!Calls, Pids0
<1>3. Cardinality(1..m) = m
  BY FS_Interval, ProcessAssumption DEF Pids0
<1>4. NewCall = m + 1
  BY <1>2, <1>3, PopenCard DEF NewCall
<1>5. m \in Nat BY DEF Pids0
<1>6. QED
  BY <1>1, <1>4, <1>5, ProcessAssumption DEF N!Calls, Pids0

LEMMA PopenStep == ASSUME PopenInv, NEW t \in {"r", "w"}, N!popen(t) PROVE PopenInv'
<1> DEFINE k  == NewCall
           free == {f \in N!Fds : stream[f] = 0}
           fd == IF t = "r" THEN N!Min(free) ELSE N!Min(free \ {N!Min(free)})
<1>1. /\ waits = 0 /\ k <= MaxPopen
      /\ type' = [type EXCEPT ![k] = t]
      /\ kid' = [kid EXCEPT ![k] = "forked"]
      /\ stream' = [stream EXCEPT ![fd] = k]
      /\ childpid' = [childpid EXCEPT ![fd] = k]
      /\ UNCHANGED <<waits, waitfor>>
  BY DEF N!popen, N!Remember, NewCall
<1>2. k \in N!Calls /\ \A c \in N!Calls : type[c] # "none" <=> c < k
  BY <1>1, NextCall
<1>0. k \in Pids0 /\ k # 0 BY <1>2, ProcessAssumption DEF N!Calls, Pids0
<1> HIDE DEF k, fd
<1>3. PopenType'
  BY <1>1, <1>2, <1>0 DEF PopenInv, PopenType
<1>4. CallsMade'
  <2>1. \A c \in N!Calls : type'[c] # "none" <=> c <= k
    BY <1>1, <1>2, ProcessAssumption DEF PopenInv, PopenType, N!Calls
  <2>2. QED BY <1>0, <2>1 DEF CallsMade
<1>5. \A f \in N!Fds : stream[f] # k
  BY <1>2, ProcessAssumption DEF PopenInv, StreamsOwn, PopenType, N!Calls, Pids0
<1>6. StreamsOwn'
  BY <1>1, <1>2, <1>5, ProcessAssumption DEF PopenInv, StreamsOwn, PopenType, N!Calls, Pids0
<1>7. WaitOwn'
  BY <1>1 DEF WaitOwn
<1>8. QED BY <1>3, <1>4, <1>6, <1>7 DEF PopenInv

LEMMA PcloseReturnsStep == ASSUME PopenInv, N!PcloseReturns PROVE PopenInv'
<1>1. /\ waits # 0 /\ waitfor = waits /\ kid[waits] = "zombie" /\ waits \in N!Calls
      /\ kid' = [kid EXCEPT ![waits] = "reaped"] /\ waits' = 0 /\ waitfor' = 0
      /\ UNCHANGED <<childpid, stream, type>>
  BY ProcessAssumption DEF N!PcloseReturns, PopenInv, PopenType, WaitOwn, N!Calls, Pids0
<1>2. PopenType'
  BY <1>1, ProcessAssumption DEF PopenInv, PopenType, Pids0
<1>3. CallsMade' /\ WaitOwn'
  BY <1>1 DEF PopenInv, CallsMade, WaitOwn
<1>4. \A fd \in N!Fds : stream[fd] # 0 => stream[fd] \in N!Calls /\ stream[fd] # waits
  BY <1>1, ProcessAssumption DEF PopenInv, PopenType, WaitOwn, N!Calls, Pids0
<1>5. StreamsOwn'
  BY <1>1, <1>4 DEF PopenInv, PopenType, StreamsOwn
<1>6. QED BY <1>2, <1>3, <1>5 DEF PopenInv

LEMMA ChildStep == ASSUME PopenInv, NEW k \in N!Calls, N!Child(k) PROVE PopenInv'
<1>1. /\ kid[k] \in {"forked", "runs"}
      /\ kid' = [kid EXCEPT ![k] = "runs"] \/ kid' = [kid EXCEPT ![k] = "zombie"]
      /\ UNCHANGED <<childpid, stream, type, waits, waitfor>>
  BY DEF N!Child, N!ChildRuns, N!ExecFails, N!CommandEnds
<1>2. \A j \in N!Calls : kid'[j] = "reaped" => kid[j] = "reaped"
  BY <1>1 DEF PopenInv, PopenType
<1>3. PopenType'
  BY <1>1 DEF PopenInv, PopenType
<1>4. \A fd \in N!Fds : stream[fd] # 0 => stream[fd] \in N!Calls
  BY ProcessAssumption DEF PopenInv, PopenType, N!Calls, Pids0
<1>5. waits # 0 => waits \in N!Calls
  BY ProcessAssumption DEF PopenInv, PopenType, N!Calls, Pids0
<1>6. StreamsOwn'
  BY <1>1, <1>2, <1>4 DEF PopenInv, StreamsOwn
<1>7. CallsMade' /\ WaitOwn'
  BY <1>1, <1>2, <1>5 DEF PopenInv, CallsMade, WaitOwn
<1>8. QED BY <1>3, <1>6, <1>7 DEF PopenInv

LEMMA PopenNextInv == ASSUME PopenInv, N!popenNext PROVE PopenInv'
<1> USE ProcessAssumption
<1>1. ASSUME NEW t \in {"r", "w"}, N!popen(t) PROVE PopenInv'
  BY <1>1, PopenStep
<1>2. ASSUME NEW fd \in N!Fds, N!pclose(fd) PROVE PopenInv'
  BY <1>2 DEF N!pclose, PopenInv, PopenType, CallsMade, StreamsOwn, WaitOwn, N!Calls, Pids0
<1>3. ASSUME NEW fd \in N!Fds, N!fclose(fd) PROVE PopenInv'
  BY <1>3 DEF N!fclose, PopenInv, PopenType, CallsMade, StreamsOwn, WaitOwn, N!Calls, Pids0
<1>4. CASE N!PcloseReturns
  BY <1>4, PcloseReturnsStep
<1>5. ASSUME NEW k \in N!Calls, N!Child(k) PROVE PopenInv'
  BY <1>5, ChildStep
<1>6. QED
  BY <1>1, <1>2, <1>3, <1>4, <1>5 DEF N!popenNext

LEMMA PopenAlways == ProgSpec => []PopenInv
<1>1. ProgInit => PopenInv
  BY PopenInitInv DEF ProgInit
<1>2. PopenInv /\ [ProgNext]_allVars => PopenInv'
  <2> SUFFICES ASSUME PopenInv, [ProgNext]_allVars PROVE PopenInv'
    OBVIOUS
  <2>1. CASE N!popenNext BY <2>1, PopenNextInv
  <2>2. CASE UNCHANGED popenVars
    BY <2>2 DEF popenVars, PopenInv, PopenType, CallsMade, StreamsOwn, WaitOwn
  <2>3. QED BY <2>1, <2>2, PopenSteps
<1>3. QED
  BY <1>1, <1>2, PTL DEF ProgSpec

LEMMA PopenProps == PopenInv => N!OwnChild
BY DEF PopenInv, WaitOwn, N!OwnChild

(* pclose and system wait for the child of their own call, also when a     *)
(* descriptor was used before or a SIGCHLD handler waits too; SIGINT is    *)
(* the command's alone, and the caller finds its signal state again.       *)
THEOREM StatusTheorem == ProgSpec => []StatusRight
<1>1. SysInv /\ PopenInv => StatusRight
  BY SysProps, PopenProps DEF StatusRight
<1>2. QED
  BY <1>1, SysAlways, PopenAlways, PTL

-----------------------------------------------------------------------------
LEMMA SleepSteps == [ProgNext]_allVars => W!sleepsNext \/ UNCHANGED sleepVars
BY DEF ProgNext, Rest, allVars

SleepType ==
  /\ wprog \in W!Progs /\ wat \in Nat /\ wat >= 1
  /\ fired \in {"off", "armed", "pending"} /\ action \in {"caller", "ours"}
SleepBool == inint \in BOOLEAN /\ asleep \in BOOLEAN /\ woken \in BOOLEAN

(* The programs other than sleep take the signal once and keep it: none is *)
(* under way before their handler is there.                                *)
Keeps ==
  wprog # "sleep" => /\ action = "caller" <=> wat = 1
                     /\ wat = 1 => fired = "off"

(* sleep gives the caller's action back in its sixth call; from the return *)
(* of sigsuspend on, its alarm is still under way only if another signal   *)
(* was caught in sigsuspend.                                               *)
GivesBack ==
  wprog = "sleep" =>
    /\ action = "ours" <=> wat \in 2..6
    /\ wat <= 3 => fired = "off"
    /\ woken => asleep
    /\ asleep => wat = 4
    /\ (wat > 4 \/ woken) => fired = "off" \/ "int" \in trace
SleepInv ==
  /\ SleepType /\ SleepBool /\ Keeps /\ GivesBack
  /\ inint => wprog # "read_demo"
  /\ W!AlarmKept /\ W!HandlersFinish

LEMMA SleepInitInv == W!sleepsInit => SleepInv
<1> SUFFICES ASSUME W!sleepsInit PROVE SleepInv
  OBVIOUS
<1>1. SleepType /\ Keeps BY DEF W!sleepsInit, SleepType, Keeps
<1>2. GivesBack BY DEF W!sleepsInit, GivesBack
<1>3. SleepBool BY DEF W!sleepsInit, SleepBool
<1>4. QED
  BY <1>1, <1>2, <1>3 DEF W!sleepsInit, SleepInv, W!AlarmKept, W!HandlersFinish

(* What the proof needs to know of the scripts.                            *)
LEMMA SleepScript ==
  ASSUME SleepType, wprog = "sleep"
  PROVE  /\ Len(W!Script[wprog]) = 7
         /\ W!At("sigaction") => wat = 1 
         /\ W!At("block") => wat = 2
         /\ W!At("alarm") => wat = 3 
         /\ W!At("sigsuspend") => wat = 4
         /\ W!At("cancel") => wat = 5
         /\ W!At("restore") => wat = 6
         /\ W!At("unblock") => wat = 7
         /\ ~W!At("signal") /\ ~W!At("setjmp") /\ ~W!At("pause") /\ ~W!At("read")
         /\ ~W!At("loop") /\ ~W!At("write")
<1>1. W!Script[wprog] = <<"sigaction", "block", "alarm", "sigsuspend", "cancel", "restore", "unblock">>
  BY DEF W!Script, W!sleep
<1>2. wat \in Nat /\ wat >= 1 BY DEF SleepType
<1>3. QED
  BY <1>1, <1>2 DEF W!At, W!Done

LEMMA OtherScripts ==
  ASSUME SleepType, wprog # "sleep"
  PROVE  /\ Len(W!Script[wprog]) \in Nat /\ Len(W!Script[wprog]) > 1
         /\ ~W!At("restore") /\ ~W!At("sigaction")
         /\ W!At("signal") => wat = 1
         /\ wat = 1 => ~W!At("setjmp") /\ ~W!At("block") /\ ~W!At("alarm") /\ ~W!At("pause")
                       /\ ~W!At("sigsuspend") /\ ~W!At("read") /\ ~W!At("loop")
                       /\ ~W!At("cancel") /\ ~W!At("unblock") /\ ~W!At("write")
<1>1. wprog \in {"sleep1", "sleep2", "read_time", "read_demo", "quit_loop"}
  BY DEF SleepType, W!Progs, W!Script
<1>2. wat \in Nat /\ wat >= 1 BY DEF SleepType
<1>3. CASE wprog = "sleep1"
  <2>1. W!Script[wprog] = <<"signal", "alarm", "pause", "cancel">>
    BY <1>3 DEF W!Script, W!sleep1
  <2>2. QED BY <2>1, <1>2 DEF W!At, W!Done
<1>4. CASE wprog = "sleep2"
  <2>1. W!Script[wprog] = <<"signal", "setjmp", "alarm", "pause", "cancel">>
    BY <1>4 DEF W!Script, W!sleep2
  <2>2. QED BY <2>1, <1>2 DEF W!At, W!Done
<1>5. CASE wprog = "read_time"
  <2>1. W!Script[wprog] = <<"signal", "alarm", "read", "cancel", "write">>
    BY <1>5 DEF W!Script, W!read_time
  <2>2. QED BY <2>1, <1>2 DEF W!At, W!Done
<1>6. CASE wprog = "read_demo"
  <2>1. W!Script[wprog] = <<"signal", "setjmp", "alarm", "read", "cancel", "write">>
    BY <1>6 DEF W!Script, W!read_demo
  <2>2. QED BY <2>1, <1>2 DEF W!At, W!Done
<1>7. CASE wprog = "quit_loop"
  <2>1. W!Script[wprog] = <<"signal", "block", "loop", "unblock">>
    BY <1>7 DEF W!Script, W!quit_loop
  <2>2. QED BY <2>1, <1>2 DEF W!At, W!Done
<1>8. QED BY <1>1, <1>3, <1>4, <1>5, <1>6, <1>7

LEMMA ProgramStep == ASSUME SleepInv, W!Program PROVE SleepInv'
<1> USE DEF SleepInv
<1>0. SleepType OBVIOUS
<1>1. UNCHANGED <<wprog, inint, trace>>
  BY DEF W!Program, W!Setup, W!Finish, W!Sleep, W!Wakes
<1>2. SleepType'
  <2>1. Len(W!Script[wprog]) \in Nat
    BY <1>0, SleepScript, OtherScripts
  <2>2. QED
    <3> USE DEF SleepType
    <3>1. CASE W!Setup /\ UNCHANGED asleep BY <1>1, <3>1 DEF W!Setup, W!Next1
    <3>2. CASE W!Finish /\ UNCHANGED asleep BY <1>1, <3>2 DEF W!Finish, W!Next1
    <3>3. CASE W!Sleep BY <1>1, <3>3 DEF W!Sleep
    <3>4. CASE W!Wakes BY <1>1, <2>1, <3>4 DEF W!Wakes, W!Next1, W!Stop
    <3>5. QED BY <3>1, <3>2, <3>3, <3>4 DEF W!Program
<1>6. SleepBool'
  BY <1>1 DEF SleepBool, W!Program, W!Setup, W!Finish, W!Sleep, W!Wakes
<1>3. GivesBack'
  <2> SUFFICES ASSUME wprog = "sleep" PROVE GivesBack'
    BY <1>1 DEF GivesBack
  <2> USE <1>0, SleepScript, <1>1 DEF GivesBack, SleepType
  <2>1. CASE W!Setup /\ UNCHANGED asleep BY <2>1 DEF W!Setup, W!Next1
  <2>2. CASE W!Finish /\ UNCHANGED asleep BY <2>2 DEF W!Finish, W!Next1
  <2>3. CASE W!Sleep BY <2>3 DEF W!Sleep
  <2>4. CASE W!Wakes BY <2>4 DEF W!Wakes, W!Next1
  <2>5. QED BY <2>1, <2>2, <2>3, <2>4 DEF W!Program
<1>4. Keeps'
  <2> SUFFICES ASSUME wprog # "sleep" PROVE Keeps'
    BY <1>1 DEF Keeps
  <2>0. /\ Len(W!Script[wprog]) \in Nat /\ Len(W!Script[wprog]) > 1
        /\ ~W!At("restore") /\ ~W!At("sigaction")
        /\ W!At("signal") => wat = 1
        /\ wat = 1 => ~W!At("setjmp") /\ ~W!At("block") /\ ~W!At("alarm") /\ ~W!At("pause")
                      /\ ~W!At("sigsuspend") /\ ~W!At("read") /\ ~W!At("loop") /\ ~W!At("cancel")
                      /\ ~W!At("unblock") /\ ~W!At("write")
    BY <1>0, OtherScripts
  <2> USE <2>0, <1>1 DEF Keeps, SleepType
  <2>1. CASE W!Setup BY <2>1 DEF W!Setup, W!Next1
  <2>2. CASE W!Finish BY <2>2 DEF W!Finish, W!Next1
  <2>3. CASE W!Sleep BY <2>3 DEF W!Sleep
  <2>4. CASE W!Wakes BY <2>4 DEF W!Wakes, W!Next1, W!Stop
  <2>5. QED BY <2>1, <2>2, <2>3, <2>4 DEF W!Program
<1>5. QED
  BY <1>1, <1>2, <1>3, <1>4, <1>6 DEF W!AlarmKept, W!HandlersFinish

LEMMA DeliverStep == ASSUME SleepInv, W!Deliver PROVE SleepInv'
<1>0. SleepType BY DEF SleepInv
<1>1. /\ fired = "pending" /\ (~mask \/ asleep) /\ fired' = "off"
      /\ UNCHANGED <<wprog, mask, action>>
  BY DEF W!Deliver
<1>2. CASE action = "caller"
  <2>1. /\ trace' = trace \cup {"stray"} /\ woken' = (woken \/ asleep)
        /\ UNCHANGED <<wat, inint, asleep>>
    BY <1>2 DEF W!Deliver
  <2>2. wprog = "sleep"
    BY <1>1, <1>2 DEF SleepInv, Keeps
  <2>3. "int" \in trace
    BY <1>1, <1>2, <2>2 DEF SleepInv, SleepType, GivesBack
  <2>4. QED
    BY <1>1, <1>2, <2>1, <2>2, <2>3 DEF SleepInv, SleepType, SleepBool, Keeps, GivesBack, W!AlarmKept, W!HandlersFinish
<1>3. CASE action # "caller" /\ wprog \in W!Jumps
  <2>1. /\ inint' = FALSE /\ asleep' = FALSE /\ woken' = FALSE
        /\ wat' = Len(W!Script[wprog]) + 1 \/ wat' = Len(W!Script[wprog])
        /\ trace' = trace \cup (IF inint THEN {"aborted"} ELSE {})
                          \cup (IF wprog = "read_demo" THEN {"timeout"} ELSE {})
    BY <1>3 DEF W!Deliver, W!Stop
  <2>2. wprog \in {"sleep2", "read_demo"} BY <1>3 DEF W!Jumps
  <2>3. Len(W!Script[wprog]) \in Nat /\ Len(W!Script[wprog]) > 1
    BY <1>0, <2>2, OtherScripts
  <2>4. wat # 1
    BY <1>1, <2>2 DEF SleepInv, Keeps
  <2>5. "stray" \in trace' => "stray" \in trace
    BY <2>1
  <2>6. "int" \in trace => "int" \in trace'
    BY <2>1
  <2>7. "aborted" \in trace' => wprog = "sleep2"
    BY <2>1, <2>2 DEF SleepInv, W!HandlersFinish
  <2>8. SleepType' /\ Keeps' /\ GivesBack'
    BY <1>1, <1>3, <2>1, <2>2, <2>3, <2>4 DEF SleepInv, SleepType, Keeps, GivesBack
  <2>10. SleepBool' BY <2>1 DEF SleepBool
  <2>9. QED
    BY <1>1, <2>1, <2>5, <2>6, <2>7, <2>8, <2>10 DEF SleepInv, W!AlarmKept, W!HandlersFinish
<1>4. CASE action # "caller" /\ wprog \notin W!Jumps
  <2>1. /\ woken' = (woken \/ asleep) /\ UNCHANGED <<wat, inint, asleep, trace>>
    BY <1>4 DEF W!Deliver
  <2>2. QED
    BY <1>1, <1>4, <2>1 DEF SleepInv, SleepType, SleepBool, Keeps, GivesBack, W!AlarmKept, W!HandlersFinish
<1>5. QED BY <1>2, <1>3, <1>4

LEMMA SleepNextInv == ASSUME SleepInv, W!sleepsNext PROVE SleepInv'
<1>1. CASE W!Program BY <1>1, ProgramStep
<1>2. CASE W!Deliver BY <1>2, DeliverStep
<1> USE DEF SleepInv, SleepType, SleepBool, Keeps, GivesBack, W!AlarmKept, W!HandlersFinish
<1>3. CASE W!Fires BY <1>3 DEF W!Fires
<1>4. CASE W!sig_int
  <2>1. UNCHANGED <<wprog, wat, fired, mask, action, asleep>>
    BY <1>4 DEF W!sig_int
  <2>2. /\ inint' \in BOOLEAN /\ (inint' => wprog # "read_demo")
        /\ \/ woken' = woken /\ trace' = trace
           \/ ~asleep /\ woken' = (woken \/ asleep) /\ trace' = trace
           \/ asleep /\ woken' = (woken \/ asleep) /\ trace' = trace \cup {"int"}
    BY <1>4 DEF W!sig_int
  <2>3. SleepType' /\ Keeps' BY <2>1, <2>2
  <2>4. GivesBack' BY <2>1, <2>2
  <2>5. QED BY <2>1, <2>2, <2>3, <2>4
<1>5. CASE W!Types BY <1>5 DEF W!Types
<1>6. QED BY <1>1, <1>2, <1>3, <1>4, <1>5 DEF W!sleepsNext

(* sleep: its alarm reaches the caller's action only when another signal   *)
(* has ended the sleep first, and a handler is abandoned only by longjmp.  *)
THEOREM AlarmTheorem == ProgSpec => []AlarmKept
<1>1. ProgInit => SleepInv
  BY SleepInitInv DEF ProgInit
<1>2. SleepInv /\ [ProgNext]_allVars => SleepInv'
  <2> SUFFICES ASSUME SleepInv, [ProgNext]_allVars PROVE SleepInv'
    OBVIOUS
  <2>1. CASE W!sleepsNext BY <2>1, SleepNextInv
  <2>2. CASE UNCHANGED sleepVars
    BY <2>2 DEF sleepVars, SleepInv, SleepType, SleepBool, Keeps, GivesBack, W!AlarmKept, W!HandlersFinish
  <2>3. QED BY <2>1, <2>2, SleepSteps
<1>3. SleepInv => AlarmKept
  BY DEF SleepInv, AlarmKept
<1>4. QED
  BY <1>1, <1>2, <1>3, PTL DEF ProgSpec
===============================================================================
