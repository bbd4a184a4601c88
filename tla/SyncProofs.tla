------------------------------ MODULE SyncProofs ------------------------------
(***************************************************************************)
(* TELL and WAIT on signals, and locks, between processes.                 *)
(*                                                                         *)
(* ipc_dev.c, for every NLOOPS: the two processes never hold the turn      *)
(* together, the turn is never lost, and neither finds a counter other than*)
(* the one it expects.  The invariant is TurnInv, the phases of a round.   *)
(*                                                                         *)
(* The single-instance daemon, for any set of processes: LockInv ties the  *)
(* statement a process is at to the lock, and what is in the file to the   *)
(* statement.                                                              *)
(*                                                                         *)
(* The programs on TELL and WAIT: DemoInv says which statements one process*)
(* can be at given what the other has told it.                             *)
(***************************************************************************)
EXTENDS Programs, SequenceTheorems, TLAPS

IInv == TypeOK /\ TurnInv

LEMMA InitInv == Init => IInv
  BY NLoopsAssumption
  DEF Init, TELL_WAIT, IInv, TypeOK, SyncTypeOK, TurnInv, Labels, WaitLabels,
      Procs, Top, Active, Idle, Gone, Called, SameRound, Asleep

LEMMA LoadStep ==
  ASSUME IInv, NEW p \in Procs, Load(p) PROVE IInv'
  BY NLoopsAssumption
  DEF Load, Goto, sync, IInv, TypeOK, SyncTypeOK, TurnInv, Labels, WaitLabels,
      Procs, Active, Idle, Gone, Called, SameRound, Asleep

LEMMA StoreStep ==
  ASSUME IInv, NEW p \in Procs, Store(p) PROVE IInv'
  BY NLoopsAssumption
  DEF Store, Goto, sync, IInv, TypeOK, SyncTypeOK, TurnInv, Labels, WaitLabels,
      Procs, Active, Idle, Gone, Called, SameRound, Asleep

LEMMA TellStep ==
  ASSUME IInv, NEW p \in Procs, Tell(p) PROVE IInv'
<1> USE NLoopsAssumption
    DEF Tell, TELL, Other, Top, Goto, sync, IInv, TypeOK, SyncTypeOK, Labels,
        WaitLabels, Procs
<1>1. TypeOK'
  <2>1. CASE p = "parent"
    BY <2>1, ZenonT(30)
  <2>2. CASE p = "child"
    <3>1. Top(p, i[p] + 2) \in Labels /\ i[p] + 2 \in Nat
      BY <2>2
    <3>2. pc' \in [Procs -> Labels] /\ i' \in [Procs -> Nat]
      BY <2>2, <3>1
    <3>3. pending' \in [Procs -> BOOLEAN]
      BY <2>2
    <3>4. QED
      BY <2>2, <3>2, <3>3
  <2>3. QED
    BY <2>1, <2>2
<1>2. CASE p = "parent"
  <2>1. Active("parent") /\ pc["parent"] = "tell" /\ Idle("child") /\ SameRound
    BY <1>2 DEF TurnInv, Active, Idle, Gone, Called, Asleep
  <2>2. Called("child")' /\ Idle("parent")' /\ SameRound' /\ (area = i["child"])'
    BY <1>2, <2>1 DEF Active, Idle, Called, SameRound, Asleep
  <2>3. QED
    BY <1>1, <2>2 DEF TurnInv
<1>3. CASE p = "child"
  <2>1. Active("child") /\ pc["child"] = "tell" /\ Idle("parent") /\ SameRound
    BY <1>3 DEF TurnInv, Active, Idle, Gone, Called, Asleep
  <2>2. Called("parent")' /\ (i["child"] = i["parent"] + 3 /\ area = i["parent"] + 2)'
    BY <1>3, <2>1 DEF Active, Idle, Called, SameRound, Asleep
  <2>3. IF i'["child"] < NLOOPS + 1 THEN Idle("child")' ELSE Gone("child")'
    BY <1>3, <2>1 DEF Active, Idle, Gone, SameRound, Asleep
  <2>4. QED
    BY <1>1, <2>2, <2>3 DEF TurnInv
<1>4. QED
  BY <1>2, <1>3

LEMMA WaitEndsStep ==
  ASSUME IInv, NEW p \in Procs, WaitEnds(p) PROVE IInv'
<1> USE NLoopsAssumption
    DEF WaitEnds, WaitUnmask, Top, Goto, sync, IInv, TypeOK, SyncTypeOK, Labels,
        WaitLabels, Procs
<1>1. TypeOK'
  <2>1. CASE p = "child"
    BY <2>1, ZenonT(30)
  <2>2. CASE p = "parent"
    <3>1. Top(p, i[p] + 2) \in Labels /\ i[p] + 2 \in Nat
      BY <2>2
    <3>2. pc' \in [Procs -> Labels] /\ i' \in [Procs -> Nat]
      BY <2>2, <3>1
    <3>3. blocked' \in [Procs -> BOOLEAN]
      BY <2>2
    <3>4. QED
      BY <2>2, <3>2, <3>3
  <2>3. QED
    BY <2>1, <2>2
<1>2. CASE p = "parent"
  BY <1>1, <1>2 DEF TurnInv, Active, Idle, Gone, Called, SameRound, Asleep
<1>3. CASE p = "child"
  BY <1>1, <1>3 DEF TurnInv, Active, Idle, Gone, Called, SameRound, Asleep
<1>4. QED
  BY <1>2, <1>3

LEMMA WaitStep ==
  ASSUME IInv, NEW p \in Procs, Wait(p) PROVE IInv'
<1> USE NLoopsAssumption
    DEF Goto, sync, IInv, TypeOK, SyncTypeOK, TurnInv, Labels, WaitLabels,
        Procs, Active, Idle, Gone, Called, SameRound, Asleep
<1>1. CASE WaitTest(p)
  BY <1>1 DEF WaitTest, Wait
<1>2. CASE WaitSuspend(p)
  BY <1>2 DEF WaitSuspend, Wait
<1>3. CASE WaitReset(p)
  BY <1>3 DEF WaitReset, Wait
<1>4. CASE sig_usr(p)
  BY <1>4 DEF sig_usr, Wait
<1>5. QED
  BY <1>1, <1>2, <1>3, <1>4 DEF Wait

LEMMA NextInv == IInv /\ [Next]_vars => IInv'
<1> SUFFICES ASSUME IInv, [Next]_vars PROVE IInv'
  OBVIOUS
<1>1. CASE \E p \in Procs : Step(p)
  BY <1>1, LoadStep, StoreStep, TellStep, WaitEndsStep, WaitStep DEF Step
<1>2. CASE UNCHANGED vars
  BY <1>2 DEF vars, sync, IInv, TypeOK, SyncTypeOK, TurnInv, Active, Idle, Gone,
              Called, SameRound
<1>3. QED
  BY <1>1, <1>2 DEF Next, Done

LEMMA InvImplies == IInv => TurnsAlternate
  BY DEF IInv, TypeOK, SyncTypeOK, TurnInv, TurnsAlternate, NoErrQuit, HasTurn,
         Procs, Active, Idle, Gone, Called, Asleep

(* At every point of an execution with any number of rounds, at most one   *)
(* of parent and child has the turn, and one has it until the parent ends: *)
(* the flag and the pending signal of signal-sync.c carry exactly one turn.*)
(* The shared counter has the value the loop variable says, so that        *)
(* neither process calls err_quit.                                         *)
THEOREM TurnsTaken == Spec => []TurnsAlternate
<1>1. Spec => []IInv
  BY InitInv, NextInv, PTL DEF Spec
<1>2. QED
  BY <1>1, InvImplies, PTL

-----------------------------------------------------------------------------
Inside == {"locked", "truncated", "runs"}

(* A process past write_lock is among the holders of the lock.             *)
InsideHolds == \A p \in Pids : at[p] \in Inside => p \in holder
(* The lock is held by one process at most.                                *)
OneHolder == \A p, q \in holder : p = q
(* The file is empty between ftruncate and write, and names the daemon     *)
(* from then on.                                                           *)
FileRight == \A p \in Pids : /\ at[p] = "truncated" => pidfile = {}
                             /\ at[p] = "runs" => pidfile = {p}

LockInv == LockTypeOK /\ InsideHolds /\ OneHolder /\ FileRight

(* Nobody has started: the invariant holds.                                *)
LEMMA LockInitInv == lockInit => LockInv
BY DEF lockInit, LockInv, LockTypeOK, InsideHolds, OneHolder, FileRight, States, Inside

(* Every step of every process keeps the invariant.                        *)
LEMMA LockNextInv == LockInv /\ [lockNext]_lockVars => LockInv'
<1> SUFFICES ASSUME LockInv, [lockNext]_lockVars PROVE LockInv'
  OBVIOUS
<1> USE DEF LockInv, LockTypeOK, InsideHolds, OneHolder, FileRight, States, Inside, Goes
<1>1. ASSUME NEW p \in Pids, Open(p) PROVE LockInv'
  BY <1>1 DEF Open
<1>2. ASSUME NEW p \in Pids, Lock(p) PROVE LockInv'
  BY <1>2 DEF Lock, write_lock
<1>3. ASSUME NEW p \in Pids, Refused(p) PROVE LockInv'
  BY <1>3 DEF Refused
<1>4. ASSUME NEW p \in Pids, ftruncate(p) PROVE LockInv'
  BY <1>4 DEF ftruncate
<1>5. ASSUME NEW p \in Pids, WritePid(p) PROVE LockInv'
  BY <1>5 DEF WritePid
<1>6. ASSUME NEW p \in Pids, Ends(p) PROVE LockInv'
  BY <1>6 DEF Ends
<1>7. CASE UNCHANGED lockVars
  BY <1>7 DEF lockVars
<1>8. QED
  BY <1>1, <1>2, <1>3, <1>4, <1>5, <1>6, <1>7 DEF lockNext

(* The invariant excludes two daemons and a wrong pid file.                *)
LEMMA LockInvOne == LockInv => OneDaemon
BY DEF LockInv, InsideHolds, OneHolder, FileRight, OneDaemon, Inside

(* For every set of process ids at most one run of daemon-lock.c is past   *)
(* its write_lock, and the running daemon is the one the file names.       *)
THEOREM SingleInstance == lockSpec => []OneDaemon
<1>1. lockSpec => []LockInv
  BY LockInitInv, LockNextInv, PTL DEF lockSpec
<1>2. QED
  BY <1>1, LockInvOne, PTL

-----------------------------------------------------------------------------
LEMMA DemoSteps == [ProgNext]_allVars => (\E p \in Procs : D!Step(p)) \/ UNCHANGED demoVars
BY DEF ProgNext, Rest, allVars

Flow == {"wait", "suspend", "asleep", "reset", "unmask"}
On(p, label, n) == dpc[p] = label /\ dat[p] = n
InWait(p, n)    == dpc[p] \in Flow /\ dat[p] = n

DemoType ==
  /\ demo \in {"race", "deadlock", "chklck"}
  /\ DOMAIN dpc = D!Procs /\ DOMAIN dat = D!Procs
  /\ DOMAIN owner = D!Bytes /\ DOMAIN dasks = D!Procs
  /\ out \in Seq(D!Procs)
DemoSync ==
  /\ dsigflag \in [D!Procs -> {0, 1}] /\ dpending \in [D!Procs -> BOOLEAN]

(* The statement a process is at and its index in the script.              *)
AtOk ==
  /\ demo = "race" =>
       /\ On("parent", "write", 1) \/ On("parent", "tell", 2) \/ On("parent", "exit", 3)
       /\ InWait("child", 1) \/ On("child", "write", 2) \/ On("child", "exit", 3)
  /\ demo = "deadlock" =>
       /\ \/ On("parent", "lock1", 1) \/ On("parent", "tell", 2) \/ InWait("parent", 3)
          \/ On("parent", "lock0", 4) \/ On("parent", "exit", 5) \/ dpc["parent"] = "err_sys"
       /\ \/ On("child", "lock0", 1) \/ On("child", "tell", 2) \/ InWait("child", 3)
          \/ On("child", "lock1", 4) \/ On("child", "exit", 5) \/ dpc["child"] = "err_sys"
  /\ demo = "chklck" =>
       /\ \/ On("parent", "lockall", 1) \/ On("parent", "tell", 2) \/ On("parent", "waitpid", 3)
          \/ On("parent", "exit", 4)
       /\ \/ InWait("child", 1) \/ On("child", "trylock", 2) \/ On("child", "exit", 3)
          \/ dpc["child"] = "err_sys"

(* The statement that follows, read off the scripts.                       *)
NextIs(p, label, next) == dpc[p] = label => D!NextStmt(p) = next
LEMMA NextRace ==
  ASSUME AtOk, demo = "race"
  PROVE  /\ NextIs("parent", "write", "tell") /\ NextIs("parent", "tell", "exit")
         /\ NextIs("child", "unmask", "write") /\ NextIs("child", "write", "exit")
<1>1. D!Script[demo]["parent"] = <<"write", "tell">> /\ D!Script[demo]["child"] = <<"wait", "write">>
  BY DEF D!Script
<1>2. QED
  BY <1>1 DEF AtOk, On, InWait, Flow, NextIs, D!NextStmt
LEMMA NextDeadlock ==
  ASSUME AtOk, demo = "deadlock"
  PROVE  /\ NextIs("parent", "lock1", "tell") /\ NextIs("parent", "tell", "wait")
         /\ NextIs("parent", "unmask", "lock0") /\ NextIs("parent", "lock0", "exit")
         /\ NextIs("child", "lock0", "tell") /\ NextIs("child", "tell", "wait")
         /\ NextIs("child", "unmask", "lock1") /\ NextIs("child", "lock1", "exit")
<1>1. /\ D!Script[demo]["parent"] = <<"lock1", "tell", "wait", "lock0">>
      /\ D!Script[demo]["child"] = <<"lock0", "tell", "wait", "lock1">>
  BY DEF D!Script
<1>2. QED
  BY <1>1 DEF AtOk, On, InWait, Flow, NextIs, D!NextStmt
LEMMA NextChk ==
  ASSUME AtOk, demo = "chklck"
  PROVE  /\ NextIs("parent", "lockall", "tell") /\ NextIs("parent", "tell", "waitpid")
         /\ NextIs("parent", "waitpid", "exit") /\ NextIs("child", "unmask", "trylock")
<1>1. /\ D!Script[demo]["parent"] = <<"lockall", "tell", "waitpid">>
      /\ D!Script[demo]["child"] = <<"wait", "trylock">>
  BY DEF D!Script
<1>2. QED
  BY <1>1 DEF AtOk, On, InWait, Flow, NextIs, D!NextStmt

-----------------------------------------------------------------------------
(* race-fork: the child goes on only when the parent has told it, after    *)
(* the parent's line.                                                      *)
RaceInv ==
  /\ demo # "race" => out = << >>
  /\ demo = "race" =>
       /\ \/ dpending["child"] \/ dsigflag["child"] = 1
          \/ dpc["child"] \in {"reset", "unmask", "write", "exit"}
          => dpc["parent"] = "exit"
       /\ (\E m \in DOMAIN out : out[m] = "child") => dpc["parent"] = "exit"
  /\ D!ParentFirst

(* deadlock-demo: a process goes on past its WAIT only when the other has  *)
(* its first byte, which it gives up only when it ends; it sleeps only for *)
(* its second; and it ends well only when the other has been refused.      *)
Mine(p)   == IF p = "parent" THEN "lock1" ELSE "lock0"
Yours(p)  == IF p = "parent" THEN "lock0" ELSE "lock1"
DeadOf(p, q) ==
  /\ \/ dpending[p] \/ dsigflag[p] = 1
     \/ dpc[p] \in {"reset", "unmask", Yours(p), "exit", "err_sys"}
     => dpc[q] \in Flow \cup {Yours(q), "exit", "err_sys"}
  /\ owner[Mine(p)] = IF dpc[p] \in {Mine(p), "exit", "err_sys"} THEN "none" ELSE p
  /\ dasks[p] # "none" => dpc[p] = Yours(p) /\ dasks[p] = Yours(p)
  /\ dpc[p] = "err_sys" => dpc[q] \in {Yours(q), "exit"}
  /\ dpc[p] = "exit" => dpc[q] = "err_sys"
DeadInv == demo = "deadlock" => DeadOf("parent", "child") /\ DeadOf("child", "parent")

(* chk-lck: the child tries while the parent sits in waitpid with the lock.*)
ChkInv ==
  demo = "chklck" =>
    /\ \/ dpending["child"] \/ dsigflag["child"] = 1
       \/ dpc["child"] \in {"reset", "unmask", "trylock", "exit"}
       => dpc["parent"] \in {"waitpid", "exit"}
    /\ dpc["parent"] \in {"tell", "waitpid"} => owner = [b \in D!Bytes |-> "parent"]
    /\ dpc["parent"] = "exit" => dpc["child"] = "exit"
    /\ dpc["child"] # "err_sys"

DemoInv == DemoType /\ DemoSync /\ AtOk /\ RaceInv /\ DeadInv /\ ChkInv

LEMMA DemoInitInv == D!Init => DemoInv
<1> SUFFICES ASSUME D!Init PROVE DemoInv
  OBVIOUS
<1>0. demo \in {"race", "deadlock", "chklck"}
  BY DEF D!Init, D!Script
<1>1. DemoType /\ DemoSync
  BY <1>0 DEF D!Init, D!TELL_WAIT, DemoType, DemoSync
<1>2. /\ demo = "race" => dpc["parent"] = "write" /\ dpc["child"] = "wait"
      /\ demo = "deadlock" => dpc["parent"] = "lock1" /\ dpc["child"] = "lock0"
      /\ demo = "chklck" => dpc["parent"] = "lockall" /\ dpc["child"] = "wait"
      /\ dat["parent"] = 1 /\ dat["child"] = 1
  BY DEF D!Init, D!Script, D!Procs
<1>3. AtOk
  BY <1>0, <1>2 DEF AtOk, On, InWait, Flow
<1>4. RaceInv
  BY <1>2 DEF D!Init, D!TELL_WAIT, RaceInv, D!ParentFirst, D!Procs
<1>5. DeadInv
  BY <1>2 DEF D!Init, D!TELL_WAIT, DeadInv, DeadOf, Mine, Yours, D!Procs, D!Bytes
<1>6. ChkInv
  BY <1>2 DEF D!Init, D!TELL_WAIT, ChkInv, D!Procs
<1>7. QED BY <1>1, <1>3, <1>4, <1>5, <1>6 DEF DemoInv

-----------------------------------------------------------------------------
LEMMA DemoTypeStep == ASSUME DemoInv, NEW p \in D!Procs, D!Step(p) PROVE DemoType'
<1> USE DEF DemoInv, DemoType, D!Goto, D!Advance
<1>1. CASE D!Write(p) BY <1>1 DEF D!Write
<1>2. CASE D!Tell(p) BY <1>2 DEF D!Tell, D!TELL, D!Finish, D!Released
<1>3. CASE D!Wait(p)
  BY <1>3 DEF D!Wait, D!WaitTest, D!WaitSuspend, D!WaitReset, D!sig_usr
<1>4. CASE D!WaitEnds(p) BY <1>4 DEF D!WaitEnds, D!WaitUnmask
<1>5. CASE D!LockByte(p) BY <1>5 DEF D!LockByte, D!Released
<1>6. CASE D!LockSleeps(p) BY <1>6 DEF D!LockSleeps
<1>7. CASE D!LockRefused(p) BY <1>7 DEF D!LockRefused, D!Released
<1>8. CASE D!LockAll(p) BY <1>8 DEF D!LockAll
<1>9. CASE D!TryLock(p) BY <1>9 DEF D!TryLock
<1>10. CASE D!WaitPid(p) BY <1>10 DEF D!WaitPid, D!Finish, D!Released
<1>11. QED
  BY <1>1, <1>2, <1>3, <1>4, <1>5, <1>6, <1>7, <1>8, <1>9, <1>10 DEF D!Step

LEMMA DemoSyncStep == ASSUME DemoInv, NEW p \in D!Procs, D!Step(p) PROVE DemoSync'
<1> USE DEF DemoInv, DemoSync, D!sync
<1>1. CASE D!Tell(p) BY <1>1 DEF D!Tell, D!TELL
<1>2. CASE D!Wait(p)
  BY <1>2 DEF D!Wait, D!WaitTest, D!WaitSuspend, D!WaitReset, D!sig_usr
<1>3. CASE D!WaitEnds(p) BY <1>3 DEF D!WaitEnds, D!WaitUnmask
<1>4. CASE UNCHANGED D!sync BY <1>4
<1>5. QED
  BY <1>1, <1>2, <1>3, <1>4
  DEF D!Step, D!Write, D!LockByte, D!LockSleeps, D!LockRefused, D!LockAll, D!TryLock, D!WaitPid

LEMMA RaceAt ==
  ASSUME DemoInv, demo = "race", NEW p \in D!Procs, D!Step(p) PROVE AtOk'
<1> USE NextRace DEF DemoInv, DemoType, DemoSync, AtOk, On, InWait, Flow, NextIs, D!Goto, D!Advance, D!sync,
        D!Procs, D!Other, D!Bytes
<1>1. CASE D!Write(p) BY <1>1 DEF D!Write
<1>2. CASE D!Tell(p) BY <1>2 DEF D!Tell, D!TELL, D!Finish, D!Released
<1>3. CASE D!Wait(p) BY <1>3 DEF D!Wait, D!WaitTest, D!WaitSuspend, D!WaitReset, D!sig_usr
<1>4. CASE D!WaitEnds(p) BY <1>4 DEF D!WaitEnds, D!WaitUnmask
<1>5. CASE D!LockByte(p) BY <1>5 DEF D!LockByte, D!Released
<1>6. CASE D!LockSleeps(p) BY <1>6 DEF D!LockSleeps, D!Cycle
<1>7. CASE D!LockRefused(p) BY <1>7 DEF D!LockRefused, D!Released, D!Cycle
<1>8. CASE D!LockAll(p) BY <1>8 DEF D!LockAll
<1>9. CASE D!TryLock(p) BY <1>9 DEF D!TryLock
<1>10. CASE D!WaitPid(p) BY <1>10 DEF D!WaitPid, D!Finish, D!Released, D!Ended
<1>11. QED
  BY <1>1, <1>2, <1>3, <1>4, <1>5, <1>6, <1>7, <1>8, <1>9, <1>10 DEF D!Step

LEMMA DeadAt ==
  ASSUME DemoInv, demo = "deadlock", NEW p \in D!Procs, D!Step(p) PROVE AtOk'
<1> USE NextDeadlock DEF DemoInv, DemoType, DemoSync, AtOk, On, InWait, Flow, NextIs, D!Goto, D!Advance, D!sync,
        D!Procs, D!Other, D!Bytes
<1>1. CASE D!Write(p) BY <1>1 DEF D!Write
<1>2. CASE D!Tell(p) BY <1>2 DEF D!Tell, D!TELL, D!Finish, D!Released
<1>3. CASE D!Wait(p) BY <1>3 DEF D!Wait, D!WaitTest, D!WaitSuspend, D!WaitReset, D!sig_usr
<1>4. CASE D!WaitEnds(p) BY <1>4 DEF D!WaitEnds, D!WaitUnmask
<1>5. CASE D!LockByte(p) BY <1>5 DEF D!LockByte, D!Released
<1>6. CASE D!LockSleeps(p) BY <1>6 DEF D!LockSleeps, D!Cycle
<1>7. CASE D!LockRefused(p) BY <1>7 DEF D!LockRefused, D!Released, D!Cycle
<1>8. CASE D!LockAll(p) BY <1>8 DEF D!LockAll
<1>9. CASE D!TryLock(p) BY <1>9 DEF D!TryLock
<1>10. CASE D!WaitPid(p) BY <1>10 DEF D!WaitPid, D!Finish, D!Released, D!Ended
<1>11. QED
  BY <1>1, <1>2, <1>3, <1>4, <1>5, <1>6, <1>7, <1>8, <1>9, <1>10 DEF D!Step

LEMMA ChkAt ==
  ASSUME DemoInv, demo = "chklck", NEW p \in D!Procs, D!Step(p) PROVE AtOk'
<1> USE NextChk DEF DemoInv, DemoType, DemoSync, AtOk, On, InWait, Flow, NextIs, D!Goto, D!Advance, D!sync,
        D!Procs, D!Other, D!Bytes
<1>1. CASE D!Write(p) BY <1>1 DEF D!Write
<1>2. CASE D!Tell(p) BY <1>2 DEF D!Tell, D!TELL, D!Finish, D!Released
<1>3. CASE D!Wait(p) BY <1>3 DEF D!Wait, D!WaitTest, D!WaitSuspend, D!WaitReset, D!sig_usr
<1>4. CASE D!WaitEnds(p) BY <1>4 DEF D!WaitEnds, D!WaitUnmask
<1>5. CASE D!LockByte(p) BY <1>5 DEF D!LockByte, D!Released
<1>6. CASE D!LockSleeps(p) BY <1>6 DEF D!LockSleeps, D!Cycle
<1>7. CASE D!LockRefused(p) BY <1>7 DEF D!LockRefused, D!Released, D!Cycle
<1>8. CASE D!LockAll(p) BY <1>8 DEF D!LockAll
<1>9. CASE D!TryLock(p) BY <1>9 DEF D!TryLock
<1>10. CASE D!WaitPid(p) BY <1>10 DEF D!WaitPid, D!Finish, D!Released, D!Ended
<1>11. QED
  BY <1>1, <1>2, <1>3, <1>4, <1>5, <1>6, <1>7, <1>8, <1>9, <1>10 DEF D!Step

LEMMA RaceStep ==
  ASSUME DemoInv, demo = "race", NEW p \in D!Procs, D!Step(p) PROVE RaceInv'
<1> USE NextRace DEF DemoInv, DemoType, DemoSync, AtOk, On, InWait, Flow, NextIs, D!Goto, D!Advance, D!sync,
        D!Procs, D!Other, D!Bytes, RaceInv, D!ParentFirst
<1>1. CASE D!Write(p) BY <1>1 DEF D!Write
<1>2. CASE D!Tell(p) BY <1>2 DEF D!Tell, D!TELL, D!Finish, D!Released
<1>3. CASE D!Wait(p) BY <1>3 DEF D!Wait, D!WaitTest, D!WaitSuspend, D!WaitReset, D!sig_usr
<1>4. CASE D!WaitEnds(p) BY <1>4 DEF D!WaitEnds, D!WaitUnmask
<1>5. CASE D!LockByte(p) BY <1>5 DEF D!LockByte, D!Released
<1>6. CASE D!LockSleeps(p) BY <1>6 DEF D!LockSleeps, D!Cycle
<1>7. CASE D!LockRefused(p) BY <1>7 DEF D!LockRefused, D!Released, D!Cycle
<1>8. CASE D!LockAll(p) BY <1>8 DEF D!LockAll
<1>9. CASE D!TryLock(p) BY <1>9 DEF D!TryLock
<1>10. CASE D!WaitPid(p) BY <1>10 DEF D!WaitPid, D!Finish, D!Released, D!Ended
<1>11. QED
  BY <1>1, <1>2, <1>3, <1>4, <1>5, <1>6, <1>7, <1>8, <1>9, <1>10 DEF D!Step

LEMMA DeadStep ==
  ASSUME DemoInv, demo = "deadlock", NEW p \in D!Procs, D!Step(p) PROVE DeadInv'
<1> USE NextDeadlock DEF DemoInv, DemoType, DemoSync, AtOk, On, InWait, Flow, NextIs, D!Goto, D!Advance, D!sync,
        D!Procs, D!Other, D!Bytes, DeadInv, DeadOf, Mine, Yours
<1>1. CASE D!Write(p) BY <1>1 DEF D!Write
<1>2. CASE D!Tell(p) BY <1>2 DEF D!Tell, D!TELL, D!Finish, D!Released
<1>3. CASE D!Wait(p) BY <1>3 DEF D!Wait, D!WaitTest, D!WaitSuspend, D!WaitReset, D!sig_usr
<1>4. CASE D!WaitEnds(p) BY <1>4 DEF D!WaitEnds, D!WaitUnmask
<1>5. CASE D!LockByte(p) BY <1>5 DEF D!LockByte, D!Released
<1>6. CASE D!LockSleeps(p) BY <1>6 DEF D!LockSleeps, D!Cycle
<1>7. CASE D!LockRefused(p) BY <1>7 DEF D!LockRefused, D!Released, D!Cycle
<1>8. CASE D!LockAll(p) BY <1>8 DEF D!LockAll
<1>9. CASE D!TryLock(p) BY <1>9 DEF D!TryLock
<1>10. CASE D!WaitPid(p) BY <1>10 DEF D!WaitPid, D!Finish, D!Released, D!Ended
<1>11. QED
  BY <1>1, <1>2, <1>3, <1>4, <1>5, <1>6, <1>7, <1>8, <1>9, <1>10 DEF D!Step

LEMMA ChkStep ==
  ASSUME DemoInv, demo = "chklck", NEW p \in D!Procs, D!Step(p) PROVE ChkInv'
<1> USE NextChk DEF DemoInv, DemoType, DemoSync, AtOk, On, InWait, Flow, NextIs, D!Goto, D!Advance, D!sync,
        D!Procs, D!Other, D!Bytes, ChkInv
<1>1. CASE D!Write(p) BY <1>1 DEF D!Write
<1>2. CASE D!Tell(p) BY <1>2 DEF D!Tell, D!TELL, D!Finish, D!Released
<1>3. CASE D!Wait(p) BY <1>3 DEF D!Wait, D!WaitTest, D!WaitSuspend, D!WaitReset, D!sig_usr
<1>4. CASE D!WaitEnds(p) BY <1>4 DEF D!WaitEnds, D!WaitUnmask
<1>5. CASE D!LockByte(p) BY <1>5 DEF D!LockByte, D!Released
<1>6. CASE D!LockSleeps(p) BY <1>6 DEF D!LockSleeps, D!Cycle
<1>7. CASE D!LockRefused(p) BY <1>7 DEF D!LockRefused, D!Released, D!Cycle
<1>8. CASE D!LockAll(p) BY <1>8 DEF D!LockAll
<1>9. CASE D!TryLock(p) BY <1>9 DEF D!TryLock
<1>10. CASE D!WaitPid(p) BY <1>10 DEF D!WaitPid, D!Finish, D!Released, D!Ended
<1>11. QED
  BY <1>1, <1>2, <1>3, <1>4, <1>5, <1>6, <1>7, <1>8, <1>9, <1>10 DEF D!Step

LEMMA DemoNextInv == ASSUME DemoInv, NEW p \in D!Procs, D!Step(p) PROVE DemoInv'
<1>1. demo' = demo
  BY DEF D!Step, D!Write, D!Tell, D!Wait, D!WaitEnds, D!LockByte, D!LockSleeps, D!LockRefused,
         D!LockAll, D!TryLock, D!WaitPid
<1>2. DemoType' /\ DemoSync'
  BY DemoTypeStep, DemoSyncStep
<1>3. demo \in {"race", "deadlock", "chklck"}
  BY DEF DemoInv, DemoType
<1>4. AtOk'
  BY <1>3, RaceAt, DeadAt, ChkAt
<1>5. ASSUME demo # "race" PROVE out' = out
  <2>1. dpc[p] # "write"
    BY <1>3, <1>5 DEF DemoInv, AtOk, On, InWait, Flow, D!Procs
  <2>2. QED
    BY <2>1 DEF D!Step, D!Write, D!Tell, D!Wait, D!WaitEnds, D!LockByte, D!LockSleeps, D!LockRefused,
         D!LockAll, D!TryLock, D!WaitPid
<1>6. RaceInv'
  <2>1. CASE demo = "race" BY <2>1, RaceStep
  <2>2. CASE demo # "race"
    BY <1>1, <1>5, <2>2 DEF DemoInv, RaceInv, D!ParentFirst
  <2>3. QED BY <2>1, <2>2
<1>7. DeadInv'
  BY <1>1, DeadStep DEF DeadInv
<1>8. ChkInv'
  BY <1>1, ChkStep DEF ChkInv
<1>9. QED BY <1>2, <1>4, <1>6, <1>7, <1>8 DEF DemoInv

LEMMA DemoProps == DemoInv => DemosAgree
<1> SUFFICES ASSUME DemoInv PROVE DemosAgree
  OBVIOUS
<1>1. D!ParentFirst
  BY DEF DemoInv, RaceInv
<1>2. D!OneRefused
  BY DEF DemoInv, DeadInv, DeadOf, Yours, D!OneRefused, D!Ended, D!Procs
<1>3. D!LockSeen
  BY DEF DemoInv, ChkInv, AtOk, On, D!LockSeen, D!Procs
<1>4. QED BY <1>1, <1>2, <1>3 DEF DemosAgree

(* The parent of race-fork writes its whole line first, the deadlock of    *)
(* deadlock-demo is met and broken for exactly one process, and the child  *)
(* of chk-lck tries the lock while the parent holds it.                    *)
THEOREM DemosTheorem == ProgSpec => []DemosAgree
<1>1. ProgInit => DemoInv
  BY DemoInitInv DEF ProgInit
<1>2. DemoInv /\ [ProgNext]_allVars => DemoInv'
  <2> SUFFICES ASSUME DemoInv, [ProgNext]_allVars PROVE DemoInv'
    OBVIOUS
  <2>1. ASSUME NEW p \in Procs, D!Step(p) PROVE DemoInv'
    BY <2>1, DemoNextInv DEF Procs, D!Procs
  <2>2. CASE UNCHANGED demoVars
    <3>1. DemoType' /\ DemoSync' /\ AtOk'
      BY <2>2 DEF demoVars, DemoInv, DemoType, DemoSync, AtOk, On, InWait
    <3>2. RaceInv' /\ DeadInv' /\ ChkInv'
      BY <2>2 DEF demoVars, DemoInv, RaceInv, D!ParentFirst, DeadInv, DeadOf, ChkInv
    <3>3. QED BY <3>1, <3>2 DEF DemoInv
  <2>3. QED BY <2>1, <2>2, DemoSteps
<1>3. QED
  BY <1>1, <1>2, DemoProps, PTL DEF ProgSpec
===============================================================================
