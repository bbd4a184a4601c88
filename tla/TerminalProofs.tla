---------------------------- MODULE TerminalProofs ----------------------------
(***************************************************************************)
(* The user's terminal and what is copied through it, for any texts, sizes *)
(* of the buffers and ends of the processes: call and pty leave the        *)
(* terminal as it was (SesInv, TtyInv), and pty copies both ways in order, *)
(* what the program on the slave writes completely (CopyInv).              *)
(***************************************************************************)
EXTENDS Programs, SequenceTheorems, TLAPS

(* call.                                                                   *)
LEMMA CallSteps == [ProgNext]_allVars => S!sesNext \/ UNCHANGED callVars
BY DEF ProgNext, Rest, allVars

UserStates == {"call", "suspended", "t", "p", "done"}

(* In raw mode the static data of term-func.c have the user's mode, ready  *)
(* for tty_reset and tty_atexit.                                           *)
RawSaved == [save |-> "user", state |-> "RAW", fd |-> 0]
SesInv ==
  /\ stermios = IF st \in UserStates THEN "user" ELSE "raw"
  /\ stermios = "raw" => stty = [p \in {"call"} |-> RawSaved]
  /\ \E r : stty = [p \in {"call"} |-> r]

LEMMA SesInitInv == S!sesInit => SesInv
BY DEF S!sesInit, SesInv, UserStates

LEMMA SesRaw ==
  ASSUME SesInv, st \in UserStates, S!tty_raw("call"), st' \notin UserStates PROVE SesInv'
BY DEF SesInv, S!tty_raw, RawSaved
LEMMA SesReset ==
  ASSUME SesInv, st \notin UserStates, S!tty_reset("call"), st' \in UserStates PROVE SesInv'
BY DEF SesInv, S!tty_reset, RawSaved
LEMMA SesSame ==
  ASSUME SesInv, UNCHANGED S!terminal, st \in UserStates <=> st' \in UserStates PROVE SesInv'
BY DEF SesInv, S!terminal

LEMMA SesNextInv == ASSUME SesInv, S!sesNext PROVE SesInv'
<1> USE DEF UserStates
<1>1. CASE S!call BY <1>1, SesRaw, SesSame DEF S!call
<1>2. CASE S!Exit
  <2>1. S!tty_reset("call")
    BY <1>2 DEF S!Exit, S!tty_atexit, SesInv, RawSaved
  <2>2. QED BY <1>2, <2>1, SesReset DEF S!Exit
<1>3. CASE S!Poll BY <1>3, SesSame DEF S!Poll
<1>4. ASSUME NEW c \in Keys, S!ReadKey(c) PROVE SesInv'
  BY <1>4, SesSame DEF S!ReadKey, S!Send, S!AfterKey
<1>5. ASSUME NEW c \in Keys, S!doescape(c) PROVE SesInv'
  <2>1. CASE S!tty_reset("call") /\ st' \in UserStates
    BY <1>5, <2>1, SesReset DEF S!doescape
  <2>2. CASE UNCHANGED S!terminal /\ st' \in {"exit", "poll", "rem"}
    BY <1>5, <2>2, SesSame DEF S!doescape
  <2>3. QED
    BY <1>5, <2>1, <2>2 DEF S!doescape, S!Suspend, S!prompt_read, S!Send, S!AfterKey
<1>6. CASE S!InputEnds BY <1>6, SesSame DEF S!InputEnds
<1>7. CASE S!Resume BY <1>7, SesRaw DEF S!Resume
<1>8. CASE S!ReadRemote BY <1>8, SesSame DEF S!ReadRemote
<1>9. CASE S!take BY <1>9, SesRaw DEF S!take
<1>10. CASE S!rem_read BY <1>10, SesSame DEF S!rem_read
<1>11. CASE S!TakeChar BY <1>11, SesSame DEF S!TakeChar, S!SkipEcho
<1>12. CASE S!TakeReturns BY <1>12, SesSame DEF S!TakeReturns
<1>13. CASE S!put BY <1>13, SesRaw DEF S!put
<1>14. ASSUME NEW c \in {"x", "lf"}, S!RemoteSays(c) PROVE SesInv'
  BY <1>14, SesSame DEF S!RemoteSays
<1>15. CASE S!Drops BY <1>15, SesSame DEF S!Drops
<1>16. QED
  BY <1>1, <1>2, <1>3, <1>4, <1>5, <1>6, <1>7, <1>8, <1>9, <1>10, <1>11, <1>12, <1>13, <1>14, <1>15
  DEF S!sesNext, S!Client

LEMMA SesAlways == ProgSpec => []S!ModeRight
<1>1. ProgInit => SesInv
  BY SesInitInv DEF ProgInit
<1>2. SesInv /\ [ProgNext]_allVars => SesInv'
  <2> SUFFICES ASSUME SesInv, [ProgNext]_allVars PROVE SesInv'
    OBVIOUS
  <2>1. CASE S!sesNext BY <2>1, SesNextInv
  <2>2. CASE UNCHANGED callVars
    BY <2>2, SesSame DEF callVars, S!terminal
  <2>3. QED BY <2>1, <2>2, CallSteps
<1>3. SesInv => S!ModeRight
  BY DEF SesInv, UserStates, S!ModeRight
<1>4. QED
  BY <1>1, <1>2, <1>3, PTL DEF ProgSpec

-----------------------------------------------------------------------------
(* pty.                                                                    *)
LEMMA PtySteps == [ProgNext]_allVars => Y!ptyNext \/ UNCHANGED ptyVars
BY DEF ProgNext, Rest, allVars

Starting == {"pty_fork", "tty_raw", "driver", "fork"}
Modes == [save : {"none", "user"}, state : {"RESET", "RAW"}, fd : {-1, 0}]

(* The user's terminal.  When a mode has been saved it is the user's, and  *)
(* while the terminal is raw both processes can restore it; the parent     *)
(* ends without that only when the child is on its way to exit.            *)
TtyInv ==
  /\ termios \in {"user", "raw"}
  /\ tty \in [{"parent", "child"} -> Modes]
  /\ \A p \in {"parent", "child"} : tty[p].fd = 0 => tty[p].save = "user"
  /\ termios = "raw" => /\ tty["parent"] = RawSaved /\ ~opts.driver
                        /\ kpc # "none" => tty["child"] = RawSaved
  /\ ppc \in {"pty_fork", "tty_raw", "driver"} => termios = "user"
  /\ ppc = "tty_raw" => ~opts.driver
  /\ ppc \in Starting => kpc = "none" /\ ~sigterm
  /\ kpc = "none" => /\ ppc \in Starting \cup {"done"}
                     /\ ppc = "done" => termios = "user"
  /\ kpc = "done" => termios = "user"
  /\ ppc = "done" /\ termios = "raw" => kpc = "exit"
  /\ sigterm /\ ~handler /\ ppc # "done" => kpc \in {"exit", "done"}
  /\ ~handler => ppc \in Starting \cup {"signal", "done"}
  /\ kpc = "killed" => ppc \in {"exit", "done"}

LEMMA TtyInitInv == Y!ptyInit => TtyInv
BY DEF Y!ptyInit, TtyInv, Starting, Modes, Y!NotSaved

LEMMA TtyNextInv == ASSUME TtyInv, Y!ptyNext PROVE TtyInv'
<1> USE DEF TtyInv, Starting, Y!terminal, Y!typing, Y!showing, Y!signals
<1>1. CASE Y!pty_fork BY <1>1 DEF Y!pty_fork
<1>2. CASE Y!MainRaw BY <1>2 DEF Y!MainRaw, Y!tty_raw, RawSaved, Modes
<1>3. CASE Y!do_driver BY <1>3 DEF Y!do_driver
<1>4. CASE Y!Fork BY <1>4 DEF Y!Fork
<1>5. CASE Y!signal_intr BY <1>5 DEF Y!signal_intr
<1>6. CASE Y!CopyOut BY <1>6 DEF Y!CopyOut
<1>7. CASE Y!CopyOutWrite BY <1>7 DEF Y!CopyOutWrite
<1>8. CASE Y!LoopEnds BY <1>8 DEF Y!LoopEnds, Y!TellChild
<1>9. CASE Y!MainExit BY <1>9 DEF Y!MainExit, Y!Exit, Y!tty_atexit, Y!tty_reset, RawSaved, Modes
<1>10. CASE Y!CopyInStep
  <2>1. CASE kpc = "exit"
    BY <1>10, <2>1 DEF Y!CopyInStep, Y!CopyIn, Y!Exit, Y!tty_atexit, Y!tty_reset, RawSaved, Modes
  <2>2. CASE kpc # "exit"
    BY <1>10, <2>2 DEF Y!CopyInStep, Y!CopyIn
  <2>3. QED BY <2>1, <2>2
<1>11. CASE Y!sig_term BY <1>11 DEF Y!sig_term
<1>12. CASE Y!Slave BY <1>12 DEF Y!Slave
<1>13. CASE Y!UserEof BY <1>13 DEF Y!UserEof
<1>14. QED
  BY <1>1, <1>2, <1>3, <1>4, <1>5, <1>6, <1>7, <1>8, <1>9, <1>10, <1>11, <1>12, <1>13
  DEF Y!ptyNext, Y!ParentStep

LEMMA TtyAlways == ProgSpec => [](TtyInv /\ Y!TtyRestored)
<1>1. ProgInit => TtyInv
  BY TtyInitInv DEF ProgInit
<1>2. TtyInv /\ [ProgNext]_allVars => TtyInv'
  <2> SUFFICES ASSUME TtyInv, [ProgNext]_allVars PROVE TtyInv'
    OBVIOUS
  <2>1. CASE Y!ptyNext BY <2>1, TtyNextInv
  <2>2. CASE UNCHANGED ptyVars
    BY <2>2 DEF ptyVars, TtyInv, Starting
  <2>3. QED BY <2>1, <2>2, PtySteps
<1>3. TtyInv => Y!TtyRestored
  BY DEF TtyInv, Starting, Y!TtyRestored, Y!Ended
<1>4. QED
  BY <1>1, <1>2, <1>3, PTL DEF ProgSpec

(* pty and call leave the user's terminal as it was once they have ended,  *)
(* whatever ended them, and call has it raw exactly while it copies.       *)
THEOREM TerminalTheorem == ProgSpec => []TerminalRight
BY SesAlways, TtyAlways, PTL DEF TerminalRight

-----------------------------------------------------------------------------
(* The two directions of pty.                                              *)
OutBytes == Elements(SlaveOut)
InBytes  == Elements(Typed)
CopyType ==
  /\ stdout \in Seq(OutBytes) /\ pbuff \in Seq(OutBytes) /\ ptyOut \in Seq(OutBytes)
  /\ left \in Seq(OutBytes)
  /\ ptyIn \in Seq(InBytes) /\ kbuff \in Seq(InBytes) /\ stdin \in Seq(InBytes)

(* Every byte is in one place, and the places are in order; a buffer is    *)
(* empty when it is read into, and the slave ends early only when nobody   *)
(* reads it any more.                                                      *)
Shown(a, b, c, d) == ((a \o b) \o c) \o d
CopyPlaces ==
  /\ Shown(stdout, pbuff, ptyOut, left) = SlaveOut
  /\ Shown(ptyIn, kbuff, stdin, << >>) = Typed
CopyPhase ==
  /\ ppc \in Starting \cup {"signal", "read"} => pbuff = << >>
  /\ kpc \in {"none", "read"} => kbuff = << >>
  /\ slave = "done" /\ ppc # "done" => left = << >>
  /\ ppc \in {"stop", "exit"} /\ sigcaught = 0 =>
       pbuff = << >> /\ ptyOut = << >> /\ left = << >> /\ slave = "done"
CopyInv == CopyType /\ CopyPlaces /\ CopyPhase

LEMMA CutSeq ==
  ASSUME NEW T, NEW s \in Seq(T), NEW n \in 1..Len(s)
  PROVE  /\ SubSeq(s, 1, n) \in Seq(T) /\ SubSeq(s, n + 1, Len(s)) \in Seq(T)
         /\ SubSeq(s, 1, n) \o SubSeq(s, n + 1, Len(s)) = s
<1>1. SubSeq(s, 1, n) \o SubSeq(s, n + 1, Len(s)) = SubSeq(s, 1, Len(s))
  BY ConcatAdjacentSubSeq
<1>2. SubSeq(s, 1, Len(s)) = s
  BY SubSeqFull
<1>3. SubSeq(s, 1, n) \in Seq(T)
  BY SubSeqProperties, LenProperties, ElementOfSeq
<1>4. SubSeq(s, n + 1, Len(s)) \in Seq(T)
  BY SubSeqProperties, LenProperties, ElementOfSeq
<1>5. QED
  BY <1>1, <1>2, <1>3, <1>4

Cat(a, b) == a \o b
LEMMA CatAssociative ==
  ASSUME NEW T, NEW a \in Seq(T), NEW b \in Seq(T), NEW c \in Seq(T)
  PROVE  Cat(Cat(a, b), c) = Cat(a, Cat(b, c))
BY ConcatAssociative DEF Cat

(* A part is cut off, moved, or written: the whole stays the same.         *)
LEMMA ShownCut ==
  ASSUME NEW T, NEW a \in Seq(T), NEW c \in Seq(T), NEW d \in Seq(T), NEW n \in 1..Len(c)
  PROVE  Shown(a, SubSeq(c, 1, n), SubSeq(c, n + 1, Len(c)), d) = Shown(a, << >>, c, d)
<1> DEFINE x == SubSeq(c, 1, n)
           y == SubSeq(c, n + 1, Len(c))
<1>1. x \in Seq(T) /\ y \in Seq(T) /\ x \o y = c
  BY CutSeq
<1> HIDE DEF x, y
<1>2. x \in Seq(T) /\ y \in Seq(T)
  BY <1>1
<1>3. Cat(Cat(a, x), y) = Cat(a, Cat(x, y))
  BY <1>2, CatAssociative
<1>4. a \o << >> = a
  BY ConcatEmptySeq
<1>5. QED BY <1>1, <1>3, <1>4 DEF x, y, Shown, Cat

LEMMA ShownWrite ==
  ASSUME NEW T, NEW a \in Seq(T), NEW b \in Seq(T), NEW c \in Seq(T), NEW d \in Seq(T)
  PROVE  Shown(a \o b, << >>, c, d) = Shown(a, b, c, d)
<1>1. a \o b \in Seq(T)
  BY ConcatProperties
<1>2. (a \o b) \o << >> = a \o b
  BY <1>1, ConcatEmptySeq
<1>3. QED BY <1>2 DEF Shown

(* The same with nothing behind it.                                        *)
LEMMA ShownCut3 ==
  ASSUME NEW T, NEW a \in Seq(T), NEW c \in Seq(T), NEW n \in 1..Len(c)
  PROVE  Shown(a, SubSeq(c, 1, n), SubSeq(c, n + 1, Len(c)), << >>) = Shown(a, << >>, c, << >>)
<1>1. << >> \in Seq(T) OBVIOUS
<1>2. QED BY <1>1, ShownCut
LEMMA ShownWrite3 ==
  ASSUME NEW T, NEW a \in Seq(T), NEW b \in Seq(T), NEW c \in Seq(T)
  PROVE  Shown(a \o b, << >>, c, << >>) = Shown(a, b, c, << >>)
<1>1. a \o b \in Seq(T)
  BY ConcatProperties
<1>2. (a \o b) \o << >> = a \o b
  BY <1>1, ConcatEmptySeq
<1>3. QED BY <1>2 DEF Shown

LEMMA ShownPut ==
  ASSUME NEW T, NEW a \in Seq(T), NEW b \in Seq(T), NEW c \in Seq(T), NEW d \in Seq(T), d # << >>
  PROVE  /\ Append(c, Head(d)) \in Seq(T) /\ Tail(d) \in Seq(T)
         /\ Shown(a, b, Append(c, Head(d)), Tail(d)) = Shown(a, b, c, d)
<1> DEFINE h == Head(d)
           r == Tail(d)
           p == a \o b
<1>1. h \in T /\ r \in Seq(T) /\ <<h>> \in Seq(T) /\ p \in Seq(T)
  BY HeadTailProperties, ConcatProperties
<1>2. <<h>> \o r = d
  BY HeadTailProperties
<1>3. Append(c, h) = c \o <<h>> /\ Append(c, h) \in Seq(T)
  BY <1>1, AppendIsConcat, AppendProperties
<1>4. p \o c \in Seq(T)
  BY <1>1, ConcatProperties
<1> HIDE DEF h, r, p
<1>5. p \o (c \o <<h>>) = (p \o c) \o <<h>>
  BY <1>1, ConcatAssociative
<1>6. ((p \o c) \o <<h>>) \o r = (p \o c) \o (<<h>> \o r)
  BY <1>1, <1>4, ConcatAssociative, SMTT(20)
<1>7. (p \o Append(c, h)) \o r = (p \o c) \o d
  BY <1>2, <1>3, <1>5, <1>6
<1>8. QED
  BY <1>1, <1>3, <1>7 DEF h, r, p, Shown

LEMMA ShownPrefix ==
  ASSUME NEW T, NEW a \in Seq(T), NEW b \in Seq(T), NEW c \in Seq(T), NEW d \in Seq(T)
  PROVE  Y!IsPrefix(a, Shown(a, b, c, d))
<1> DEFINE p == a \o b
           q == c \o d
           w == b \o q
<1>1. p \in Seq(T) /\ q \in Seq(T) /\ w \in Seq(T)
  BY ConcatProperties
<1>2. (p \o c) \o d = p \o q
  BY <1>1, ConcatAssociative
<1>3. p \o q = a \o w
  BY <1>1, ConcatAssociative
<1>4. Shown(a, b, c, d) = a \o w
  BY <1>2, <1>3 DEF Shown
<1> HIDE DEF w
<1>5. Len(a) <= Len(a \o w) /\ Len(a) \in Nat
  BY <1>1, ConcatProperties, LenProperties
<1>6. SubSeq(a \o w, 1, Len(a)) = SubSeq(a, 1, Len(a))
  <2>1. CASE a = << >>
    BY <2>1, SubSeqEmpty
  <2>2. CASE a # << >>
    <3>1. Len(a) \in 1..Len(a) /\ 1 \in 1..Len(a)
      BY <2>2, EmptySeq
    <3>2. QED BY <1>1, <3>1, SubSeqOfConcat1
  <2>3. QED BY <2>1, <2>2
<1>7. QED BY <1>4, <1>5, <1>6 DEF Y!IsPrefix

LEMMA ShownAll ==
  ASSUME NEW T, NEW a \in Seq(T) PROVE Shown(a, << >>, << >>, << >>) = a
<1>1. a \o << >> = a
  BY ConcatEmptySeq
<1>2. QED BY <1>1 DEF Shown
LEMMA ShownNone ==
  ASSUME NEW T, NEW a \in Seq(T)
  PROVE  Shown(<< >>, << >>, << >>, a) = a /\ Shown(<< >>, << >>, a, << >>) = a
<1>1. << >> \o a = a /\ a \o << >> = a /\ << >> \o << >> = << >>
  BY ConcatEmptySeq
<1>2. QED BY <1>1 DEF Shown

LEMMA CopyInitInv == Y!ptyInit => CopyInv
<1> SUFFICES ASSUME Y!ptyInit PROVE CopyInv
  OBVIOUS
<1>1. SlaveOut \in Seq(OutBytes) /\ Typed \in Seq(InBytes)
  BY PtyAssumption DEF OutBytes, InBytes
<1>2. CopyType BY <1>1 DEF Y!ptyInit, CopyType
<1>3. CopyPlaces
  BY <1>1, ShownNone DEF Y!ptyInit, CopyPlaces
<1>4. CopyPhase BY DEF Y!ptyInit, CopyPhase, Starting
<1>5. QED BY <1>2, <1>3, <1>4 DEF CopyInv

outward == <<stdout, pbuff, ptyOut, left>>
inward  == <<ptyIn, kbuff, stdin>>

(* Steps that move no byte.                                                *)
LEMMA CopyStill ==
  ASSUME CopyInv, UNCHANGED <<outward, inward>>, CopyPhase' PROVE CopyInv'
BY DEF CopyInv, CopyType, CopyPlaces, outward, inward

LEMMA CopyOutStep == ASSUME CopyInv, TtyInv, Y!CopyOut PROVE CopyInv'
<1> USE DEF Y!CopyOut, Y!terminal, Y!typing, Y!signals
<1>1. CASE ptyOut = << >> /\ slave = "done" /\ ppc' = "stop" /\ UNCHANGED <<pbuff, ptyOut>>
  BY <1>1, CopyStill DEF CopyInv, CopyPhase, Starting, outward, inward
<1>2. ASSUME NEW n \in 1..Len(ptyOut), pbuff' = SubSeq(ptyOut, 1, n), ppc' = "write",
             ptyOut' = SubSeq(ptyOut, n + 1, Len(ptyOut))
      PROVE  CopyInv'
  <2>1. pbuff' \in Seq(OutBytes) /\ ptyOut' \in Seq(OutBytes)
    BY <1>2, CutSeq DEF CopyInv, CopyType
  <2>2. pbuff = << >> /\ ppc = "read" BY DEF CopyInv, CopyPhase
  <2>3. Shown(stdout, pbuff', ptyOut', left) = Shown(stdout, pbuff, ptyOut, left)
    BY <1>2, <2>2, ShownCut DEF CopyInv, CopyType
  <2>4. CopyType' /\ CopyPlaces'
    BY <2>1, <2>3 DEF CopyInv, CopyType, CopyPlaces
  <2>5. CopyPhase'
    BY <1>2, <2>2 DEF CopyInv, CopyPhase, Starting
  <2>6. QED BY <2>4, <2>5 DEF CopyInv
<1>3. QED BY <1>1, <1>2

LEMMA CopyWriteStep == ASSUME CopyInv, Y!CopyOutWrite PROVE CopyInv'
<1> USE DEF Y!CopyOutWrite, Y!Written, Y!terminal, Y!typing, Y!signals
<1>1. CASE ppc' = "done" /\ UNCHANGED <<pbuff, stdout>>
  BY <1>1, CopyStill DEF CopyInv, CopyPhase, Starting, outward, inward
<1>2. CASE stdout' = stdout \o pbuff /\ pbuff' = << >> /\ ppc' = "read"
  <2>1. stdout' \in Seq(OutBytes) /\ pbuff' \in Seq(OutBytes)
    BY <1>2, ConcatProperties DEF CopyInv, CopyType
  <2>5. Shown(stdout', pbuff', ptyOut, left) = Shown(stdout, pbuff, ptyOut, left)
    BY <1>2, ShownWrite DEF CopyInv, CopyType
  <2>2. CopyType' /\ CopyPlaces'
    BY <2>1, <2>5 DEF CopyInv, CopyType, CopyPlaces
  <2>3. CopyPhase'
    BY <1>2 DEF CopyInv, CopyPhase, Starting
  <2>4. QED BY <2>2, <2>3 DEF CopyInv
<1>3. QED BY <1>1, <1>2

LEMMA CopyInStepInv == ASSUME CopyInv, TtyInv, Y!CopyInStep PROVE CopyInv'
<1> USE DEF Y!CopyInStep, Y!showing
<1>1. ASSUME kpc = "read", NEW n \in 1..Len(stdin), kbuff' = SubSeq(stdin, 1, n), kpc' = "write",
             stdin' = SubSeq(stdin, n + 1, Len(stdin)), UNCHANGED ptyIn
      PROVE  CopyInv'
  <2>1. kbuff' \in Seq(InBytes) /\ stdin' \in Seq(InBytes) /\ << >> \in Seq(InBytes)
    BY <1>1, CutSeq DEF CopyInv, CopyType
  <2>2. kbuff = << >> BY <1>1 DEF CopyInv, CopyPhase
  <2>3. Shown(ptyIn, kbuff', stdin', << >>) = Shown(ptyIn, kbuff, stdin, << >>)
    BY <1>1, <2>2, ShownCut3 DEF CopyInv, CopyType
  <2>4. CopyType' /\ CopyPlaces'
    BY <1>1, <2>1, <2>3 DEF CopyInv, CopyType, CopyPlaces
  <2>5. CopyPhase'
    BY <1>1 DEF CopyInv, CopyPhase, Starting
  <2>6. QED BY <2>4, <2>5 DEF CopyInv
<1>2. CASE ptyIn' = ptyIn \o kbuff /\ kbuff' = << >> /\ kpc' = "read" /\ UNCHANGED stdin
  <2>1. ptyIn' \in Seq(InBytes) /\ kbuff' \in Seq(InBytes) /\ << >> \in Seq(InBytes)
    BY <1>2, ConcatProperties DEF CopyInv, CopyType
  <2>5. Shown(ptyIn', kbuff', stdin, << >>) = Shown(ptyIn, kbuff, stdin, << >>)
    BY <1>2, ShownWrite3 DEF CopyInv, CopyType
  <2>2. CopyType' /\ CopyPlaces'
    BY <1>2, <2>1, <2>5 DEF CopyInv, CopyType, CopyPlaces
  <2>3. CopyPhase'
    BY <1>2 DEF CopyInv, CopyPhase, Starting
  <2>4. QED BY <2>2, <2>3 DEF CopyInv
<1>3. CASE kpc' \in {"eof", "exit", "done"} /\ UNCHANGED <<stdin, ptyIn, kbuff>>
  BY <1>3, CopyStill DEF CopyInv, CopyPhase, Starting, outward, inward
<1>4. QED BY <1>1, <1>2, <1>3 DEF Y!CopyIn

LEMMA SlaveStep == ASSUME CopyInv, Y!Slave PROVE CopyInv'
<1> USE DEF Y!Slave, Y!terminal, Y!typing, Y!signals
<1>1. CASE (left = << >> \/ Y!Ended) /\ slave' = "done" /\ UNCHANGED <<ptyOut, left>>
  BY <1>1, CopyStill DEF CopyInv, CopyPhase, Starting, outward, inward, Y!Ended
<1>2. CASE left # << >> /\ ptyOut' = Append(ptyOut, Head(left)) /\ left' = Tail(left) /\ UNCHANGED slave
  <2>1. /\ ptyOut' \in Seq(OutBytes) /\ left' \in Seq(OutBytes)
        /\ Shown(stdout, pbuff, ptyOut', left') = Shown(stdout, pbuff, ptyOut, left)
    BY <1>2, ShownPut DEF CopyInv, CopyType
  <2>4. CopyType' /\ CopyPlaces'
    BY <2>1 DEF CopyInv, CopyType, CopyPlaces
  <2>5. CopyPhase'
    BY <1>2 DEF CopyInv, CopyPhase, Starting
  <2>6. QED BY <2>4, <2>5 DEF CopyInv
<1>3. QED BY <1>1, <1>2

LEMMA CopyNextInv == ASSUME CopyInv, TtyInv, Y!ptyNext PROVE CopyInv'
<1>1. CASE Y!CopyOut BY <1>1, CopyOutStep
<1>2. CASE Y!CopyOutWrite BY <1>2, CopyWriteStep
<1>3. CASE Y!CopyInStep BY <1>3, CopyInStepInv
<1>4. CASE Y!Slave BY <1>4, SlaveStep
<1> USE CopyStill DEF CopyInv, CopyPhase, TtyInv, Starting, outward, inward, Y!terminal, Y!typing,
        Y!showing, Y!signals
<1>5. CASE Y!pty_fork BY <1>5 DEF Y!pty_fork
<1>6. CASE Y!MainRaw BY <1>6 DEF Y!MainRaw
<1>7. CASE Y!do_driver BY <1>7 DEF Y!do_driver
<1>8. CASE Y!Fork BY <1>8 DEF Y!Fork
<1>9. CASE Y!signal_intr BY <1>9 DEF Y!signal_intr
<1>10. CASE Y!LoopEnds BY <1>10 DEF Y!LoopEnds, Y!TellChild
<1>11. CASE Y!MainExit BY <1>11 DEF Y!MainExit
<1>12. CASE Y!sig_term BY <1>12 DEF Y!sig_term
<1>13. CASE Y!UserEof BY <1>13 DEF Y!UserEof
<1>14. QED
  BY <1>1, <1>2, <1>3, <1>4, <1>5, <1>6, <1>7, <1>8, <1>9, <1>10, <1>11, <1>12, <1>13
  DEF Y!ptyNext, Y!ParentStep

LEMMA CopyProps == CopyInv => Y!CopiesInOrder
<1> SUFFICES ASSUME CopyInv PROVE Y!CopiesInOrder
  OBVIOUS
<1> USE DEF CopyInv, CopyType
<1>3. Y!IsPrefix(stdout, SlaveOut)
  BY ShownPrefix DEF CopyPlaces
<1>5. Y!IsPrefix(ptyIn, Typed)
  <2>1. << >> \in Seq(InBytes) OBVIOUS
  <2>2. QED BY <2>1, ShownPrefix DEF CopyPlaces
<1>6. ASSUME ppc \in {"stop", "exit"}, sigcaught = 0 PROVE stdout = SlaveOut
  BY <1>6, ShownAll DEF CopyPhase, CopyPlaces
<1>7. QED BY <1>3, <1>5, <1>6 DEF Y!CopiesInOrder

(* pty copies both directions in order, and the slave's output completely  *)
(* unless SIGTERM cut the copying short, whatever the sizes of the reads.  *)
THEOREM CopiesTheorem == ProgSpec => []CopiesInOrder
<1>1. ProgInit => CopyInv
  BY CopyInitInv DEF ProgInit
<1>2. CopyInv /\ TtyInv /\ [ProgNext]_allVars => CopyInv'
  <2> SUFFICES ASSUME CopyInv, TtyInv, [ProgNext]_allVars PROVE CopyInv'
    OBVIOUS
  <2>1. CASE Y!ptyNext BY <2>1, CopyNextInv
  <2>2. CASE UNCHANGED ptyVars
    BY <2>2 DEF ptyVars, CopyInv, CopyType, CopyPlaces, CopyPhase
  <2>3. QED BY <2>1, <2>2, PtySteps
<1>3. CopyInv => CopiesInOrder
  BY CopyProps DEF CopiesInOrder
<1>4. QED
  BY <1>1, <1>2, <1>3, TtyAlways, PTL DEF ProgSpec
===============================================================================
