---------------------------- MODULE LprpsProofs -----------------------------
(***************************************************************************)
(* The printer filter, for every job, every size of its buffer, every set  *)
(* of page counts and any number of unsolicited items and interrupts: the  *)
(* job goes out whole, only the answer to its own EOF ends it, and it is   *)
(* charged at most once and with both page counts.                         *)
(***************************************************************************)
EXTENDS Lprps, SequenceTheorems, TLAPS

Chars == {File[i] : i \in DOMAIN File}
Items == MessageKeys \cup {"char", "eof"}

(* The types of the variables the properties are about.                    *)
LpType ==
  /\ ptr \in {"start", "end"}
  /\ page \in [{"start", "end"} -> Int] /\ charged \in Seq(Int)
  /\ file \in Seq(Chars) /\ outbuf \in Seq(Chars) /\ printed \in Seq(Chars)
  /\ line \in Seq(Items) /\ ibuf \in Seq(Items) /\ owed \in Nat

-----------------------------------------------------------------------------
(* What has been read of the job is in the buffer or with the printer, and *)
(* the EOF of the job is written with an empty buffer.  The loop of        *)
(* send_file never leaves the buffer empty once it has read something, so  *)
(* out_buf meets a SIGINT that ended the loop with a character to write    *)
(* (and does not return), or nothing at all has been read.                 *)
Whole(p, o, f) == p \o o \o f
Ending  == lpc \in {"send_eof", "send_upto"}
Before  == \/ lpc \in {"main", "gs_write", "gs_read", "gs_eof"}
           \/ ptr = "start" /\ lpc \in {"gp_write", "gp_read", "gp_eof", "gp_upto"}
Nothing == outbuf = << >> => printed = << >>
JobInv ==
  /\ Whole(printed, outbuf, file) = File
  /\ Ending => outbuf = << >> /\ getc # "ok"
  /\ getc = "eof" => file = << >>
  /\ lpc = "send" => getc = "ok" /\ sel = "no" /\ ibuf = << >> /\ Nothing
  /\ lpc = "out" /\ getc = "ok" => file # << >>
  /\ lpc = "out" /\ getc = "intr" => intr_flag /\ sel = "no" /\ ibuf = << >> /\ Nothing
  /\ Ending /\ getc = "intr" => intr_flag /\ sel = "no" /\ ibuf = << >> /\ printed = << >>
  /\ lpc = "send_upto" /\ getc = "intr" => ~eof
  /\ Before => getc = "ok" /\ printed = << >>

(* The accounting entry and the end of the filter come together.           *)
ExitInv ==
  /\ exit = "SUCCESS" => lpc = "exit"
  /\ charged # << >> => /\ lpc = "exit" /\ exit \in {"SUCCESS", "THROW_AWAY"}
                        /\ Len(charged) = 1

(* Counting is for the first of the two counts that is missing: once the   *)
(* query for the last count has been sent, that count is there only when   *)
(* the first one is, and get_page does not go on without it.               *)
CountInv ==
  /\ ptr = "end" /\ lpc \in {"gp_read", "gp_eof", "gp_upto", "acct"} =>
       (page["end"] >= 0 => page["start"] >= 0)
  /\ ptr = "end" /\ lpc \in {"gp_eof", "gp_upto"} => page["end"] >= 0
  /\ lpc = "acct" => ptr = "end" /\ page["end"] >= 0
  /\ exit = "SUCCESS" => page["start"] >= 0 /\ page["end"] >= 0

-----------------------------------------------------------------------------
NoEof(s)  == \A i \in 1..Len(s) : s[i] # "eof"
OneEof(s) == \E i \in 1..Len(s) : s[i] = "eof" /\ \A j \in 1..Len(s) : j # i => s[j] # "eof"

(* The EOFs between the filter and the printer: none, or exactly one.      *)
NoneOut == owed = 0 /\ NoEof(line) /\ NoEof(ibuf)
OneOut  == \/ owed = 1 /\ NoEof(line) /\ NoEof(ibuf)
           \/ owed = 0 /\ OneEof(line) /\ NoEof(ibuf)
           \/ owed = 0 /\ NoEof(line) /\ OneEof(ibuf)

(* Until the job's EOF is written an EOF is under way only while get_page  *)
(* waits for it, and afterwards only while send_file does.  A read follows *)
(* only when what was read before has been processed.                      *)
EofInv ==
  /\ sel = "in" => ibuf = << >>
  /\ lpc \in {"main", "gs_write", "gs_read", "gs_eof"} => ptr = "start"
  /\ lpc \in {"main", "gs_write", "gs_read", "gs_eof", "send", "out", "send_eof"} => NoneOut
  /\ ptr = "start" /\ lpc \in {"gp_write", "gp_read", "gp_eof"} => NoneOut
  /\ lpc = "send_upto" => IF eof THEN NoneOut ELSE OneOut
  /\ ptr = "start" /\ lpc = "gp_upto" => IF eof THEN NoneOut ELSE OneOut

LpInv == LpType /\ JobInv /\ ExitInv /\ CountInv /\ EofInv /\ JobNotTimed

-----------------------------------------------------------------------------
(* Sequences.                                                              *)
LEMMA AppendHead ==
  ASSUME NEW S, NEW p \in Seq(S), NEW o \in Seq(S), NEW f \in Seq(S), f # << >>
  PROVE  Whole(p, Append(o, Head(f)), Tail(f)) = Whole(p, o, f)
<1> DEFINE a == p \o Append(o, Head(f)) \o Tail(f)
           b == p \o o \o f
<1>1. /\ Append(o, Head(f)) \in Seq(S) /\ Tail(f) \in Seq(S)
      /\ Len(Append(o, Head(f))) = Len(o) + 1 /\ Len(Tail(f)) = Len(f) - 1
  OBVIOUS
<1>2. /\ a \in Seq(S) /\ b \in Seq(S) /\ Len(a) = Len(p) + Len(o) + Len(f) /\ Len(b) = Len(a)
  BY <1>1
<1>3. ASSUME NEW i \in 1..Len(a) PROVE a[i] = b[i]
  <2>1. CASE i <= Len(p)
    BY <1>1, <1>2, <2>1
  <2>2. CASE Len(p) < i /\ i <= Len(p) + Len(o)
    BY <1>1, <1>2, <2>2
  <2>3. CASE i = Len(p) + Len(o) + 1
    BY <1>1, <1>2, <2>3
  <2>4. CASE i > Len(p) + Len(o) + 1
    BY <1>1, <1>2, <2>4
  <2>5. QED
    BY <2>1, <2>2, <2>3, <2>4, <1>2
<1> HIDE DEF a, b
<1>4. a = b
  BY <1>2, <1>3, SeqEqual
<1>5. QED
  BY <1>4 DEF a, b, Whole

Halves(a, b, o) ==
  /\ Len(o) = Len(a) + Len(b)
  /\ \A i \in 1..Len(a) : a[i] = o[i]
  /\ \A i \in 1..Len(b) : b[i] = o[Len(a) + i]
Sent(p, a, b, f) == p \o a \o b \o f

LEMMA JoinHalves ==
  ASSUME NEW S, NEW p \in Seq(S), NEW a \in Seq(S), NEW b \in Seq(S), NEW o \in Seq(S),
         NEW f \in Seq(S), Halves(a, b, o)
  PROVE  Sent(p, a, b, f) = Whole(p, o, f)
<1> DEFINE x == p \o a \o b \o f
           y == p \o o \o f
<1>1. /\ Len(o) = Len(a) + Len(b)
      /\ \A i \in 1..Len(a) : a[i] = o[i]
      /\ \A i \in 1..Len(b) : b[i] = o[Len(a) + i]
  BY DEF Halves
<1>2. /\ x \in Seq(S) /\ y \in Seq(S) /\ Len(x) = Len(p) + Len(o) + Len(f) /\ Len(y) = Len(x)
  BY <1>1
<1>3. ASSUME NEW i \in 1..Len(x) PROVE x[i] = y[i]
  <2>1. CASE i <= Len(p)
    BY <1>1, <1>2, <2>1
  <2>2. CASE Len(p) < i /\ i <= Len(p) + Len(a)
    <3>1. i - Len(p) \in 1..Len(a)
      BY <1>1, <1>2, <2>2
    <3>2. x[i] = a[i - Len(p)]
      BY <1>1, <1>2, <2>2
    <3>3. y[i] = o[i - Len(p)]
      BY <1>1, <1>2, <2>2
    <3>4. QED
      BY <1>1, <3>1, <3>2, <3>3
  <2>3. CASE Len(p) + Len(a) < i /\ i <= Len(p) + Len(o)
    <3>1. i - Len(p) - Len(a) \in 1..Len(b)
      BY <1>1, <1>2, <2>3
    <3>2. x[i] = b[i - Len(p) - Len(a)]
      BY <1>1, <1>2, <2>3
    <3>3. y[i] = o[i - Len(p)]
      BY <1>1, <1>2, <2>3
    <3>4. Len(a) + (i - Len(p) - Len(a)) = i - Len(p)
      BY <1>1, <1>2
    <3>5. QED
      BY <1>1, <3>1, <3>2, <3>3, <3>4
  <2>4. CASE i > Len(p) + Len(o)
    BY <1>1, <1>2, <2>4
  <2>5. \/ i <= Len(p)
        \/ Len(p) < i /\ i <= Len(p) + Len(a)
        \/ Len(p) + Len(a) < i /\ i <= Len(p) + Len(o)
        \/ i > Len(p) + Len(o)
    BY <1>1, <1>2
  <2>6. QED
    BY <2>1, <2>2, <2>3, <2>4, <2>5
<1>4. x = y
  <2> HIDE DEF x, y
  <2>1. QED
    BY <1>1, <1>2, <1>3, SeqEqual
<1>5. QED
  BY <1>4 DEF Whole, Sent

LEMMA SplitBuffer ==
  ASSUME NEW S, NEW p \in Seq(S), NEW o \in Seq(S), NEW f \in Seq(S), NEW n \in 1..Len(o)
  PROVE  /\ SubSeq(o, 1, n) \in Seq(S) /\ SubSeq(o, n + 1, Len(o)) \in Seq(S)
         /\ p \o SubSeq(o, 1, n) \in Seq(S)
         /\ Whole(p \o SubSeq(o, 1, n), SubSeq(o, n + 1, Len(o)), f) = Whole(p, o, f)
<1> DEFINE a == SubSeq(o, 1, n)
           b == SubSeq(o, n + 1, Len(o))
<1>1. a \in Seq(S) /\ b \in Seq(S) /\ Len(o) = Len(a) + Len(b)
  OBVIOUS
<1>2. \A i \in 1..Len(a) : a[i] = o[i]
  OBVIOUS
<1>3. \A i \in 1..Len(b) : b[i] = o[Len(a) + i]
  OBVIOUS
<1> HIDE DEF a, b
<1>4. Sent(p, a, b, f) = Whole(p, o, f)
  <2>1. Halves(a, b, o)
    BY <1>1, <1>2, <1>3 DEF Halves
  <2>2. QED
    BY <1>1, <2>1, JoinHalves
<1>5. Whole(p \o a, b, f) = Sent(p, a, b, f)
  BY DEF Whole, Sent
<1>6. p \o a \in Seq(S)
  BY <1>1, ConcatProperties, Zenon
<1>7. QED
  BY <1>1, <1>4, <1>5, <1>6, Zenon DEF a, b

(* Taking the first item away, or adding one that is not an EOF.           *)
LEMMA TailEof ==
  ASSUME NEW S, NEW s \in Seq(S), s # << >>
  PROVE  /\ Tail(s) \in Seq(S)
         /\ NoEof(s) => Head(s) # "eof" /\ NoEof(Tail(s))
         /\ OneEof(s) => IF Head(s) = "eof" THEN NoEof(Tail(s)) ELSE OneEof(Tail(s))
<1>1. /\ Tail(s) \in Seq(S) /\ Len(Tail(s)) = Len(s) - 1 /\ Head(s) = s[1]
      /\ Len(s) \in Nat /\ Len(s) >= 1 /\ \A i \in 1..(Len(s) - 1) : Tail(s)[i] = s[i + 1]
  OBVIOUS
<1>2. NoEof(s) => Head(s) # "eof" /\ NoEof(Tail(s))
  BY <1>1 DEF NoEof
<1>3. ASSUME OneEof(s) PROVE IF Head(s) = "eof" THEN NoEof(Tail(s)) ELSE OneEof(Tail(s))
  <2>1. PICK i \in 1..Len(s) : s[i] = "eof" /\ \A j \in 1..Len(s) : j # i => s[j] # "eof"
    BY <1>3 DEF OneEof
  <2>2. CASE i = 1
    BY <1>1, <2>1, <2>2 DEF NoEof
  <2>3. CASE i # 1
    <3>1. i - 1 \in 1..Len(Tail(s)) /\ Tail(s)[i - 1] = "eof"
      BY <1>1, <2>1, <2>3
    <3>2. \A j \in 1..Len(Tail(s)) : j # i - 1 => Tail(s)[j] # "eof"
      BY <1>1, <2>1, <2>3
    <3>3. Head(s) # "eof"
      BY <1>1, <2>1, <2>3
    <3>4. QED
      BY <3>1, <3>2, <3>3 DEF OneEof
  <2>4. QED
    BY <2>2, <2>3
<1>4. QED
  BY <1>1, <1>2, <1>3

LEMMA AppendEof ==
  ASSUME NEW S, NEW s \in Seq(S), NEW e \in S
  PROVE  /\ Append(s, e) \in Seq(S)
         /\ NoEof(s) /\ e # "eof" => NoEof(Append(s, e))
         /\ NoEof(s) /\ e = "eof" => OneEof(Append(s, e))
         /\ OneEof(s) /\ e # "eof" => OneEof(Append(s, e))
<1>1. /\ Append(s, e) \in Seq(S) /\ Len(Append(s, e)) = Len(s) + 1 /\ Len(s) \in Nat
      /\ Append(s, e)[Len(s) + 1] = e /\ \A i \in 1..Len(s) : Append(s, e)[i] = s[i]
  OBVIOUS
<1>2. NoEof(s) /\ e # "eof" => NoEof(Append(s, e))
  BY <1>1 DEF NoEof
<1>3. NoEof(s) /\ e = "eof" => OneEof(Append(s, e))
  BY <1>1 DEF NoEof, OneEof
<1>4. ASSUME OneEof(s), e # "eof" PROVE OneEof(Append(s, e))
  <2>1. PICK i \in 1..Len(s) : s[i] = "eof" /\ \A j \in 1..Len(s) : j # i => s[j] # "eof"
    BY <1>4 DEF OneEof
  <2>2. i \in 1..Len(Append(s, e)) /\ Append(s, e)[i] = "eof"
    BY <1>1, <2>1
  <2>3. \A j \in 1..Len(Append(s, e)) : j # i => Append(s, e)[j] # "eof"
    BY <1>1, <1>4, <2>1
  <2>4. QED
    BY <2>2, <2>3 DEF OneEof
<1>5. QED
  BY <1>1, <1>2, <1>3, <1>4

(* A read cuts what is on the line in two.                                 *)
LEMMA CutEof ==
  ASSUME NEW S, NEW s \in Seq(S), NEW n \in 1..Len(s)
  PROVE  LET a == SubSeq(s, 1, n)
             b == SubSeq(s, n + 1, Len(s))
         IN  /\ a \in Seq(S) /\ b \in Seq(S)
             /\ NoEof(s) => NoEof(a) /\ NoEof(b)
             /\ OneEof(s) => (NoEof(a) /\ OneEof(b)) \/ (OneEof(a) /\ NoEof(b))
<1> DEFINE a == SubSeq(s, 1, n)
           b == SubSeq(s, n + 1, Len(s))
<1>1. /\ a \in Seq(S) /\ b \in Seq(S) /\ Len(a) = n /\ Len(b) = Len(s) - n /\ Len(s) \in Nat
      /\ \A i \in 1..n : a[i] = s[i]
      /\ \A i \in 1..(Len(s) - n) : b[i] = s[n + i]
  OBVIOUS
<1> HIDE DEF a, b
<1>2. NoEof(s) => NoEof(a) /\ NoEof(b)
  BY <1>1 DEF NoEof
<1>3. ASSUME OneEof(s) PROVE (NoEof(a) /\ OneEof(b)) \/ (OneEof(a) /\ NoEof(b))
  <2>1. PICK i \in 1..Len(s) : s[i] = "eof" /\ \A j \in 1..Len(s) : j # i => s[j] # "eof"
    BY <1>3 DEF OneEof
  <2>2. CASE i <= n
    <3>1. i \in 1..Len(a) /\ a[i] = "eof" /\ \A j \in 1..Len(a) : j # i => a[j] # "eof"
      BY <1>1, <2>1, <2>2
    <3>2. NoEof(b)
      BY <1>1, <2>1, <2>2 DEF NoEof
    <3>3. QED
      BY <3>1, <3>2 DEF OneEof
  <2>3. CASE i > n
    <3>1. i - n \in 1..Len(b) /\ b[i - n] = "eof"
      <4>1. i - n \in 1..(Len(s) - n) /\ n + (i - n) = i
        BY <1>1, <2>3
      <4>2. QED
        BY <4>1, <1>1, <2>1
    <3>2. ASSUME NEW j \in 1..Len(b), j # i - n PROVE b[j] # "eof"
      <4>1. n + j \in 1..Len(s) /\ n + j # i
        BY <1>1, <2>3, <3>2
      <4>2. QED
        BY <4>1, <1>1, <2>1
    <3>3. NoEof(a)
      BY <1>1, <2>1, <2>3 DEF NoEof
    <3>4. QED
      BY <3>1, <3>2, <3>3 DEF OneEof
  <2>4. QED
    BY <1>1, <2>2, <2>3
<1>4. QED
  BY <1>1, <1>2, <1>3 DEF a, b

LEMMA EmptyEof ==
  ASSUME NEW s, s = << >>
  PROVE  s \in Seq(Items) /\ Len(s) = 0 /\ NoEof(s) /\ ~OneEof(s)
<1>1. << >> \in Seq(Items) /\ Len(<< >>) = 0
  OBVIOUS
<1>2. NoEof(<< >>) /\ ~OneEof(<< >>)
  BY DEF NoEof, OneEof
<1>3. QED
  BY <1>1, <1>2, Zenon

-----------------------------------------------------------------------------
(* The steps of the filter.                                                *)
LEMMA InitStep ==
  ASSUME NEW S, File \in Seq(S), lprpsInit PROVE LpInv
<1>1. File \in Seq(Chars) /\ << >> \in Seq(Chars) /\ << >> \in Seq(Items)
  <2>1. File = [i \in 1..Len(File) |-> File[i]] /\ Len(File) \in Nat
    OBVIOUS
  <2>2. \A i \in 1..Len(File) : File[i] \in Chars
    BY DEF Chars
  <2>3. QED
    BY <2>1, <2>2
<1>2. LpType
  BY <1>1 DEF lprpsInit, LpType
<1>3. JobInv
  <2>1. << >> \o << >> \o File = File
    BY <1>1
  <2>2. QED
    BY <2>1 DEF lprpsInit, JobInv, Ending, Before, Nothing, Whole
<1>4. ExitInv /\ CountInv /\ JobNotTimed
  BY DEF lprpsInit, ExitInv, CountInv, JobNotTimed
<1>5. EofInv
  BY EmptyEof DEF lprpsInit, EofInv, NoneOut
<1>6. QED
  BY <1>2, <1>3, <1>4, <1>5 DEF LpInv

LEMMA MainStep ==
  ASSUME LpInv, Main PROVE LpInv'
<1> USE DEF Main, Exit, set_alrm, tty_flush, signals, input, serial, output, results, bounds
<1>1. LpType'
  BY EmptyEof DEF LpInv, LpType
<1>2. JobInv' /\ ExitInv' /\ CountInv' /\ JobNotTimed'
  BY DEF LpInv, JobInv, Ending, Before, Nothing, ExitInv, CountInv, JobNotTimed
<1>3. EofInv'
  BY EmptyEof DEF LpInv, LpType, EofInv, NoneOut
<1>4. QED
  BY <1>1, <1>2, <1>3 DEF LpInv

LEMMA WriteStep ==
  ASSUME LpInv, block_write PROVE LpInv'
<1> USE DEF block_write, Exit, init_input, signals, input, output, results, bounds
<1>1. LpType'
  BY EmptyEof DEF LpInv, LpType
<1>2. JobInv' /\ ExitInv' /\ JobNotTimed'
  BY DEF LpInv, JobInv, Ending, Before, Nothing, ExitInv, JobNotTimed, AfterWrite
<1>3. CountInv'
  BY DEF LpInv, LpType, CountInv, ExitInv, AfterWrite
<1>4. EofInv'
  BY DEF LpInv, LpType, EofInv, NoneOut, OneOut, AfterWrite, WritesEof
<1>5. QED
  BY <1>1, <1>2, <1>3, <1>4 DEF LpInv

LEMMA InterruptedStep ==
  ASSUME LpInv, WriteInterrupted PROVE LpInv'
<1> USE DEF WriteInterrupted, Exit, signals, input, serial, output, results, bounds
<1>1. LpType'
  BY EmptyEof DEF LpInv, LpType
<1>2. JobInv' /\ ExitInv' /\ CountInv' /\ JobNotTimed' /\ EofInv'
  BY DEF LpInv, JobInv, Ending, Before, Nothing, ExitInv, CountInv, JobNotTimed, EofInv, AfterWrite
<1>3. QED
  BY <1>1, <1>2 DEF LpInv

LEMMA SomeInputStep ==
  ASSUME LpInv, proc_some_input PROVE LpInv'
<1> USE DEF proc_some_input, handle_intr, Exit, set_alrm, tty_flush, signals, input, serial,
            output, results, bounds
<1>1. LpType'
  BY EmptyEof DEF LpInv, LpType
<1>2. JobInv' /\ ExitInv' /\ CountInv' /\ JobNotTimed'
  BY DEF LpInv, JobInv, Ending, Before, Nothing, ExitInv, CountInv, JobNotTimed, Reading
<1>3. EofInv'
  BY DEF LpInv, EofInv, NoneOut, OneOut
<1>4. QED
  BY <1>1, <1>2, <1>3 DEF LpInv

LEMMA ReadStep ==
  ASSUME LpInv, Read PROVE LpInv'
<1> USE DEF Read, signals, input, output, results, bounds
<1>1. PICK n \in 1..Len(line) :
        ibuf' = SubSeq(line, 1, n) /\ line' = SubSeq(line, n + 1, Len(line))
  OBVIOUS
<1>2. LpType'
  BY <1>1, CutEof DEF LpInv, LpType
<1>3. JobInv' /\ ExitInv' /\ CountInv' /\ JobNotTimed'
  BY DEF LpInv, JobInv, Ending, Before, Nothing, ExitInv, CountInv, JobNotTimed
<1>4. EofInv'
  BY <1>1, CutEof, EmptyEof DEF LpInv, LpType, EofInv, NoneOut, OneOut
<1>5. QED
  BY <1>2, <1>3, <1>4 DEF LpInv

LEMMA InputStep ==
  ASSUME Pages \subseteq Nat, LpInv, proc_input_char PROVE LpInv'
<1> USE DEF proc_input_char, signals, input, serial, output, results, bounds
<1>1. ibuf \in Seq(Items) /\ ibuf # << >> /\ sel # "in" /\ lpc # "exit"
  BY DEF LpInv, LpType, EofInv, Reading
<1>2. UNCHANGED <<ptr, sel, in_job, intr_flag, sigint, alrm_flag, armed, line, owed, file,
                  getc, outbuf, printed, charged>>
  BY DEF proc_msg
<1>3. \/ lpc' = "exit" /\ exit' = "killed" /\ ibuf' = << >> /\ page' = page
      \/ /\ lpc' = lpc /\ exit' = exit /\ ibuf' = Tail(ibuf)
         /\ \/ page' = page
            \/ \E n \in Pages : page' = [page EXCEPT ![IF page["start"] < 0 THEN "start" ELSE "end"] = n]
         /\ Head(ibuf) = "eof" => eof'
         /\ Head(ibuf) # "eof" => eof' = eof
  BY DEF proc_msg, MessageKeys
<1> HIDE DEF proc_input_char
<1>4. LpType'
  <2>1. page' \in [{"start", "end"} -> Int]
    BY <1>3 DEF LpInv, LpType
  <2>2. ibuf' \in Seq(Items)
    <3>1. Tail(ibuf) \in Seq(Items)
      BY <1>1, TailEof
    <3>2. QED
      BY <3>1, <1>3, EmptyEof
  <2>3. QED
    BY <1>1, <1>2, <2>1, <2>2 DEF LpInv, LpType
<1>5. JobInv' /\ ExitInv' /\ JobNotTimed'
  <2>1. lpc' = lpc \/ lpc' = "exit"
    BY <1>3
  <2>2. JobInv' /\ JobNotTimed'
    BY <1>1, <1>2, <2>1 DEF LpInv, JobInv, Ending, Before, Nothing, JobNotTimed
  <2>3. ExitInv'
    <3>1. charged = << >> /\ charged' = << >> /\ exit' # "SUCCESS"
      BY <1>1, <1>2, <1>3 DEF LpInv, ExitInv
    <3>2. QED
      BY <3>1 DEF ExitInv
  <2>4. QED
    BY <2>2, <2>3
<1>6. CountInv'
  BY <1>2, <1>3 DEF LpInv, LpType, CountInv, ExitInv
<1>7. EofInv'
  <2>1. CASE lpc' = "exit"
    BY <1>1, <1>2, <2>1 DEF LpInv, EofInv
  <2>2. CASE lpc' # "exit"
    <3>1. ibuf' = Tail(ibuf) /\ lpc' = lpc
      BY <1>3, <2>2
    <3>2. Head(ibuf) = "eof" => eof'
      BY <1>3, <2>2
    <3>3. Head(ibuf) # "eof" => eof' = eof
      BY <1>3, <2>2
    <3>4. /\ NoEof(ibuf) => Head(ibuf) # "eof" /\ NoEof(ibuf')
          /\ OneEof(ibuf) => IF Head(ibuf) = "eof" THEN NoEof(ibuf') ELSE OneEof(ibuf')
      BY <1>1, <3>1, TailEof
    <3>5. QED
      BY <1>1, <1>2, <3>1, <3>2, <3>3, <3>4 DEF LpInv, EofInv, NoneOut, OneOut
  <2>3. QED
    BY <2>1, <2>2
<1>8. QED
  BY <1>4, <1>5, <1>6, <1>7 DEF LpInv

LEMMA FlushingStep ==
  ASSUME LpInv, Flushing PROVE LpInv'
<1> USE DEF Flushing, printer_flushing, clear_intr, tty_flush, signals, input, output,
            results, bounds
<1>1. LpType'
  BY EmptyEof DEF LpInv, LpType
<1>2. JobInv' /\ ExitInv' /\ CountInv' /\ JobNotTimed'
  BY DEF LpInv, JobInv, Ending, Before, Nothing, ExitInv, CountInv, JobNotTimed, Reading
<1>3. EofInv'
  BY DEF LpInv, EofInv
<1>4. QED
  BY <1>1, <1>2, <1>3 DEF LpInv

LEMMA LoopEndsStep ==
  ASSUME LpInv, LoopEnds PROVE LpInv'
<1> USE DEF LoopEnds, get_page, Exit, set_alrm, clear_alrm, tty_flush, send_file, init_input,
            set_intr, signals, input, serial, output, results, bounds
<1>1. LpType'
  BY EmptyEof DEF LpInv, LpType
<1>2. JobInv' /\ ExitInv' /\ JobNotTimed'
  BY DEF LpInv, JobInv, Ending, Before, Nothing, ExitInv, JobNotTimed
<1>3. CountInv'
  BY DEF LpInv, LpType, CountInv, ExitInv, LoopOver
<1>4. EofInv'
  BY EmptyEof DEF LpInv, LpType, EofInv, NoneOut, OneOut, LoopOver
<1>5. QED
  BY <1>1, <1>2, <1>3, <1>4 DEF LpInv

LEMMA AcctStep ==
  ASSUME LpInv, do_acct PROVE LpInv'
<1> USE DEF do_acct, signals, input, serial, output, bounds
<1>1. LpType'
  <2>1. charged \in Seq(Int) /\ page["end"] - page["start"] \in Int
    BY DEF LpInv, LpType
  <2>2. Append(charged, page["end"] - page["start"]) \in Seq(Int)
    BY <2>1
  <2>3. QED
    BY <2>1, <2>2 DEF LpInv, LpType
<1>2. JobInv' /\ CountInv' /\ JobNotTimed' /\ EofInv'
  BY DEF LpInv, JobInv, Ending, Before, Nothing, CountInv, JobNotTimed, EofInv
<1>3. ExitInv'
  <2>1. charged = << >>
    BY DEF LpInv, ExitInv
  <2>2. \A x : Len(Append(<< >>, x)) = 1
    OBVIOUS
  <2>3. QED
    BY <2>1, <2>2 DEF LpInv, ExitInv
<1>4. QED
  BY <1>1, <1>2, <1>3 DEF LpInv

LEMMA OutCharStep ==
  ASSUME LpInv, out_char PROVE LpInv'
<1> USE DEF out_char, signals, input, serial, results, bounds
<1>1. file \in Seq(Chars) /\ outbuf \in Seq(Chars) /\ printed \in Seq(Chars)
  BY DEF LpInv, LpType
<1>2. LpType' /\ JobInv'
  <2>1. CASE lpc' = "out" /\ UNCHANGED <<file, outbuf, printed>>
    <3>1. LpType'
      BY <2>1 DEF LpInv, LpType
    <3>2. \/ getc' = getc /\ file # << >>
          \/ getc' = "eof" /\ file = << >>
          \/ getc' = "error" /\ file # << >>
      BY <2>1
    <3>3. JobInv'
      BY <2>1, <3>2 DEF LpInv, JobInv, Ending, Before, Nothing
    <3>4. QED
      BY <3>1, <3>3
  <2>2. CASE /\ file # << >> /\ UNCHANGED <<lpc, getc, printed>>
             /\ outbuf' = Append(outbuf, Head(file)) /\ file' = Tail(file)
    <3>1. /\ Append(outbuf, Head(file)) \in Seq(Chars) /\ Tail(file) \in Seq(Chars)
          /\ Append(outbuf, Head(file)) # << >>
      BY <1>1, <2>2
    <3>2. Whole(printed, Append(outbuf, Head(file)), Tail(file)) = Whole(printed, outbuf, file)
      BY <1>1, <2>2, AppendHead
    <3>3. LpType'
      BY <2>2, <3>1 DEF LpInv, LpType
    <3>4. JobInv'
      BY <2>2, <3>1, <3>2 DEF LpInv, JobInv, Ending, Before, Nothing
    <3>5. QED
      BY <3>3, <3>4
  <2>3. QED
    BY <2>1, <2>2
<1>3. ExitInv' /\ CountInv' /\ JobNotTimed' /\ EofInv'
  BY DEF LpInv, ExitInv, CountInv, JobNotTimed, EofInv, NoneOut
<1>4. QED
  BY <1>2, <1>3 DEF LpInv

LEMMA OutBufStep ==
  ASSUME LpInv, out_buf PROVE LpInv'
<1> USE DEF out_buf, handle_intr, set_alrm, tty_flush, signals, input, serial, output, results,
            bounds
<1>1. LpType'
  BY EmptyEof DEF LpInv, LpType
<1>2. JobInv'
  BY DEF LpInv, JobInv, Ending, Before, Nothing
<1>3. ExitInv' /\ CountInv' /\ JobNotTimed'
  BY DEF LpInv, ExitInv, CountInv, JobNotTimed
<1>4. EofInv'
  BY DEF LpInv, EofInv, NoneOut
<1>5. QED
  BY <1>1, <1>2, <1>3, <1>4 DEF LpInv

LEMMA OutBufDoneStep ==
  ASSUME LpInv, OutBufDone PROVE LpInv'
<1> USE DEF OutBufDone, signals, input, serial, results, bounds
<1>1. file \in Seq(Chars) /\ outbuf \in Seq(Chars) /\ printed \in Seq(Chars)
  BY DEF LpInv, LpType
<1>2. LpType' /\ JobInv'
  <2>1. CASE getc = "ok"
    <3>1. file # << >>
      BY <2>1 DEF LpInv, JobInv
    <3>2. outbuf' = Append(outbuf, Head(file)) /\ file' = Tail(file) /\ lpc' = "send"
      <4>1. \A x : Append(<< >>, x) = <<x>>
        OBVIOUS
      <4>2. QED
        BY <2>1, <4>1
    <3>3. /\ Append(outbuf, Head(file)) \in Seq(Chars) /\ Tail(file) \in Seq(Chars)
          /\ Append(outbuf, Head(file)) # << >>
      BY <1>1, <3>1
    <3>4. Whole(printed, Append(outbuf, Head(file)), Tail(file)) = Whole(printed, outbuf, file)
      BY <1>1, <3>1, AppendHead
    <3>5. LpType'
      BY <3>2, <3>3 DEF LpInv, LpType
    <3>6. JobInv'
      BY <2>1, <3>2, <3>3, <3>4 DEF LpInv, JobInv, Ending, Before, Nothing
    <3>7. QED
      BY <3>5, <3>6
  <2>2. CASE getc # "ok"
    <3>1. LpType'
      BY <2>2 DEF LpInv, LpType
    <3>2. JobInv'
      BY <2>2 DEF LpInv, JobInv, Ending, Before, Nothing
    <3>3. QED
      BY <3>1, <3>2
  <2>3. QED
    BY <2>1, <2>2
<1>3. ExitInv' /\ CountInv' /\ JobNotTimed' /\ EofInv'
  BY DEF LpInv, ExitInv, CountInv, JobNotTimed, EofInv, NoneOut
<1>4. QED
  BY <1>2, <1>3 DEF LpInv

LEMMA OutWriteStep ==
  ASSUME LpInv, OutWrite PROVE LpInv'
<1> USE DEF OutWrite, signals, input, serial, results, bounds
<1>1. file \in Seq(Chars) /\ outbuf \in Seq(Chars) /\ printed \in Seq(Chars)
  BY DEF LpInv, LpType
<1>2. PICK n \in 1..Len(outbuf) : /\ printed' = printed \o SubSeq(outbuf, 1, n)
                                 /\ outbuf' = SubSeq(outbuf, n + 1, Len(outbuf))
  OBVIOUS
<1>3. LpType'
  BY <1>1, <1>2, SplitBuffer DEF LpInv, LpType
<1>4. Whole(printed', outbuf', file') = Whole(printed, outbuf, file)
  BY <1>1, <1>2, SplitBuffer
<1>5. JobInv' /\ ExitInv' /\ CountInv' /\ JobNotTimed'
  BY <1>4 DEF LpInv, JobInv, Ending, Before, Nothing, ExitInv, CountInv, JobNotTimed
<1>6. EofInv'
  BY DEF LpInv, EofInv, NoneOut
<1>7. QED
  BY <1>3, <1>5, <1>6 DEF LpInv

LEMMA AlrmStep ==
  ASSUME LpInv, sig_alrm PROVE LpInv'
<1> USE DEF sig_alrm, Exit, input, serial, output, results, bounds
<1>1. LpType' /\ JobInv' /\ ExitInv' /\ CountInv' /\ JobNotTimed'
  BY DEF LpInv, LpType, JobInv, Ending, Before, Nothing, ExitInv, CountInv, JobNotTimed
<1>2. EofInv'
  BY DEF LpInv, EofInv, NoneOut, OneOut
<1>3. QED
  BY <1>1, <1>2 DEF LpInv

LEMMA IoFailsStep ==
  ASSUME LpInv, IoFails PROVE LpInv'
<1> USE DEF IoFails, Exit, signals, input, serial, output, results, bounds
<1>1. LpType' /\ EofInv'
  BY DEF LpInv, LpType, EofInv
<1>2. JobInv' /\ ExitInv' /\ CountInv' /\ JobNotTimed'
  BY DEF LpInv, JobInv, Ending, Before, Nothing, ExitInv, CountInv, JobNotTimed, Reading, AfterWrite
<1>3. QED
  BY <1>1, <1>2 DEF LpInv

LEMMA IntStep ==
  ASSUME LpInv, sig_int PROVE LpInv'
<1> USE DEF sig_int, Delivered, handle_intr, set_alrm, tty_flush, Exit, signals, input, serial,
            output, results, bounds
<1>1. LpType'
  BY EmptyEof DEF LpInv, LpType
<1>2. JobInv' /\ ExitInv' /\ CountInv' /\ JobNotTimed'
  BY DEF LpInv, JobInv, Ending, Before, Nothing, ExitInv, CountInv, JobNotTimed
<1>3. EofInv'
  BY DEF LpInv, EofInv, NoneOut, OneOut
<1>4. QED
  BY <1>1, <1>2, <1>3 DEF LpInv

LEMMA PrinterStep ==
  ASSUME LpInv, PrinterSays PROVE LpInv'
<1> USE DEF PrinterSays, signals, input, output, results, bounds
<1>1. PICK e \in Items : /\ line' = Append(line, e)
                         /\ owed' = IF e = "eof" THEN owed - 1 ELSE owed
                         /\ e = "eof" => owed > 0
  BY DEF Items, MessageKeys
<1>2. line \in Seq(Items) /\ owed \in Nat
  BY DEF LpInv, LpType
<1>3. LpType'
  BY <1>1, <1>2, AppendEof DEF LpInv, LpType
<1>4. JobInv' /\ ExitInv' /\ CountInv' /\ JobNotTimed'
  BY DEF LpInv, JobInv, Ending, Before, Nothing, ExitInv, CountInv, JobNotTimed
<1>5. EofInv'
  BY <1>1, <1>2, AppendEof DEF LpInv, EofInv, NoneOut, OneOut
<1>6. QED
  BY <1>3, <1>4, <1>5 DEF LpInv

LEMMA NextStep ==
  ASSUME Pages \subseteq Nat, LpInv, [lprpsNext]_lprpsVars PROVE LpInv'
<1>1. CASE UNCHANGED lprpsVars
  BY <1>1 DEF lprpsVars, LpInv, LpType, JobInv, Ending, Before, Nothing,
              ExitInv, CountInv, EofInv, NoneOut, OneOut, JobNotTimed
<1>2. CASE lprpsNext
  BY <1>2, MainStep, WriteStep, InterruptedStep, SomeInputStep, ReadStep, InputStep,
     FlushingStep, LoopEndsStep, AcctStep, OutCharStep, OutBufStep, OutBufDoneStep, OutWriteStep,
     AlrmStep, IoFailsStep, IntStep, PrinterStep
  DEF lprpsNext, lprpsStep
<1>3. QED
  BY <1>1, <1>2

LEMMA Invariance ==
  ASSUME NEW S, File \in Seq(S), Pages \subseteq Nat PROVE lprpsSpec => []LpInv
<1>1. lprpsInit => LpInv
  BY InitStep
<1>2. LpInv /\ [lprpsNext]_lprpsVars => LpInv'
  BY NextStep
<1>3. QED
  BY <1>1, <1>2, PTL DEF lprpsSpec

-----------------------------------------------------------------------------
(* The printer is sent the job once and in order (out_char, out_buf), and  *)
(* the EOF that ends it follows the whole job when its end was read, a     *)
(* part of it only after a read error, and nothing of it when SIGINT ended *)
(* the first read, for every job and every buffer size.                    *)
THEOREM JobPrinted ==
  ASSUME NEW S, File \in Seq(S), Pages \subseteq Nat PROVE lprpsSpec => []WholeJob
<1>1. LpInv => WholeJob
  <2> SUFFICES ASSUME LpInv PROVE WholeJob
    OBVIOUS
  <2>1. printed \in Seq(Chars)
    BY DEF LpInv, LpType
  <2>2. printed \o << >> \o << >> = printed
    BY <2>1
  <2>3. printed \o outbuf \o file = File
    BY DEF LpInv, JobInv, Whole
  <2>4. QED
    BY <2>2, <2>3 DEF LpInv, JobInv, Ending, WholeJob
<1>2. QED
  BY <1>1, Invariance, PTL

(* A job is charged at most once and never when lpd will print it again,   *)
(* success means that both page counts are known, and no timeout of a      *)
(* query reaches into the copying (do_acct, exit, clear_alrm).             *)
THEOREM JobCharged ==
  ASSUME NEW S, File \in Seq(S), Pages \subseteq Nat PROVE lprpsSpec => []JobAccounted
<1>1. LpInv => JobAccounted
  <2> SUFFICES ASSUME LpInv PROVE JobAccounted
    OBVIOUS
  <2>1. Len(charged) <= 1
    <3>1. CASE charged = << >>
      BY <3>1, EmptyEof
    <3>2. CASE charged # << >>
      <4>1. Len(charged) = 1
        BY <3>2, Zenon DEF LpInv, ExitInv
      <4>2. QED
        BY <4>1
    <3>3. QED
      BY <3>1, <3>2
  <2>2. ChargedOnce
    BY <2>1 DEF LpInv, ExitInv, ChargedOnce
  <2>3. SuccessCounted
    BY DEF LpInv, CountInv, SuccessCounted
  <2>4. QED
    BY <2>2, <2>3 DEF LpInv, JobAccounted
<1>2. QED
  BY <1>1, Invariance, PTL

(* send_file returns only when the printer has answered the EOF of the     *)
(* job, and no answer to an earlier EOF is taken for it (proc_upto_eof).   *)
THEOREM JobAnswered ==
  ASSUME NEW S, File \in Seq(S), Pages \subseteq Nat PROVE lprpsSpec => JobDone
<1>1. ASSUME LpInv, lprpsNext, lpc = "send_upto", lpc' = "gp_write"
      PROVE  /\ owed = 0 /\ \A i \in 1..Len(line) : line[i] /= "eof"
             /\ getc # "intr"
  <2>1. LoopEnds
    BY <1>1 DEF lprpsNext, lprpsStep, Main, block_write, AfterWrite, proc_some_input,
       handle_intr, Exit, Read, proc_input_char, proc_msg, Flushing, printer_flushing, do_acct,
       out_char, out_buf, OutBufDone, OutWrite, WriteInterrupted, IoFails, sig_alrm, sig_int,
       Delivered, PrinterSays, results
  <2>2. eof
    BY <1>1, <2>1 DEF LoopEnds, LoopOver
  <2>3. getc # "intr"
    BY <1>1, <2>2 DEF LpInv, JobInv
  <2>4. QED
    BY <1>1, <2>2, <2>3 DEF LpInv, EofInv, NoneOut, NoEof
<1>2. LpInv /\ [lprpsNext]_lprpsVars
        => [lpc = "send_upto" /\ lpc' = "gp_write"
              => /\ owed = 0 /\ \A i \in 1..Len(line) : line[i] /= "eof"
                 /\ getc # "intr"]_lprpsVars
  BY <1>1
<1>3. QED
  BY <1>2, Invariance, PTL DEF JobDone, lprpsSpec
=============================================================================
