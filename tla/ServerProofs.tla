----------------------------- MODULE ServerProofs -----------------------------
(***************************************************************************)
(* Clients, servers and the modem.                                         *)
(*                                                                         *)
(* send_fd and recv_fd, for every size of the buffers and every error code:*)
(* FdInv says where a call of csopen is and what is on the pipe for it.    *)
(*                                                                         *)
(* opend, for any finite set of clients, both loops and any requests: OsInv*)
(* ties client[], the watched set and the connections to each other, and   *)
(* what is under way for a client to what it has asked and read.           *)
(*                                                                         *)
(* The chat of calld's child, for any conversations: ChatInv says what     *)
(* expect_str has read and what of it is in its window.                    *)
(***************************************************************************)
EXTENDS Programs, SequenceTheorems, FiniteSetTheorems, TLAPS

(* The bytes between send_fd, send_err and recv_fd.                        *)
LEMMA OpenSteps == [ProgNext]_allVars => F!fdNext \/ UNCHANGED openVars
BY DEF ProgNext, Rest, allVars

(* k bytes of text, and the same followed by a zero byte and a status.     *)
Text(w, k) == w \in Seq(Nat) /\ Len(w) = k /\ \A j \in 1..k : w[j] = 7
Framed(w, k, b) ==
  /\ w \in Seq(Nat) /\ Len(w) = k + 2
  /\ \A j \in 1..k : w[j] = 7
  /\ w[k + 1] = 0 /\ w[k + 2] = b

LEMMA TextEmpty == Text(<< >>, 0)
BY DEF Text
LEMMA TextSent ==
  ASSUME NEW k \in Nat PROVE Text(<< >> \o [j \in 1..k |-> 7], k)
BY DEF Text
LEMMA FrameSent ==
  ASSUME NEW k \in Nat, NEW w, Text(w, k), NEW b \in Nat PROVE Framed(w \o <<0, b>>, k, b)
BY DEF Text, Framed

(* An error in its making: code is negative, the text fits the buffer.     *)
ErrOk == err.code \in Int /\ err.code < 0 /\ err.len \in 0..(MAXLINE - 1)
(* Of the text either nothing, or all, or none any more is on the wire.    *)
TextOut(k) == k \in Nat /\ shown \in Nat /\ \/ k = 0 /\ shown \in {0, err.len}
                                            \/ k = err.len /\ shown = 0

Quiet == request = << >> /\ wire = << >> /\ rights = << >>
Asked == request = <<name>> /\ wire = << >> /\ rights = << >> /\ srv = "read" /\ shown = 0
Opened == /\ Quiet /\ srv = "fd" /\ name \in Good /\ shown = 0 /\ err = F!NoError
TextDue == Quiet /\ srv = "text" /\ name \in Bad /\ shown = 0 /\ ErrOk
ErrDue ==
  /\ request = << >> /\ rights = << >> /\ srv = "err" /\ name \in Bad /\ ErrOk
  /\ \E k \in Nat : TextOut(k) /\ Text(wire, k)
ErrSent ==
  /\ request = << >> /\ rights = << >> /\ srv = "read" /\ name \in Bad /\ ErrOk
  /\ \E k \in Nat, b \in 1..255 : TextOut(k) /\ Framed(wire, k, b)
FdSent ==
  /\ request = << >> /\ rights = <<name>> /\ srv = "read" /\ name \in Good /\ shown = 0
  /\ Framed(wire, 0, 0) /\ err = F!NoError
Answered1 ==
  opens > 0 =>
    /\ answer.fd = IF name \in Good THEN name ELSE "none"
    /\ answer.status \in IF name \in Good THEN {0} ELSE 1..255
    /\ shown \in {0, err.len}

(* Where a call of csopen is.                                              *)
FdInv ==
  /\ opens \in Nat
  /\ cli \in {"idle", "wait", "dump", "closed"}
  /\ cli = "idle" => Quiet /\ srv = "read" /\ Answered1
  /\ cli = "wait" => /\ opens > 0 /\ name \in Good \cup Bad
                     /\ Asked \/ Opened \/ TextDue \/ ErrDue \/ ErrSent \/ FdSent
  /\ cli = "closed" => Quiet /\ srv \in {"read", "exit"}
  /\ cli = "dump" => request = << >> /\ srv \in {"read", "exit"} /\ err.len = MAXLINE - 1

LEMMA FdInitInv == F!fdInit => FdInv
BY DEF F!fdInit, FdInv, Quiet, Answered1

-----------------------------------------------------------------------------
(* One pass of recv_fd over text alone, over a whole answer, and over one  *)
(* that does not fit by a byte.                                            *)
LEMMA PassText ==
  ASSUME F!recv_fd, NEW k \in Nat, Text(wire, k), k < MAXLINE
  PROVE  /\ k > 0 /\ wire' = << >> /\ shown' = shown + k /\ cli' = "wait"
         /\ UNCHANGED <<answer, rights, srv, request, name, err, opens>>
<1> USE FdAssumption DEF Text
<1>1. Len(wire) = k /\ wire # << >> /\ ~(Len(wire) > MAXLINE)
  BY DEF F!recv_fd, F!RecvPass
<1>2. {j \in 1..k : wire[j] = 0} = {}
  OBVIOUS
<1>3. SubSeq(wire, k + 1, k) = << >>
  BY SubSeqEmpty
<1>4. QED
  BY <1>1, <1>2, <1>3 DEF F!recv_fd, F!RecvPass

LEMMA FrameNul ==
  ASSUME NEW k \in Nat, NEW b \in Nat, Framed(wire, k, b)
  PROVE  /\ Len(wire) = k + 2 /\ wire # << >>
         /\ b # 0 => {j \in 1..(k + 2) : wire[j] = 0} = {k + 1}
         /\ b = 0 => {j \in 1..(k + 2) : wire[j] = 0} = {k + 1, k + 2}
         /\ {j \in 1..(k + 1) : wire[j] = 0} = {k + 1}
         /\ SubSeq(wire, k + 2 + 1, k + 2) = << >>
<1>1. SubSeq(wire, k + 2 + 1, k + 2) = << >>
  BY SubSeqEmpty
<1>2. QED BY <1>1 DEF Framed

(* One pass, for what it reads.                                            *)
PassOf(n, nul, first) ==
  /\ wire' = SubSeq(wire, n + 1, Len(wire))
  /\ \/ /\ nul = {} /\ shown' = shown + n /\ cli' = "wait"
        /\ UNCHANGED <<answer, rights>>
     \/ /\ nul /= {}
        /\ \/ first /= n - 1
           \/ wire[n] = 0 /\ rights = << >>
        /\ cli' = "dump" /\ UNCHANGED <<shown, answer, rights>>
     \/ /\ nul /= {} /\ first = n - 1
        /\ cli' = "idle" /\ shown' = shown + n - 2
        /\ \/ /\ wire[n] = 0 /\ rights /= << >>
              /\ answer' = [fd |-> Head(rights), status |-> 0]
              /\ rights' = Tail(rights)
           \/ /\ wire[n] /= 0
              /\ answer' = [fd |-> "none", status |-> wire[n]]
              /\ UNCHANGED rights
Nuls(n)  == {j \in 1..n : wire[j] = 0}
First(n) == CHOOSE j \in Nuls(n) : \A m \in Nuls(n) : j <= m
NRead == IF Len(wire) > MAXLINE THEN MAXLINE ELSE Len(wire)

LEMMA PassReads ==
  ASSUME F!recv_fd
  PROVE  /\ cli = "wait" /\ wire # << >> /\ PassOf(NRead, Nuls(NRead), First(NRead))
         /\ UNCHANGED <<srv, request, name, err, opens>>
BY DEF F!recv_fd, F!RecvPass, PassOf, NRead, Nuls, First

LEMMA PassError ==
  ASSUME F!recv_fd, NEW k \in Nat, NEW b \in 1..255, Framed(wire, k, b), k + 2 <= MAXLINE
  PROVE  /\ wire' = << >> /\ shown' = shown + (k + 2) - 2 /\ cli' = "idle"
         /\ answer' = [fd |-> "none", status |-> b]
         /\ UNCHANGED <<rights, srv, request, name, err, opens>>
<1>1. /\ Len(wire) = k + 2 /\ Nuls(k + 2) = {k + 1} /\ SubSeq(wire, k + 2 + 1, k + 2) = << >>
      /\ wire[k + 2] = b
  BY FrameNul DEF Framed, Nuls
<1>2. First(k + 2) = k + 1 /\ k + 1 = (k + 2) - 1
  BY <1>1 DEF First
<1>3. NRead = k + 2
  BY <1>1, FdAssumption DEF NRead
<1>4. PassOf(k + 2, {k + 1}, k + 1)
  BY <1>1, <1>2, <1>3, PassReads
<1>5. wire' = << >>
  BY <1>1, <1>4 DEF PassOf
<1>6. {k + 1} # {} /\ k + 1 = (k + 2) - 1 /\ wire[k + 2] # 0
  BY <1>1, <1>2
<1>7. /\ shown' = shown + (k + 2) - 2 /\ cli' = "idle" /\ UNCHANGED rights
      /\ answer' = [fd |-> "none", status |-> wire[k + 2]]
  BY <1>4, <1>6 DEF PassOf
<1>8. QED
  BY <1>1, <1>5, <1>7, PassReads

LEMMA PassFd ==
  ASSUME F!recv_fd, NEW n, rights = <<n>>, Framed(wire, 0, 0), 2 <= MAXLINE
  PROVE  /\ wire' = << >> /\ shown' = shown + 2 - 2 /\ cli' = "idle"
         /\ answer' = [fd |-> n, status |-> 0] /\ rights' = << >>
         /\ UNCHANGED <<srv, request, name, err, opens>>
<1>1. /\ Len(wire) = 2 /\ Nuls(2) = {1, 2} /\ SubSeq(wire, 2 + 1, 2) = << >> /\ wire[2] = 0
  BY FrameNul DEF Framed, Nuls
<1>2. First(2) = 1
  <2>1. \A x : x \in Nuls(2) /\ (\A m \in Nuls(2) : x <= m) <=> x = 1
    BY <1>1
  <2>2. QED BY <2>1 DEF First
<1>3. NRead = 2
  BY <1>1, FdAssumption DEF NRead
<1>4. PassOf(2, {1, 2}, 1)
  BY <1>1, <1>2, <1>3, PassReads
<1>5. rights # << >> /\ Head(rights) = n /\ Tail(rights) = << >>
  OBVIOUS
<1>6. QED
  BY <1>1, <1>4, <1>5, PassReads DEF PassOf

LEMMA PassEdge ==
  ASSUME F!recv_fd, NEW k \in Nat, NEW b \in Nat, Framed(wire, k, b), k + 1 = MAXLINE
  PROVE  cli' = "dump" /\ UNCHANGED <<srv, request, name, err, opens>>
<1>1. Len(wire) = k + 2 /\ Nuls(k + 1) = {k + 1}
  BY FrameNul DEF Framed, Nuls
<1>2. First(k + 1) = k + 1 /\ k + 1 # (k + 1) - 1
  BY <1>1 DEF First
<1>3. NRead = k + 1
  BY <1>1, FdAssumption DEF NRead
<1>4. PassOf(k + 1, {k + 1}, k + 1)
  BY <1>1, <1>2, <1>3, PassReads
<1>5. QED
  BY <1>2, <1>4, PassReads DEF PassOf

LEMMA RecvStep == ASSUME FdInv, F!recv_fd PROVE FdInv'
<1>1. cli = "wait" /\ wire # << >>
  BY PassReads
<1>2. opens > 0 /\ opens \in Nat /\ name \in Good \cup Bad /\ (ErrDue \/ ErrSent \/ FdSent)
  BY <1>1 DEF FdInv, Asked, Opened, TextDue, Quiet
<1>3. CASE ErrDue
  <2>1. PICK k \in Nat : TextOut(k) /\ Text(wire, k)
    BY <1>3 DEF ErrDue
  <2>2. k < MAXLINE
    BY <1>3, <2>1, FdAssumption DEF ErrDue, ErrOk, TextOut
  <2>3. /\ k > 0 /\ wire' = << >> /\ shown' = shown + k /\ cli' = "wait"
        /\ UNCHANGED <<answer, rights, srv, request, name, err, opens>>
    BY <2>1, <2>2, PassText
  <2>4. k = err.len /\ shown = 0
    BY <2>1, <2>3 DEF TextOut
  <2>5. TextOut(0)' /\ Text(wire, 0)'
    BY <2>3, <2>4, TextEmpty DEF TextOut
  <2>6. ErrDue'
    BY <1>3, <2>3, <2>5 DEF ErrDue, ErrOk
  <2>7. QED
    BY <1>2, <2>3, <2>6 DEF FdInv
<1>4. CASE ErrSent
  <2>1. PICK k \in Nat, b \in 1..255 : TextOut(k) /\ Framed(wire, k, b)
    BY <1>4 DEF ErrSent
  <2>2. k <= MAXLINE - 1 /\ err.len \in Nat /\ (k + 1 = MAXLINE => err.len = MAXLINE - 1)
    BY <1>4, <2>1, FdAssumption DEF ErrSent, ErrOk, TextOut
  <2>3. CASE k + 1 = MAXLINE
    <3>1. cli' = "dump" /\ UNCHANGED <<srv, request, name, err, opens>>
      BY <2>1, <2>3, PassEdge
    <3>2. QED
      BY <1>2, <1>4, <2>2, <2>3, <3>1 DEF FdInv, ErrSent
  <2>4. CASE k + 2 <= MAXLINE
    <3>1. /\ wire' = << >> /\ shown' = shown + (k + 2) - 2 /\ cli' = "idle"
          /\ answer' = [fd |-> "none", status |-> b]
          /\ UNCHANGED <<rights, srv, request, name, err, opens>>
      BY <2>1, <2>4, PassError
    <3>2. shown' \in {0, err.len}
      BY <2>1, <2>2, <3>1 DEF TextOut
    <3>3. name \notin Good
      BY <1>4, FdAssumption DEF ErrSent
    <3>4. Answered1' /\ Quiet'
      BY <1>4, <3>1, <3>2, <3>3 DEF Answered1, Quiet, ErrSent
    <3>5. QED
      BY <1>2, <1>4, <3>1, <3>4 DEF FdInv, ErrSent
  <2>5. QED
    BY <2>2, <2>3, <2>4, FdAssumption
<1>5. CASE FdSent
  <2>1. CASE MAXLINE = 1
    <3>1. cli' = "dump" /\ UNCHANGED <<srv, request, name, err, opens>>
      BY <1>5, <2>1, PassEdge DEF FdSent
    <3>2. QED
      BY <1>2, <1>5, <2>1, <3>1 DEF FdInv, FdSent, F!NoError
  <2>2. CASE 2 <= MAXLINE
    <3>1. /\ wire' = << >> /\ shown' = shown + 2 - 2 /\ cli' = "idle"
          /\ answer' = [fd |-> name, status |-> 0] /\ rights' = << >>
          /\ UNCHANGED <<srv, request, name, err, opens>>
      BY <1>5, <2>2, PassFd DEF FdSent
    <3>2. Answered1' /\ Quiet'
      BY <1>5, <3>1 DEF Answered1, Quiet, FdSent
    <3>3. QED
      BY <1>2, <1>5, <3>1, <3>2 DEF FdInv, FdSent
  <2>3. QED
    BY <2>1, <2>2, FdAssumption
<1>6. QED BY <1>2, <1>3, <1>4, <1>5

-----------------------------------------------------------------------------
LEMMA CsopenStep == ASSUME FdInv, NEW n \in Good \cup Bad, F!csopen(n) PROVE FdInv'
<1>1. Asked'
  BY DEF F!csopen, FdInv, Quiet, Asked
<1>2. QED
  BY <1>1 DEF F!csopen, FdInv

LEMMA ServeStep == ASSUME FdInv, F!Serve PROVE FdInv'
<1>1. cli = "wait" /\ Asked
  BY DEF F!Serve, FdInv, Quiet, Opened, TextDue, ErrDue, ErrSent, FdSent
<1>2. Head(request) = name /\ Tail(request) = << >>
  BY <1>1 DEF Asked
<1>3. UNCHANGED <<cli, wire, rights, name, shown, answer, opens>> /\ request' = << >>
  BY <1>2 DEF F!Serve
<1>4. Quiet'
  BY <1>1, <1>3 DEF Asked, Quiet
<1>5. CASE name \in Good /\ srv' = "fd" /\ err' = F!NoError
  <2>1. Opened'
    BY <1>1, <1>3, <1>4, <1>5 DEF Asked, Opened
  <2>2. QED BY <1>1, <1>3, <2>1 DEF FdInv
<1>6. CASE name \in Bad /\ srv' \in {"text", "err"}
           /\ \E code \in ErrCodes, len \in 0..(MAXLINE - 1) :
                err' = [code |-> IF code >= 0 THEN -1 ELSE code, len |-> len]
  <2>1. ErrOk'
    BY <1>6, FdAssumption DEF ErrOk
  <2>2. CASE srv' = "text"
    <3>1. TextDue'
      BY <1>1, <1>3, <1>4, <1>6, <2>1, <2>2 DEF Asked, TextDue
    <3>2. QED BY <1>1, <1>3, <3>1 DEF FdInv
  <2>3. CASE srv' = "err"
    <3>1. TextOut(0)' /\ Text(wire, 0)'
      BY <1>1, <1>3, TextEmpty DEF TextOut, Asked
    <3>2. ErrDue'
      BY <1>3, <1>4, <1>6, <2>1, <2>3, <3>1 DEF ErrDue, Quiet
    <3>3. QED BY <1>1, <1>3, <3>2 DEF FdInv
  <2>4. QED BY <1>6, <2>2, <2>3
<1>7. QED BY <1>2, <1>5, <1>6 DEF F!Serve

LEMMA SendErrStep == ASSUME FdInv, F!send_err PROVE FdInv'
<1>1. cli = "wait" /\ TextDue
  BY DEF F!send_err, FdInv, Asked, Opened, TextDue, ErrDue, ErrSent, FdSent
<1>2. /\ srv' = "err" /\ wire' = << >> \o [j \in 1..err.len |-> 7]
      /\ UNCHANGED <<cli, request, rights, name, err, shown, answer, opens>>
  BY <1>1 DEF F!send_err, TextDue, Quiet, F!Letter
<1>3. err.len \in Nat /\ shown = 0
  BY <1>1, FdAssumption DEF TextDue, ErrOk
<1>4. Text(wire', err.len)
  BY <1>2, <1>3, TextSent
<1>5. TextOut(err.len)' /\ Text(wire, err.len)'
  BY <1>2, <1>3, <1>4 DEF TextOut
<1>6. ErrDue'
  BY <1>1, <1>2, <1>3, <1>5 DEF ErrDue, TextDue, Quiet, ErrOk
<1>7. QED BY <1>1, <1>2, <1>6 DEF FdInv

LEMMA SendFdStep == ASSUME FdInv, F!send_fd PROVE FdInv'
<1>1. cli = "wait" /\ (Opened \/ ErrDue)
  BY DEF F!send_fd, FdInv, Asked, Opened, TextDue, ErrDue, ErrSent, FdSent
<1>2. srv' = "read" /\ UNCHANGED <<cli, request, name, err, shown, answer, opens>>
  BY DEF F!send_fd
<1>3. CASE Opened
  <2>1. wire' = << >> \o <<0, 0>> /\ rights' = <<name>>
    BY <1>3 DEF F!send_fd, Opened, Quiet
  <2>2. Framed(wire', 0, 0)
    BY <2>1, TextEmpty, FrameSent
  <2>3. FdSent'
    BY <1>2, <1>3, <2>1, <2>2 DEF FdSent, Opened, Quiet
  <2>4. QED BY <1>1, <1>2, <2>3 DEF FdInv
<1>4. CASE ErrDue
  <2>1. wire' = wire \o <<0, F!StatusByte(err.code)>> /\ rights' = rights
    BY <1>4 DEF F!send_fd, ErrDue
  <2>2. F!StatusByte(err.code) \in 1..255
    <3>1. -err.code \in Nat
      BY <1>4 DEF ErrDue, ErrOk
    <3>2. (-err.code) % 256 \in 0..255
      BY <3>1
    <3>3. QED BY <3>2 DEF F!StatusByte
  <2>3. PICK k \in Nat : TextOut(k) /\ Text(wire, k)
    BY <1>4 DEF ErrDue
  <2>4. Framed(wire', k, F!StatusByte(err.code))
    <3>1. F!StatusByte(err.code) \in Nat BY <2>2
    <3>2. QED BY <2>1, <2>3, <3>1, FrameSent
  <2>5. TextOut(k)'
    BY <1>2, <2>3 DEF TextOut
  <2>6. ErrSent'
    BY <1>2, <1>4, <2>1, <2>2, <2>4, <2>5 DEF ErrSent, ErrDue, ErrOk
  <2>7. QED BY <1>1, <1>2, <2>6 DEF FdInv
<1>5. QED BY <1>1, <1>3, <1>4

LEMMA FdNextInv == ASSUME FdInv, F!fdNext PROVE FdInv'
<1>1. ASSUME NEW n \in Good \cup Bad, F!csopen(n) PROVE FdInv' BY <1>1, CsopenStep
<1>2. CASE F!Close BY <1>2 DEF F!Close, FdInv, Quiet
<1>3. CASE F!Serve BY <1>3, ServeStep
<1>4. CASE F!send_err BY <1>4, SendErrStep
<1>5. CASE F!send_fd BY <1>5, SendFdStep
<1>6. CASE F!ServerExit BY <1>6 DEF F!ServerExit, FdInv, Quiet
<1>7. CASE F!recv_fd BY <1>7, RecvStep
<1>8. QED BY <1>1, <1>2, <1>3, <1>4, <1>5, <1>6, <1>7 DEF F!fdNext

(* csopen returns the descriptor it asked for or an error with its whole   *)
(* text, and leaves nothing on the pipe, for every size of the buffers and *)
(* every error code; "message format error" is met only at the edge.       *)
THEOREM AnswerTheorem == ProgSpec => []AnswerRight
<1>1. ProgInit => FdInv
  BY FdInitInv DEF ProgInit
<1>2. FdInv /\ [ProgNext]_allVars => FdInv'
  <2> SUFFICES ASSUME FdInv, [ProgNext]_allVars PROVE FdInv'
    OBVIOUS
  <2>1. CASE F!fdNext BY <2>1, FdNextInv
  <2>2. CASE UNCHANGED openVars
    BY <2>2 DEF openVars, FdInv, Quiet, Asked, Opened, TextDue, ErrDue, ErrSent, FdSent, Answered1,
                ErrOk, TextOut
  <2>3. QED BY <2>1, <2>2, OpenSteps
<1>3. FdInv => AnswerRight
  BY DEF FdInv, AnswerRight, F!AnswerRight, F!TextWhole, F!DumpsOnlyAtEdge, Quiet, Answered1
<1>4. QED
  BY <1>1, <1>2, <1>3, PTL DEF ProgSpec

-----------------------------------------------------------------------------
(* The daemon opend and its clients.                                       *)
LEMMA OpendSteps == [ProgNext]_allVars => O!osNext \/ UNCHANGED opendVars
BY DEF ProgNext, Rest, allVars

LEMMA OpendCard == ASSUME NEW T PROVE O!Cardinality(T) = Cardinality(T)
<1>1. O!IsFiniteSet(T) <=> IsFiniteSet(T)
  BY DEF O!IsFiniteSet, IsFiniteSet
<1>2. QED
  BY <1>1 DEF O!Cardinality, Cardinality

(* The answer to a request, the connected descriptors, the clients waiting to*)
(* be accepted.                                                            *)
Rep(n)  == IF n \in Openable THEN n ELSE "error"
Replies == Names \cup {"error"}
Conns   == {fdOf[c] : c \in Clients} \ {-1}
InBacklog(c) == \E j \in 1..Len(backlog) : backlog[j] = c
(* What each variable holds; client[] is never longer than the clients and *)
(* one allocation.                                                         *)
OsType ==
  /\ mux \in {"select", "poll"} /\ spc \in {"wait", "accept", "scan", "dead"}
  /\ client \in Seq(Int) /\ maxi \in Int /\ 0 <= maxi /\ maxi <= Len(client)
  /\ scan \in Int /\ scan >= 1
  /\ fdOf \in [Clients -> Int] /\ backlog \in Seq(Clients)
  /\ cpc \in [Clients -> {"start", "conn", "asked", "gone"}]
  /\ toServ \in [Clients -> Seq(Names)] /\ asks \in [Clients -> Seq(Names)]
  /\ toCli \in [Clients -> Seq(Replies)] /\ got \in [Clients -> Seq(Replies)]
  /\ Len(client) <= Cardinality(Clients) + NALLOC

(* No two clients share a descriptor, no two entries hold the same one.    *)
OneEach ==
  /\ \A c, d \in Clients : fdOf[c] = fdOf[d] /\ fdOf[c] # -1 => c = d
  /\ \A j, k \in 1..Len(client) : client[j] = client[k] /\ client[j] # -1 => j = k
(* A connection has its entry below maxi, and an entry its connection.     *)
Entries ==
  /\ \A c \in Clients : fdOf[c] # -1 => /\ fdOf[c] > 3
                                         /\ \E j \in 1..maxi : client[j] = fdOf[c]
  /\ \A j \in 1..Len(client) :
       \/ client[j] = -1 \/ (mux = "poll" /\ j = 1 /\ client[j] = 3)
       \/ \E c \in Clients : fdOf[c] = client[j]
  /\ mux = "poll" => Len(client) >= 1 /\ client[1] = 3
(* select and poll watch the connections and the listening socket, no more.*)
Watched == allset = Conns \cup {3}
(* The scan passes over poll's first entry; accept has someone to accept.  *)
ScanOk ==
  /\ -1 \notin rset
  /\ mux = "poll" /\ spc \in {"accept", "scan"} => scan >= 2
  /\ spc = "accept" => backlog # << >>

(* Who waits to be accepted waits once and has no descriptor yet.          *)
QueueOk ==
  /\ \A j, k \in 1..Len(backlog) : backlog[j] = backlog[k] => j = k
  /\ \A j \in 1..Len(backlog) : fdOf[backlog[j]] = -1 /\ cpc[backlog[j]] # "start"
(* What c has read, and what is on its way, answers its requests in order. *)
Matches(c) ==
  /\ Len(got[c]) + Len(toCli[c]) <= Len(asks[c])
  /\ \A j \in 1..Len(got[c]) : got[c][j] = Rep(asks[c][j])
  /\ \A j \in 1..Len(toCli[c]) : toCli[c][j] = Rep(asks[c][Len(got[c]) + j])
(* Where c is, and what is on the wire for it: one request or its answer.  *)
Place(c) ==
  /\ cpc[c] = "start" => fdOf[c] = -1 /\ ~InBacklog(c) /\ asks[c] = << >>
  /\ cpc[c] \in {"start", "gone"} /\ fdOf[c] = -1 /\ ~InBacklog(c) /\ spc # "dead" =>
       toServ[c] = << >>
  /\ cpc[c] \in {"conn", "asked"} /\ spc # "dead" => fdOf[c] # -1 \/ InBacklog(c)
  /\ cpc[c] = "conn" => toServ[c] = << >> /\ Len(asks[c]) = Len(got[c])
  /\ cpc[c] = "asked" =>
       /\ Len(asks[c]) = Len(got[c]) + 1
       /\ \/ toServ[c] = << >> /\ Len(toCli[c]) = 1
          \/ Len(toServ[c]) = 1 /\ toServ[c][1] = asks[c][Len(asks[c])] /\ Len(toCli[c]) = 0
FlowOk == \A c \in Clients : Matches(c) /\ Place(c)
OsInv == OsType /\ OneEach /\ Entries /\ Watched /\ ScanOk /\ QueueOk /\ FlowOk

-----------------------------------------------------------------------------
LEMMA LeastFd == ASSUME NEW T, T \subseteq Nat, T # {} PROVE O!Min(T) \in T
<1>1. PICK x \in T : \A y \in T : ~(<<y, x>> \in OpToRel(<, Nat))
  BY NatLessThanWellFounded, WFMin
<1>2. \A y \in T : <<y, x>> \in OpToRel(<, Nat) <=> y < x
  BY DEF OpToRel
<1>3. \A y \in T : ~(y < x)
  BY <1>1, <1>2, Zenon
<1> HIDE <1>1, <1>2
<1>4. \A y \in T : x <= y
  BY <1>3
<1>5. QED BY <1>4 DEF O!Min

LEMMA CardClients == Cardinality(Clients) \in Nat /\ IsFiniteSet(Clients)
BY OpenAssumption, FS_CardinalityType

(* The kernel has a descriptor to give: the candidates are one more than   *)
(* the clients.                                                            *)
LEMMA FreshFd ==
  ASSUME OsType
  PROVE  O!NewFd \in Nat /\ O!NewFd > 3 /\ \A c \in Clients : fdOf[c] # O!NewFd
<1> DEFINE cands == 4..(4 + Cardinality(Clients))
           used  == {fdOf[c] : c \in Clients}
<1>1. Cardinality(Clients) \in Nat /\ IsFiniteSet(Clients)
  BY CardClients
<1>2. IsFiniteSet(used) /\ Cardinality(used) <= Cardinality(Clients)
  <2>1. fdOf \in Surjection(Clients, used)
    BY DEF OsType, Surjection
  <2>2. QED BY <1>1, <2>1, FS_Surjection
<1>3. Cardinality(cands) = Cardinality(Clients) + 1
  BY <1>1, FS_Interval
<1>4. cands \ used # {}
  <2>1. SUFFICES ASSUME cands \subseteq used PROVE FALSE
    OBVIOUS
  <2>2. cands \in SUBSET used BY <2>1
  <2>3. Cardinality(cands) <= Cardinality(used)
    BY <1>2, <2>2, FS_Subset
  <2>4. Cardinality(used) \in Nat BY <1>2, FS_CardinalityType
  <2>5. QED BY <1>1, <1>2, <1>3, <2>3, <2>4
<1>5. cands \ used \subseteq Nat
  BY <1>1
<1>6. O!Min(cands \ used) \in cands \ used
  BY <1>4, <1>5, LeastFd
<1>7. O!NewFd = O!Min(cands \ used)
  <2>1. O!listenfd + 1 = 4 /\ O!listenfd + 1 + O!Cardinality(Clients) = 4 + Cardinality(Clients)
    BY <1>1, OpendCard DEF O!listenfd
  <2>2. QED BY <2>1 DEF O!NewFd
<1>8. \A c \in Clients : fdOf[c] \in used
  OBVIOUS
<1> HIDE DEF used
<1>9. O!NewFd \in cands /\ O!NewFd \notin used
  BY <1>6, <1>7
<1>10. QED BY <1>1, <1>8, <1>9

(* The table is full: every entry has a holder, and one client waits.      *)
LEMMA FullTable ==
  ASSUME OsType, OneEach, Entries, NEW h \in Clients, fdOf[h] = -1,
         \A j \in 1..Len(client) : client[j] # -1
  PROVE  Len(client) <= Cardinality(Clients)
<1> DEFINE Of(j) == IF client[j] = 3 THEN h ELSE CHOOSE c \in Clients : fdOf[c] = client[j]
           g == [j \in 1..Len(client) |-> Of(j)]
<1>1. Len(client) \in Nat
  BY DEF OsType
<1>2. \A j \in 1..Len(client) : client[j] # 3 => \E c \in Clients : fdOf[c] = client[j]
  BY DEF Entries
<1>3. \A j \in 1..Len(client) : client[j] # 3 => Of(j) \in Clients /\ fdOf[Of(j)] = client[j]
  BY <1>2
<1>4. g \in [1..Len(client) -> Clients]
  BY <1>3
<1>5. \A j, k \in 1..Len(client) : g[j] = g[k] => j = k
  <2>1. TAKE j, k \in 1..Len(client)
  <2>2. HAVE g[j] = g[k]
  <2>3. Of(j) = Of(k) BY <2>2
  <2>4. client[j] = client[k]
    BY <1>3, <2>3
  <2>5. QED BY <2>4 DEF OneEach
<1>6. g \in Injection(1..Len(client), Clients)
  <2> HIDE DEF g
  <2>1. QED BY <1>4, <1>5 DEF Injection, IsInjective
<1>7. Cardinality(1..Len(client)) <= Cardinality(Clients)
  BY <1>6, CardClients, FS_Injection
<1>8. Cardinality(1..Len(client)) = Len(client)
  <2>1. 1 \in Int /\ Len(client) \in Int BY <1>1
  <2>2. Cardinality(1..Len(client)) = IF 1 > Len(client) THEN 0 ELSE Len(client) - 1 + 1
    BY <2>1, FS_Interval
  <2>3. QED BY <1>1, <2>2
<1>9. QED BY <1>7, <1>8

(* client_add.                                                             *)
Added(a, k, fd) ==
  /\ a \in Seq(Int) /\ Len(client) <= Len(a) /\ k \in 1..Len(a) /\ a[k] = fd
  /\ \A j \in 1..Len(a) : j # k => a[j] = IF j <= Len(client) THEN client[j] ELSE -1
  /\ k <= Len(client) => client[k] = -1
  /\ Len(a) <= Cardinality(Clients) + NALLOC

LEMMA AddEntry ==
  ASSUME OsType, OneEach, Entries, NEW h \in Clients, fdOf[h] = -1, NEW fd \in Int
  PROVE  \E k \in Nat : Added(O!client_add(fd), k, fd)
<1> DEFINE more == [j \in 1..NALLOC |-> -1]
           a == IF -1 \in O!Range(client) THEN client ELSE client \o more
           gaps == {j \in DOMAIN a : a[j] = -1}
           k == O!Min(gaps)
<1>1. client \in Seq(Int) /\ Len(client) \in Nat /\ NALLOC \in Nat /\ NALLOC > 0
  BY OpenAssumption DEF OsType
<1>2. more \in Seq(Int) /\ Len(more) = NALLOC
  BY <1>1
<1>3. CASE -1 \in O!Range(client)
  <2>1. O!client_add(fd) = [client EXCEPT ![k] = fd]
    BY <1>3 DEF O!client_add, O!Free
  <2>2. k = O!Min(gaps) /\ gaps = {j \in DOMAIN client : client[j] = -1}
    BY <1>3
  <2>3. DOMAIN client = 1..Len(client)
    BY <1>1
  <2>4. gaps # {}
    BY <1>3, <2>2 DEF O!Range
  <2> HIDE DEF k, gaps
  <2>5. gaps \subseteq Nat
    BY <2>2, <2>3
  <2>6. k \in gaps BY <2>2, <2>4, <2>5, LeastFd
  <2>7. k \in 1..Len(client) /\ client[k] = -1 BY <2>2, <2>3, <2>6
  <2>8. /\ [client EXCEPT ![k] = fd] \in Seq(Int) /\ Len([client EXCEPT ![k] = fd]) = Len(client)
        /\ \A j \in 1..Len(client) : [client EXCEPT ![k] = fd][j] = IF j = k THEN fd ELSE client[j]
    BY <1>1, <2>7, ExceptSeq
  <2>9. Len(client) <= Cardinality(Clients) + NALLOC
    BY DEF OsType
  <2>10. Added([client EXCEPT ![k] = fd], k, fd)
    BY <1>1, <2>7, <2>8, <2>9 DEF Added
  <2>11. QED BY <2>1, <2>5, <2>6, <2>10
<1>4. CASE -1 \notin O!Range(client)
  <2>1. O!client_add(fd) = [a EXCEPT ![k] = fd]
    BY <1>4 DEF O!client_add, O!Free
  <2>2. a = client \o more /\ k = O!Min(gaps) /\ gaps = {j \in DOMAIN a : a[j] = -1}
    BY <1>4
  <2>3. \A j \in 1..Len(client) : client[j] # -1
    BY <1>1, <1>4 DEF O!Range
  <2>4. \A j \in 1..NALLOC : more[j] = -1
    OBVIOUS
  <2> HIDE DEF k, gaps, a, more
  <2>5. /\ a \in Seq(Int) /\ Len(a) = Len(client) + NALLOC /\ DOMAIN a = 1..(Len(client) + NALLOC)
        /\ \A j \in 1..Len(a) : a[j] = IF j <= Len(client) THEN client[j] ELSE -1
    <3>1. /\ a \in Seq(Int) /\ Len(a) = Len(client) + Len(more)
          /\ \A j \in 1..(Len(client) + Len(more)) :
               a[j] = IF j <= Len(client) THEN client[j] ELSE more[j - Len(client)]
      BY <1>1, <1>2, <2>2, ConcatProperties
    <3>2. \A j \in 1..Len(a) : j <= Len(client) \/ j - Len(client) \in 1..NALLOC
      BY <1>1, <1>2, <3>1
    <3>3. QED BY <1>1, <1>2, <2>4, <3>1, <3>2
  <2>6. Len(client) + 1 \in gaps /\ gaps \subseteq Nat
    BY <1>1, <2>2, <2>5
  <2>7. k \in gaps BY <2>2, <2>6, LeastFd
  <2>8. k \in 1..Len(a) /\ ~(k <= Len(client))
    <3>1. k \in DOMAIN a /\ a[k] = -1 BY <2>2, <2>7
    <3>2. k \in 1..Len(a) BY <2>5, <3>1
    <3>3. k <= Len(client) => k \in 1..Len(client) /\ a[k] = client[k] BY <1>1, <2>5, <3>2
    <3>4. QED BY <2>3, <3>1, <3>2, <3>3
  <2>9. Len(client) <= Cardinality(Clients)
    BY <2>3, FullTable
  <2>10. /\ [a EXCEPT ![k] = fd] \in Seq(Int) /\ Len([a EXCEPT ![k] = fd]) = Len(a)
         /\ \A j \in 1..Len(a) : [a EXCEPT ![k] = fd][j] = IF j = k THEN fd ELSE a[j]
    BY <2>5, <2>8, ExceptSeq
  <2>11. Len(a) <= Cardinality(Clients) + NALLOC
    BY <1>1, <2>5, <2>9, CardClients
  <2>12. Added([a EXCEPT ![k] = fd], k, fd)
    <3> DEFINE b == [a EXCEPT ![k] = fd]
    <3>1. b \in Seq(Int) /\ Len(b) = Len(a) /\ \A j \in 1..Len(a) : b[j] = IF j = k THEN fd ELSE a[j]
      BY <2>10
    <3> HIDE DEF b
    <3>2. Added(b, k, fd)
      <4>1. Len(client) <= Len(b) /\ k \in 1..Len(b) /\ b[k] = fd
        BY <1>1, <2>5, <2>8, <3>1
      <4>2. \A j \in 1..Len(b) : j # k => b[j] = IF j <= Len(client) THEN client[j] ELSE -1
        BY <2>5, <3>1
      <4>3. Len(b) <= Cardinality(Clients) + NALLOC
        BY <2>11, <3>1
      <4>4. QED BY <2>8, <3>1, <4>1, <4>2, <4>3 DEF Added
    <3>3. QED BY <3>2 DEF b
  <2>13. QED BY <2>1, <2>6, <2>7, <2>12
<1>5. QED BY <1>3, <1>4

-----------------------------------------------------------------------------
TableInv == OneEach /\ Entries /\ Watched

LEMMA TableSame ==
  ASSUME TableInv, UNCHANGED <<mux, client, maxi, allset, fdOf>> PROVE TableInv'
BY DEF TableInv, OneEach, Entries, Watched, Conns

LEMMA QueueSame == ASSUME QueueOk, UNCHANGED <<backlog, fdOf, cpc>> PROVE QueueOk'
BY DEF QueueOk

(* What the flow of one client depends on.                                 *)
FlowOf(c) == <<cpc[c], toServ[c], toCli[c], asks[c], got[c], fdOf[c]>>
LEMMA FlowSame ==
  ASSUME NEW c, Matches(c), Place(c), FlowOf(c)' = FlowOf(c), InBacklog(c)' <=> InBacklog(c),
         spc # "dead" \/ spc' = "dead"
  PROVE  Matches(c)' /\ Place(c)'
<1> USE DEF FlowOf
<1>1. Matches(c)' BY DEF Matches
<1>2. Place(c)' BY DEF Place
<1>3. QED BY <1>1, <1>2

LEMMA InBacklogSame == ASSUME UNCHANGED backlog PROVE \A c : InBacklog(c)' <=> InBacklog(c)
BY DEF InBacklog

(* The daemon moves, nothing else does.                                    *)
LEMMA DaemonMoves ==
  ASSUME OsInv, spc # "dead", UNCHANGED <<mux, client, maxi, allset, fdOf, backlog, cpc, toServ,
                                          toCli, asks, got>>,
         spc' \in {"wait", "accept", "scan", "dead"}, scan' \in Int, scan' >= 1, ScanOk'
  PROVE  OsInv'
<1>1. OsType' BY DEF OsInv, OsType
<1>2. TableInv' BY TableSame DEF OsInv, TableInv
<1>3. QueueOk' BY QueueSame DEF OsInv
<1>4. FlowOk'
  BY FlowSame, InBacklogSame DEF OsInv, FlowOk, FlowOf
<1>5. QED BY <1>1, <1>2, <1>3, <1>4 DEF OsInv, TableInv

LEMMA WaitStep == ASSUME OsInv, O!Wait PROVE OsInv'
<1>1. /\ spc = "wait" /\ rset' = O!Readable
      /\ spc' = IF 3 \in O!Readable THEN "accept" ELSE "scan"
      /\ scan' = IF mux = "poll" THEN 2 ELSE 1
      /\ UNCHANGED <<mux, client, maxi, allset, fdOf, backlog, cpc, toServ, toCli, asks, got>>
  BY DEF O!Wait, O!table, O!clients, O!wires, O!listenfd
<1>2. -1 \notin O!Readable
  BY DEF O!Readable, OsInv, Watched, Conns
<1>3. 3 \in O!Readable => backlog # << >>
  BY DEF O!Readable, O!listenfd, OsInv, Entries
<1>4. ScanOk'
  BY <1>1, <1>2, <1>3 DEF ScanOk
<1>5. QED BY <1>1, <1>4, DaemonMoves

LEMMA ScanGoes ==
  ASSUME OsInv, spc = "scan", O!ScanOn, UNCHANGED <<mux, rset>>
  PROVE  spc' \in {"wait", "scan"} /\ scan' \in Int /\ scan' >= 1 /\ ScanOk'
<1>1. /\ scan \in Int /\ scan >= 1 /\ -1 \notin rset /\ (mux = "poll" => scan >= 2)
  BY DEF OsInv, OsType, ScanOk
<1>2. \/ spc' = "scan" /\ scan' = scan + 1
      \/ spc' = "wait" /\ scan' = scan
  BY DEF O!ScanOn
<1>3. QED BY <1>1, <1>2 DEF ScanOk

LEMMA SkipStep == ASSUME OsInv, O!Skip PROVE OsInv'
<1>1. /\ spc = "scan" /\ O!ScanOn
      /\ UNCHANGED <<mux, client, maxi, allset, fdOf, rset, backlog, cpc, toServ, toCli, asks, got>>
  BY DEF O!Skip, O!table, O!clients, O!wires
<1>2. QED BY <1>1, ScanGoes, DaemonMoves

(* The entry the scan is at belongs to a client.                           *)
LEMMA Scanned ==
  ASSUME OsInv, spc = "scan", scan <= maxi, client[scan] \in rset
  PROVE  /\ scan \in 1..Len(client) /\ O!Holder(client[scan]) \in Clients
         /\ fdOf[O!Holder(client[scan])] = client[scan] /\ client[scan] # -1
<1>1. scan \in 1..Len(client)
  BY DEF OsInv, OsType
<1>2. client[scan] # -1 /\ (mux = "poll" => scan # 1)
  BY DEF OsInv, ScanOk
<1>3. \E c \in Clients : fdOf[c] = client[scan]
  BY <1>1, <1>2 DEF OsInv, Entries
<1>4. QED BY <1>1, <1>2, <1>3 DEF O!Holder

LEMMA OneItem ==
  ASSUME NEW T, NEW s \in Seq(T), Len(s) = 1
  PROVE  Head(s) = s[1] /\ s[1] \in T /\ Tail(s) = << >>
<1>1. s # << >> BY EmptySeq
<1>2. Tail(s) \in Seq(T) /\ Len(Tail(s)) = 0
  BY <1>1, HeadTailProperties
<1>3. Tail(s) = << >> BY <1>2, EmptySeq
<1>4. s[1] \in T BY ElementOfSeq
<1>5. Head(s) = s[1] BY <1>1
<1>6. QED BY <1>3, <1>4, <1>5

LEMMA ServeFlow ==
  ASSUME OsInv, NEW c \in Clients, fdOf[c] # -1, toServ[c] # << >>, cpc[c] # "gone",
         toServ' = [toServ EXCEPT ![c] = Tail(@)], O!request(c, Head(toServ[c])),
         UNCHANGED <<cpc, asks, got, fdOf, backlog>>, spc # "dead", spc' # "dead"
  PROVE  /\ toServ' \in [Clients -> Seq(Names)] /\ toCli' \in [Clients -> Seq(Replies)]
         /\ FlowOk'
<1>1. /\ toServ \in [Clients -> Seq(Names)] /\ toCli \in [Clients -> Seq(Replies)]
      /\ asks \in [Clients -> Seq(Names)] /\ got \in [Clients -> Seq(Replies)]
      /\ cpc[c] \in {"start", "conn", "asked", "gone"}
      /\ \A d \in Clients : Matches(d) /\ Place(d)
  BY DEF OsInv, OsType, FlowOk
<1>2. cpc[c] = "asked"
  BY <1>1 DEF Place
<1>3. /\ Len(asks[c]) = Len(got[c]) + 1 /\ Len(toServ[c]) = 1 /\ Len(toCli[c]) = 0
      /\ toServ[c][1] = asks[c][Len(asks[c])]
  BY <1>1, <1>2 DEF Place
<1> DEFINE n == Head(toServ[c])
<1>4. n \in Names /\ n = asks[c][Len(asks[c])] /\ Tail(toServ[c]) = << >>
  <2>1. toServ[c] \in Seq(Names) BY <1>1
  <2>2. QED BY <1>3, <2>1, OneItem
<1>5. toCli[c] = << >>
  BY <1>1, <1>3
<1>6. toCli' = [toCli EXCEPT ![c] = Append(@, Rep(n))]
  BY DEF O!request, Rep
<1> HIDE DEF n
<1>7. Rep(n) \in Replies
  BY <1>4 DEF Rep, Replies
<1>8. toCli'[c] = <<Rep(n)>> /\ toServ'[c] = << >>
  BY <1>1, <1>4, <1>5, <1>6
<1>9. /\ toServ' \in [Clients -> Seq(Names)] /\ toCli' \in [Clients -> Seq(Replies)]
  BY <1>1, <1>4, <1>5, <1>6, <1>7
<1>10. \A d \in Clients : d # c => toServ'[d] = toServ[d] /\ toCli'[d] = toCli[d]
  BY <1>1, <1>6
<1>11. Matches(c)' /\ Place(c)'
  <2>1. Matches(c)'
    <3>1. Len(toCli'[c]) = 1 /\ toCli'[c][1] = Rep(n) BY <1>8
    <3>2. Len(got[c]) \in Nat /\ Len(asks[c]) \in Nat BY <1>1
    <3>3. Len(got'[c]) + Len(toCli'[c]) <= Len(asks'[c])
      BY <1>3, <3>1, <3>2
    <3>4. \A j \in 1..Len(toCli'[c]) : toCli'[c][j] = Rep(asks'[c][Len(got'[c]) + j])
      BY <1>3, <1>4, <3>1, <3>2
    <3>5. \A j \in 1..Len(got'[c]) : got'[c][j] = Rep(asks'[c][j])
      BY <1>1 DEF Matches
    <3>6. QED BY <3>3, <3>4, <3>5 DEF Matches
  <2>2. Place(c)'
    BY <1>1, <1>2, <1>3, <1>8 DEF Place
  <2>3. QED BY <2>1, <2>2
<1>12. ASSUME NEW d \in Clients, d # c PROVE Matches(d)' /\ Place(d)'
  BY <1>1, <1>10, <1>12, FlowSame, InBacklogSame DEF FlowOf
<1>13. QED BY <1>9, <1>11, <1>12 DEF FlowOk

LEMMA ServeDies ==
  ASSUME OsInv, NEW c \in Clients, cpc[c] = "gone", toServ' = [toServ EXCEPT ![c] = Tail(@)],
         toServ[c] # << >>, UNCHANGED <<cpc, asks, got, fdOf, backlog, toCli>>, spc' = "dead"
  PROVE  toServ' \in [Clients -> Seq(Names)] /\ FlowOk'
<1>1. /\ toServ \in [Clients -> Seq(Names)] /\ \A d \in Clients : Matches(d) /\ Place(d)
  BY DEF OsInv, OsType, FlowOk
<1>2. toServ' \in [Clients -> Seq(Names)]
  BY <1>1
<1>3. ASSUME NEW d \in Clients PROVE Matches(d)' /\ Place(d)'
  <2>1. Matches(d)' BY <1>1 DEF Matches
  <2>2. d # c => toServ'[d] = toServ[d] BY <1>1
  <2>3. Place(d)' BY <1>1, <2>2, InBacklogSame DEF Place
  <2>4. QED BY <2>1, <2>3
<1>4. QED BY <1>2, <1>3 DEF FlowOk

LEMMA ServeEntry == ASSUME OsInv, O!Serve PROVE OsInv'
<1> DEFINE c == O!Holder(client[scan])
<1>1. /\ spc = "scan" /\ scan <= maxi /\ client[scan] \in rset /\ toServ[c] # << >>
      /\ toServ' = [toServ EXCEPT ![c] = Tail(@)]
      /\ IF cpc[c] = "gone" THEN spc' = "dead" /\ UNCHANGED <<scan, toCli>>
                            ELSE O!ScanOn /\ O!request(c, Head(toServ[c]))
      /\ UNCHANGED <<mux, client, maxi, allset, fdOf, rset, backlog, cpc, asks, got>>
  BY DEF O!Serve, O!table, O!clients
<1>2. c \in Clients /\ fdOf[c] # -1
  BY <1>1, Scanned
<1> HIDE DEF c
<1>3. TableInv' /\ QueueOk'
  BY <1>1, TableSame, QueueSame DEF OsInv, TableInv
<1>4. CASE cpc[c] = "gone"
  <2>1. toServ' \in [Clients -> Seq(Names)] /\ FlowOk'
    BY <1>1, <1>2, <1>4, ServeDies
  <2>2. ScanOk' BY <1>1, <1>4 DEF OsInv, ScanOk
  <2>3. OsType' BY <1>1, <1>4, <2>1 DEF OsInv, OsType
  <2>4. QED BY <1>3, <2>1, <2>2, <2>3 DEF OsInv, TableInv
<1>5. CASE cpc[c] # "gone"
  <2>1. spc' \in {"wait", "scan"} /\ scan' \in Int /\ scan' >= 1 /\ ScanOk'
    BY <1>1, <1>5, ScanGoes
  <2>2. /\ toServ' \in [Clients -> Seq(Names)] /\ toCli' \in [Clients -> Seq(Replies)] /\ FlowOk'
    <3>1. spc # "dead" /\ spc' # "dead" BY <1>1, <2>1
    <3>2. QED BY <1>1, <1>2, <1>5, <3>1, ServeFlow
  <2>3. OsType' BY <1>1, <2>1, <2>2 DEF OsInv, OsType
  <2>4. QED BY <1>3, <2>1, <2>2, <2>3 DEF OsInv, TableInv
<1>6. QED BY <1>4, <1>5

-----------------------------------------------------------------------------
(* client_del and the end of a connection.                                 *)
LEMMA HangupStep == ASSUME OsInv, O!Hangup PROVE OsInv'
<1> DEFINE fd == client[scan]
           c  == O!Holder(fd)
<1>1. /\ spc = "scan" /\ scan <= maxi /\ fd \in rset /\ toServ[c] = << >> /\ cpc[c] = "gone"
      /\ O!client_del(fd) /\ allset' = allset \ {fd} /\ fdOf' = [fdOf EXCEPT ![c] = -1]
      /\ O!ScanOn
      /\ UNCHANGED <<mux, maxi, rset, backlog, cpc, asks, got, toServ, toCli>>
  BY DEF O!Hangup, O!clients, O!wires, O!Free
<1>2. scan \in 1..Len(client) /\ c \in Clients /\ fdOf[c] = fd /\ fd # -1
  BY <1>1, Scanned
<1>3. client' = [client EXCEPT ![scan] = -1]
  <2> DEFINE hits == {j \in DOMAIN client : client[j] = fd}
  <2>1. DOMAIN client = 1..Len(client) BY DEF OsInv, OsType
  <2>2. hits = {scan}
    BY <1>2, <2>1 DEF OsInv, OneEach
  <2>3. client' = [client EXCEPT ![O!Min(hits)] = -1]
    BY <1>1 DEF O!client_del, O!Free
  <2> HIDE DEF hits
  <2>4. O!Min(hits) = scan
    <3>1. hits # {} /\ hits \subseteq Nat BY <1>2, <2>2
    <3>2. O!Min(hits) \in hits BY <3>1, LeastFd
    <3>3. QED BY <2>2, <3>2
  <2>5. QED BY <2>3, <2>4
<1>4. fd = client[scan] OBVIOUS
<1> HIDE DEF c, fd
<1>5. /\ client \in Seq(Int) /\ fdOf \in [Clients -> Int] /\ Len(client) \in Nat
      /\ maxi \in Int /\ maxi <= Len(client)
  BY DEF OsInv, OsType
<1>6. /\ client' \in Seq(Int) /\ Len(client') = Len(client)
      /\ \A j \in 1..Len(client) : client'[j] = IF j = scan THEN -1 ELSE client[j]
  BY <1>2, <1>3, <1>5, ExceptSeq
<1>7. fdOf' \in [Clients -> Int] /\ \A d \in Clients : fdOf'[d] = IF d = c THEN -1 ELSE fdOf[d]
  BY <1>1, <1>2, <1>5
<1>8. spc' \in {"wait", "scan"} /\ scan' \in Int /\ scan' >= 1 /\ ScanOk'
  BY <1>1, ScanGoes
<1>9. OsType'
  BY <1>1, <1>6, <1>7, <1>8 DEF OsInv, OsType
<1>10. OneEach'
  BY <1>6, <1>7 DEF OsInv, OneEach
<1>11. Entries'
  <2>1. ASSUME NEW d \in Clients, fdOf'[d] # -1
        PROVE  fdOf'[d] > 3 /\ \E j \in 1..maxi' : client'[j] = fdOf'[d]
    <3>1. d # c /\ fdOf'[d] = fdOf[d] BY <1>7, <2>1
    <3>2. fdOf[d] > 3 /\ \E j \in 1..maxi : client[j] = fdOf[d]
      BY <2>1, <3>1 DEF OsInv, Entries
    <3>3. fdOf[d] # fd
      BY <1>2, <2>1, <3>1 DEF OsInv, OneEach
    <3>4. PICK j \in 1..maxi : client[j] = fdOf[d] BY <3>2
    <3>5. j \in 1..Len(client) /\ j # scan BY <1>4, <1>5, <3>3, <3>4
    <3>6. client'[j] = fdOf'[d] /\ j \in 1..maxi' BY <1>1, <1>6, <3>1, <3>4, <3>5
    <3>7. QED BY <3>1, <3>2, <3>6
  <2>2. ASSUME NEW j \in 1..Len(client')
        PROVE  \/ client'[j] = -1 \/ (mux' = "poll" /\ j = 1 /\ client'[j] = 3)
               \/ \E d \in Clients : fdOf'[d] = client'[j]
    <3>1. CASE j = scan BY <1>6, <2>2, <3>1
    <3>2. CASE j # scan
      <4>1. client'[j] = client[j] BY <1>6, <2>2, <3>2
      <4>2. client[j] # -1 => client[j] # fd
        BY <1>2, <1>4, <1>6, <2>2, <3>2 DEF OsInv, OneEach
      <4>3. \A d \in Clients : fdOf[d] = client[j] /\ client[j] # -1 => fdOf'[d] = client[j]
        BY <1>2, <1>7, <4>2
      <4>4. QED BY <1>1, <1>6, <2>2, <4>1, <4>3 DEF OsInv, Entries
    <3>3. QED BY <3>1, <3>2
  <2>3. mux' = "poll" => Len(client') >= 1 /\ client'[1] = 3
    <3>1. mux = "poll" => scan # 1 BY <1>1 DEF OsInv, ScanOk
    <3>2. QED BY <1>1, <1>5, <1>6, <3>1 DEF OsInv, Entries
  <2>4. QED BY <2>1, <2>2, <2>3 DEF Entries
<1>12. Watched'
  <2>1. allset = Conns \cup {3} /\ fd # 3
    BY <1>2 DEF OsInv, Watched, Entries
  <2>2. \A x : x \in Conns' <=> x \in Conns /\ x # fd
    <3>1. \A d \in Clients : d # c => fdOf[d] # fd
      BY <1>2 DEF OsInv, OneEach
    <3>2. QED BY <1>2, <1>7, <3>1 DEF Conns
  <2>3. QED BY <1>1, <2>1, <2>2 DEF Watched
<1>13. QueueOk'
  <2>1. \A j \in 1..Len(backlog) : backlog[j] \in Clients
    BY ElementOfSeq DEF OsInv, OsType
  <2>2. \A j \in 1..Len(backlog) : fdOf'[backlog[j]] = -1
    BY <1>7, <2>1 DEF OsInv, QueueOk
  <2>3. QED BY <1>1, <2>2 DEF OsInv, QueueOk
<1>14. FlowOk'
  <2>1. ASSUME NEW d \in Clients PROVE Matches(d)' /\ Place(d)'
    <3>1. Matches(d) /\ Place(d) BY DEF OsInv, FlowOk
    <3>2. InBacklog(d)' <=> InBacklog(d) BY <1>1, InBacklogSame
    <3>3. CASE d # c
      BY <1>1, <1>7, <1>8, <3>1, <3>2, <3>3, FlowSame DEF FlowOf
    <3>4. CASE d = c
      <4>1. Matches(d)' BY <1>1, <3>1 DEF Matches
      <4>2. Place(d)' BY <1>1, <3>1, <3>4 DEF Place
      <4>3. QED BY <4>1, <4>2
    <3>5. QED BY <3>3, <3>4
  <2>2. QED BY <2>1 DEF FlowOk
<1>15. QED BY <1>8, <1>9, <1>10, <1>11, <1>12, <1>13, <1>14 DEF OsInv

-----------------------------------------------------------------------------
(* serv_accept takes the first of the queue.                               *)
LEMMA Dequeued ==
  ASSUME OsInv, spc = "accept", backlog' = Tail(backlog)
  PROVE  /\ backlog # << >> /\ Head(backlog) \in Clients /\ fdOf[Head(backlog)] = -1
         /\ cpc[Head(backlog)] # "start" /\ backlog' \in Seq(Clients)
         /\ Len(backlog') = Len(backlog) - 1
         /\ \A j \in 1..Len(backlog') : backlog'[j] = backlog[j + 1]
         /\ \A c \in Clients : InBacklog(c)' <=> InBacklog(c) /\ c # Head(backlog)
<1>1. backlog \in Seq(Clients) /\ backlog # << >> /\ Len(backlog) \in Nat /\ Len(backlog) >= 1
  BY EmptySeq DEF OsInv, OsType, ScanOk
<1>2. /\ Head(backlog) \in Clients /\ backlog' \in Seq(Clients)
      /\ Len(backlog') = Len(backlog) - 1
      /\ \A j \in 1..Len(backlog') : backlog'[j] = backlog[j + 1]
  BY <1>1, HeadTailProperties
<1>3. Head(backlog) = backlog[1] /\ 1 \in 1..Len(backlog)
  BY <1>1
<1>4. fdOf[Head(backlog)] = -1 /\ cpc[Head(backlog)] # "start"
  BY <1>3 DEF OsInv, QueueOk
<1>5. ASSUME NEW c \in Clients, c # Head(backlog) PROVE InBacklog(c)' <=> InBacklog(c)
  <2>1. ASSUME InBacklog(c) PROVE InBacklog(c)'
    <3>1. PICK j \in 1..Len(backlog) : backlog[j] = c BY <2>1 DEF InBacklog
    <3>2. j # 1 BY <1>3, <1>5, <3>1
    <3>3. j - 1 \in 1..Len(backlog') /\ (j - 1) + 1 = j BY <1>1, <1>2, <3>2
    <3>4. backlog'[j - 1] = c BY <1>2, <3>1, <3>3
    <3>5. QED BY <3>3, <3>4 DEF InBacklog
  <2>2. ASSUME InBacklog(c)' PROVE InBacklog(c)
    <3>1. PICK j \in 1..Len(backlog') : backlog'[j] = c BY <2>2 DEF InBacklog
    <3>2. j + 1 \in 1..Len(backlog) /\ backlog[j + 1] = c BY <1>1, <1>2, <3>1
    <3>3. QED BY <3>2 DEF InBacklog
  <2>3. QED BY <2>1, <2>2
<1>6. ASSUME NEW c \in Clients, c = Head(backlog) PROVE ~InBacklog(c)'
  <2>1. ASSUME NEW j \in 1..Len(backlog'), backlog'[j] = Head(backlog) PROVE FALSE
    <3>1. j + 1 \in 1..Len(backlog) /\ backlog[j + 1] = backlog[1] /\ j + 1 # 1
      BY <1>1, <1>2, <1>3, <2>1
    <3>2. QED BY <1>3, <3>1 DEF OsInv, QueueOk
  <2>2. QED BY <1>6, <2>1 DEF InBacklog
<1>7. QED BY <1>1, <1>2, <1>4, <1>5, <1>6

LEMMA QueueTail ==
  ASSUME OsInv, spc = "accept", backlog' = Tail(backlog), UNCHANGED cpc,
         \A c \in Clients : c # Head(backlog) => fdOf'[c] = fdOf[c]
  PROVE  QueueOk'
<1>1. /\ backlog' \in Seq(Clients) /\ Len(backlog') = Len(backlog) - 1 /\ Len(backlog) \in Nat
      /\ \A j \in 1..Len(backlog') : backlog'[j] = backlog[j + 1]
      /\ \A c \in Clients : InBacklog(c)' => c # Head(backlog)
  <2>1. Len(backlog) \in Nat BY DEF OsInv, OsType
  <2>2. QED BY <2>1, Dequeued
<1>2. \A j \in 1..Len(backlog') : j + 1 \in 1..Len(backlog)
  BY <1>1
<1>3. ASSUME NEW j \in 1..Len(backlog'), NEW k \in 1..Len(backlog'), backlog'[j] = backlog'[k]
      PROVE  j = k
  <2>1. j + 1 = k + 1
    BY <1>1, <1>2, <1>3 DEF OsInv, QueueOk
  <2>2. QED BY <2>1
<1>4. ASSUME NEW j \in 1..Len(backlog')
      PROVE  fdOf'[backlog'[j]] = -1 /\ cpc'[backlog'[j]] # "start"
  <2>1. backlog'[j] \in Clients BY <1>1, <1>4, ElementOfSeq
  <2>2. backlog'[j] # Head(backlog) BY <1>1, <1>4, <2>1 DEF InBacklog
  <2>3. fdOf[backlog[j + 1]] = -1 /\ cpc[backlog[j + 1]] # "start"
    BY <1>2, <1>4 DEF OsInv, QueueOk
  <2>4. QED BY <1>1, <1>4, <2>1, <2>2, <2>3
<1>5. QED BY <1>3, <1>4 DEF QueueOk

LEMMA AcceptDies ==
  ASSUME OsInv, spc = "accept", backlog' = Tail(backlog), spc' = "dead",
         UNCHANGED <<mux, scan, client, maxi, allset, fdOf, rset, cpc, asks, got, toServ, toCli>>
  PROVE  OsInv'
<1>1. backlog' \in Seq(Clients) BY Dequeued
<1>2. OsType' BY <1>1 DEF OsInv, OsType
<1>3. TableInv' BY TableSame DEF OsInv, TableInv
<1>4. ScanOk' BY DEF OsInv, ScanOk
<1>5. QueueOk' BY QueueTail
<1>6. FlowOk'
  <2>1. ASSUME NEW c \in Clients PROVE Matches(c)' /\ Place(c)'
    <3>1. Matches(c) /\ Place(c) BY DEF OsInv, FlowOk
    <3>2. InBacklog(c)' => InBacklog(c) BY Dequeued
    <3>3. Matches(c)' BY <3>1 DEF Matches
    <3>4. Place(c)' BY <3>1, <3>2 DEF Place
    <3>5. QED BY <3>3, <3>4
  <2>2. QED BY <2>1 DEF FlowOk
<1>7. QED BY <1>2, <1>3, <1>4, <1>5, <1>6 DEF OsInv, TableInv

(* The new connection in the table.                                        *)
LEMMA TableGrows ==
  ASSUME OsInv, NEW h \in Clients, fdOf[h] = -1, NEW fd \in Nat, fd > 3,
         \A c \in Clients : fdOf[c] # fd, NEW k \in Nat, Added(client', k, fd),
         fdOf' = [fdOf EXCEPT ![h] = fd], allset' = allset \cup {fd},
         maxi' = IF maxi >= k THEN maxi ELSE k, UNCHANGED mux
  PROVE  TableInv' /\ fdOf' \in [Clients -> Int] /\ maxi' \in Int /\ 0 <= maxi' /\ maxi' <= Len(client')
<1>1. /\ client \in Seq(Int) /\ fdOf \in [Clients -> Int] /\ Len(client) \in Nat
      /\ maxi \in Int /\ maxi <= Len(client) /\ 0 <= maxi
  BY DEF OsInv, OsType
<1>2. /\ client' \in Seq(Int) /\ Len(client) <= Len(client') /\ k \in 1..Len(client')
      /\ client'[k] = fd /\ Len(client') \in Nat
      /\ \A j \in 1..Len(client') : j # k => client'[j] = IF j <= Len(client) THEN client[j] ELSE -1
      /\ k <= Len(client) => client[k] = -1
  BY DEF Added
<1>3. /\ maxi' \in Int /\ 0 <= maxi' /\ maxi' <= Len(client') /\ maxi <= maxi' /\ k <= maxi'
  BY <1>1, <1>2
<1>4. fdOf' \in [Clients -> Int] /\ \A d \in Clients : fdOf'[d] = IF d = h THEN fd ELSE fdOf[d]
  BY <1>1
<1>5. \A j \in 1..Len(client) : client[j] # fd
  BY DEF OsInv, Entries
<1>6. OneEach'
  <2>1. \A c, d \in Clients : fdOf'[c] = fdOf'[d] /\ fdOf'[c] # -1 => c = d
    BY <1>4 DEF OsInv, OneEach
  <2>2. ASSUME NEW j \in 1..Len(client'), NEW m \in 1..Len(client'),
               client'[j] = client'[m], client'[j] # -1
        PROVE  j = m
    <3>1. \A x \in 1..Len(client') : x # k /\ client'[x] # -1 =>
            x \in 1..Len(client) /\ client'[x] = client[x] /\ client'[x] # fd
      <4> SUFFICES ASSUME NEW x \in 1..Len(client'), x # k, client'[x] # -1
                   PROVE  x \in 1..Len(client) /\ client'[x] = client[x] /\ client'[x] # fd
        OBVIOUS
      <4>1. client'[x] = IF x <= Len(client) THEN client[x] ELSE -1 BY <1>2
      <4>2. x \in 1..Len(client) BY <1>1, <1>2, <4>1
      <4>3. client'[x] = client[x] BY <1>1, <4>1, <4>2
      <4>4. QED BY <1>5, <4>2, <4>3
    <3>2. CASE j = k BY <1>2, <2>2, <3>1, <3>2
    <3>3. CASE m = k BY <1>2, <2>2, <3>1, <3>3
    <3>4. CASE j # k /\ m # k BY <2>2, <3>1, <3>4 DEF OsInv, OneEach
    <3>5. QED BY <3>2, <3>3, <3>4
  <2>3. QED BY <2>1, <2>2 DEF OneEach
<1>7. Entries'
  <2>1. ASSUME NEW d \in Clients, fdOf'[d] # -1
        PROVE  fdOf'[d] > 3 /\ \E j \in 1..maxi' : client'[j] = fdOf'[d]
    <3>1. CASE d = h
      <4>1. fdOf'[d] = fd /\ k \in 1..maxi' BY <1>2, <1>3, <1>4, <3>1
      <4>2. QED BY <1>2, <4>1
    <3>2. CASE d # h
      <4>1. fdOf'[d] = fdOf[d] BY <1>4, <3>2
      <4>2. fdOf[d] > 3 /\ \E j \in 1..maxi : client[j] = fdOf[d]
        BY <2>1, <4>1 DEF OsInv, Entries
      <4>3. PICK j \in 1..maxi : client[j] = fdOf[d] BY <4>2
      <4>4. j \in 1..Len(client') /\ j <= Len(client) /\ j \in 1..maxi'
        <5>1. j \in Int /\ 1 <= j /\ j <= maxi BY <1>1, <4>3
        <5>2. j <= Len(client) /\ j <= maxi' BY <1>1, <1>3, <5>1
        <5>3. QED BY <1>1, <1>2, <1>3, <5>1, <5>2
      <4>5. j # k BY <1>2, <2>1, <4>1, <4>3, <4>4
      <4>6. client'[j] = fdOf'[d] BY <1>2, <4>1, <4>3, <4>4, <4>5
      <4>7. QED BY <4>1, <4>2, <4>4, <4>6
    <3>3. QED BY <3>1, <3>2
  <2>2. ASSUME NEW j \in 1..Len(client')
        PROVE  \/ client'[j] = -1 \/ (mux' = "poll" /\ j = 1 /\ client'[j] = 3)
               \/ \E d \in Clients : fdOf'[d] = client'[j]
    <3>1. CASE j = k BY <1>2, <1>4, <3>1
    <3>2. CASE j # k /\ j \in 1..Len(client)
      <4>1. client'[j] = client[j] BY <1>2, <2>2, <3>2
      <4>2. \A d \in Clients : fdOf[d] = client[j] /\ client[j] # -1 => fdOf'[d] = client[j]
        BY <1>4
      <4>3. QED BY <3>2, <4>1, <4>2 DEF OsInv, Entries
    <3>3. CASE j # k /\ j \notin 1..Len(client)
      BY <1>1, <1>2, <2>2, <3>3
    <3>4. QED BY <3>1, <3>2, <3>3
  <2>3. mux' = "poll" => Len(client') >= 1 /\ client'[1] = 3
    <3>1. ASSUME mux = "poll" PROVE Len(client) >= 1 /\ client[1] = 3
      BY <3>1 DEF OsInv, Entries
    <3>2. QED BY <1>1, <1>2, <3>1
  <2>4. QED BY <2>1, <2>2, <2>3 DEF Entries
<1>8. Watched'
  <2>1. \A x : x \in Conns' <=> x \in Conns \/ x = fd
    BY <1>4 DEF Conns
  <2>2. QED BY <2>1 DEF OsInv, Watched
<1>9. QED BY <1>3, <1>4, <1>6, <1>7, <1>8 DEF TableInv

LEMMA AcceptStep == ASSUME OsInv, O!serv_accept PROVE OsInv'
<1> DEFINE h  == Head(backlog)
           fd == O!NewFd
           a  == O!client_add(fd)
           m  == O!Min({j \in DOMAIN a : a[j] = fd})
<1>1. /\ spc = "accept" /\ backlog' = Tail(backlog)
      /\ UNCHANGED <<mux, scan, cpc, asks, got, toServ, toCli>>
  BY DEF O!serv_accept, O!clients, O!wires
<1>2. CASE spc' = "dead" /\ UNCHANGED <<client, maxi, allset, fdOf, rset>>
  BY <1>1, <1>2, AcceptDies
<1>3. CASE O!NewClient
  <2>1. /\ client' = a /\ fdOf' = [fdOf EXCEPT ![h] = fd] /\ allset' = allset \cup {fd}
        /\ maxi' = O!Max({maxi, m}) /\ spc' \in {"wait", "scan"}
        /\ spc' = "scan" => mux = "poll"
        /\ rset' = rset \/ rset' = rset \cup {fd}
    BY <1>3 DEF O!NewClient
  <2>2. OsType /\ OneEach /\ Entries BY DEF OsInv
  <2>3. /\ h \in Clients /\ fdOf[h] = -1 /\ cpc[h] # "start" /\ backlog' \in Seq(Clients)
        /\ \A c \in Clients : InBacklog(c)' <=> InBacklog(c) /\ c # h
    BY <1>1, Dequeued
  <2>4. fd \in Nat /\ fd > 3 /\ \A c \in Clients : fdOf[c] # fd
    BY <2>2, FreshFd
  <2>5. PICK k \in Nat : Added(a, k, fd)
    BY <2>2, <2>3, <2>4, AddEntry
  <2> HIDE DEF h, fd, a
  <2>6. m = k
    <3> DEFINE hits == {j \in DOMAIN a : a[j] = fd}
    <3>1. /\ a \in Seq(Int) /\ k \in 1..Len(a) /\ a[k] = fd /\ DOMAIN a = 1..Len(a)
          /\ \A j \in 1..Len(a) : j # k => a[j] = IF j <= Len(client) THEN client[j] ELSE -1
          /\ Len(a) \in Nat
      BY <2>5 DEF Added
    <3>2. \A j \in 1..Len(client) : client[j] # fd
      BY <2>2, <2>4 DEF Entries
    <3>3. Len(client) \in Nat BY <2>2 DEF OsType
    <3>4. ASSUME NEW j \in 1..Len(a), j # k PROVE a[j] # fd
      <4>1. CASE j <= Len(client)
        <5>1. j \in 1..Len(client) BY <3>3, <3>4, <4>1
        <5>2. QED BY <3>1, <3>2, <3>4, <4>1, <5>1
      <4>2. CASE ~(j <= Len(client)) BY <2>4, <3>1, <3>4, <4>2
      <4>3. QED BY <4>1, <4>2
    <3>5. hits = {k} BY <3>1, <3>4
    <3>6. m = O!Min(hits) OBVIOUS
    <3> HIDE DEF hits, m
    <3>7. hits # {} /\ hits \subseteq Nat BY <3>5
    <3>8. O!Min(hits) \in hits BY <3>7, LeastFd
    <3>9. QED BY <3>5, <3>6, <3>8
  <2> HIDE DEF m
  <2>7. maxi' = IF maxi >= k THEN maxi ELSE k
    <3>1. maxi \in Int BY <2>2 DEF OsType
    <3>2. O!Max({maxi, k}) = CHOOSE x \in {maxi, k} : \A y \in {maxi, k} : x >= y
      BY DEF O!Max
    <3>3. O!Max({maxi, k}) \in {maxi, k} /\ \A y \in {maxi, k} : O!Max({maxi, k}) >= y
      <4>1. \E x \in {maxi, k} : \A y \in {maxi, k} : x >= y BY <3>1
      <4>2. QED BY <3>2, <4>1
    <3>4. QED BY <2>1, <2>6, <3>1, <3>3
  <2>8. /\ TableInv' /\ fdOf' \in [Clients -> Int] /\ maxi' \in Int /\ 0 <= maxi'
        /\ maxi' <= Len(client')
    BY <1>1, <2>1, <2>3, <2>4, <2>5, <2>7, TableGrows
  <2>9. /\ client' \in Seq(Int) /\ Len(client') <= Cardinality(Clients) + NALLOC
    BY <2>1, <2>5 DEF Added
  <2>10. OsType'
    BY <1>1, <2>1, <2>3, <2>8, <2>9 DEF OsInv, OsType
  <2>11. \A c \in Clients : fdOf'[c] = IF c = h THEN fd ELSE fdOf[c]
    BY <2>1, <2>2, <2>3 DEF OsType
  <2>12. QueueOk'
    <3>1. \A c \in Clients : c # Head(backlog) => fdOf'[c] = fdOf[c]
      BY <2>11 DEF h
    <3>2. QED BY <1>1, <3>1, QueueTail
  <2>13. FlowOk'
    <3>1. ASSUME NEW c \in Clients PROVE Matches(c)' /\ Place(c)'
      <4>1. Matches(c) /\ Place(c) BY DEF OsInv, FlowOk
      <4>2. CASE c # h
        BY <1>1, <2>1, <2>3, <2>11, <4>1, <4>2, FlowSame DEF FlowOf
      <4>3. CASE c = h
        <5>1. fdOf'[c] # -1 /\ cpc[c] # "start" BY <2>3, <2>4, <2>11, <4>3
        <5>2. Matches(c)' BY <1>1, <4>1 DEF Matches
        <5>3. Place(c)' BY <1>1, <4>1, <5>1 DEF Place
        <5>4. QED BY <5>2, <5>3
      <4>4. QED BY <4>2, <4>3
    <3>2. QED BY <3>1 DEF FlowOk
  <2>14. ScanOk'
    <3>1. -1 \notin rset' BY <2>1, <2>4 DEF OsInv, ScanOk
    <3>2. QED BY <1>1, <2>1, <3>1 DEF OsInv, ScanOk
  <2>15. QED BY <2>8, <2>10, <2>12, <2>13, <2>14 DEF OsInv, TableInv
<1>4. QED BY <1>2, <1>3 DEF O!serv_accept, O!table

-----------------------------------------------------------------------------
(* The clients.                                                            *)
LEMMA ConnStep == ASSUME OsInv, NEW c \in Clients, O!cli_conn(c) PROVE OsInv'
<1>1. /\ cpc[c] = "start" /\ spc # "dead" /\ cpc' = [cpc EXCEPT ![c] = "conn"]
      /\ backlog' = Append(backlog, c)
      /\ UNCHANGED <<mux, spc, client, maxi, allset, fdOf, rset, scan, toServ, toCli, asks, got>>
  BY DEF O!cli_conn, O!table, O!wires
<1>2. /\ backlog \in Seq(Clients) /\ Len(backlog) \in Nat
      /\ cpc \in [Clients -> {"start", "conn", "asked", "gone"}]
      /\ asks[c] \in Seq(Names) /\ got[c] \in Seq(Replies) /\ toCli[c] \in Seq(Replies)
      /\ Matches(c) /\ Place(c)
  BY DEF OsInv, OsType, FlowOk
<1>3. /\ backlog' \in Seq(Clients) /\ backlog' # << >> /\ Len(backlog') = Len(backlog) + 1
      /\ \A j \in 1..Len(backlog) : backlog'[j] = backlog[j]
      /\ backlog'[Len(backlog) + 1] = c
  BY <1>1, <1>2, AppendProperties
<1>4. /\ cpc' \in [Clients -> {"start", "conn", "asked", "gone"}]
      /\ \A d \in Clients : cpc'[d] = IF d = c THEN "conn" ELSE cpc[d]
  BY <1>1, <1>2
<1>5. \A d \in Clients : InBacklog(d)' <=> InBacklog(d) \/ d = c
  <2>1. \A j : j \in 1..Len(backlog') <=> j \in 1..Len(backlog) \/ j = Len(backlog) + 1
    BY <1>2, <1>3
  <2>2. QED BY <1>3, <2>1 DEF InBacklog
<1>6. fdOf[c] = -1 /\ ~InBacklog(c) /\ toServ[c] = << >> /\ asks[c] = << >>
  BY <1>1, <1>2 DEF Place
<1>7. OsType' BY <1>1, <1>3, <1>4 DEF OsInv, OsType
<1>8. TableInv' BY <1>1, TableSame DEF OsInv, TableInv
<1>9. ScanOk' BY <1>1, <1>3 DEF OsInv, ScanOk
<1>10. QueueOk'
  <2>1. \A j \in 1..Len(backlog') : j \in 1..Len(backlog) \/ j = Len(backlog) + 1
    BY <1>2, <1>3
  <2>2. \A j \in 1..Len(backlog) : backlog[j] # c /\ backlog[j] \in Clients
    BY <1>2, <1>6, ElementOfSeq DEF InBacklog
  <2>3. ASSUME NEW j \in 1..Len(backlog'), NEW k \in 1..Len(backlog'), backlog'[j] = backlog'[k]
        PROVE  j = k
    BY <1>3, <2>1, <2>2, <2>3 DEF OsInv, QueueOk
  <2>4. ASSUME NEW j \in 1..Len(backlog')
        PROVE  fdOf'[backlog'[j]] = -1 /\ cpc'[backlog'[j]] # "start"
    <3>1. CASE j = Len(backlog) + 1 BY <1>1, <1>3, <1>4, <1>6, <3>1
    <3>2. CASE j \in 1..Len(backlog)
      BY <1>1, <1>3, <1>4, <2>2, <3>2 DEF OsInv, QueueOk
    <3>3. QED BY <2>1, <3>1, <3>2
  <2>5. QED BY <2>3, <2>4 DEF QueueOk
<1>11. FlowOk'
  <2>1. ASSUME NEW d \in Clients PROVE Matches(d)' /\ Place(d)'
    <3>1. Matches(d) /\ Place(d) BY DEF OsInv, FlowOk
    <3>2. CASE d # c BY <1>1, <1>4, <1>5, <3>1, <3>2, FlowSame DEF FlowOf
    <3>3. CASE d = c
      <4>1. Matches(d)' BY <1>1, <3>1 DEF Matches
      <4>2. Len(asks[c]) = Len(got[c])
        <5>1. Len(asks[c]) = 0 BY <1>6
        <5>2. Len(got[c]) \in Nat /\ Len(toCli[c]) \in Nat BY <1>2
        <5>3. Len(got[c]) + Len(toCli[c]) <= Len(asks[c]) BY <1>2 DEF Matches
        <5>4. \A x, y, z \in Nat : x + y <= z /\ z = 0 => z = x OBVIOUS
        <5>5. Len(asks[c]) \in Nat BY <5>1
        <5>6. QED BY <5>1, <5>2, <5>3, <5>4, <5>5, Zenon
      <4>3. Place(d)' BY <1>1, <1>4, <1>5, <1>6, <3>3, <4>2 DEF Place
      <4>4. QED BY <4>1, <4>3
    <3>4. QED BY <3>2, <3>3
  <2>2. QED BY <2>1 DEF FlowOk
<1>12. QED BY <1>7, <1>8, <1>9, <1>10, <1>11 DEF OsInv, TableInv

(* A step of one client that leaves the daemon and the queue alone.        *)
LEMMA ClientMoves ==
  ASSUME OsInv, NEW c \in Clients,
         UNCHANGED <<mux, spc, client, maxi, allset, fdOf, rset, scan, backlog>>,
         cpc' \in [Clients -> {"start", "conn", "asked", "gone"}],
         toServ' \in [Clients -> Seq(Names)], asks' \in [Clients -> Seq(Names)],
         toCli' \in [Clients -> Seq(Replies)], got' \in [Clients -> Seq(Replies)],
         cpc'[c] # "start" \/ ~InBacklog(c),
         \A d \in Clients : d # c => /\ cpc'[d] = cpc[d] /\ toServ'[d] = toServ[d]
                                     /\ toCli'[d] = toCli[d] /\ asks'[d] = asks[d]
                                     /\ got'[d] = got[d],
         Matches(c)', Place(c)'
  PROVE  OsInv'
<1>1. OsType' BY DEF OsInv, OsType
<1>2. TableInv' BY TableSame DEF OsInv, TableInv
<1>3. ScanOk' BY DEF OsInv, ScanOk
<1>4. QueueOk'
  <2>1. \A j \in 1..Len(backlog) : backlog[j] \in Clients
    BY ElementOfSeq DEF OsInv, OsType
  <2>2. \A j \in 1..Len(backlog) : cpc'[backlog[j]] # "start"
    BY <2>1 DEF OsInv, QueueOk, InBacklog
  <2>3. QED BY <2>2 DEF OsInv, QueueOk
<1>5. FlowOk'
  <2>1. ASSUME NEW d \in Clients, d # c PROVE Matches(d)' /\ Place(d)'
    <3>1. Matches(d) /\ Place(d) BY DEF OsInv, FlowOk
    <3>2. QED BY <2>1, <3>1, FlowSame, InBacklogSame DEF FlowOf
  <2>2. QED BY <2>1 DEF FlowOk
<1>6. QED BY <1>1, <1>2, <1>3, <1>4, <1>5 DEF OsInv, TableInv

LEMMA AskStep == ASSUME OsInv, NEW c \in Clients, NEW n \in Names, O!csopen(c, n) PROVE OsInv'
<1>1. /\ cpc[c] = "conn" /\ cpc' = [cpc EXCEPT ![c] = "asked"]
      /\ asks' = [asks EXCEPT ![c] = Append(@, n)] /\ toServ' = [toServ EXCEPT ![c] = Append(@, n)]
      /\ UNCHANGED <<mux, spc, client, maxi, allset, fdOf, rset, scan, backlog, toCli, got>>
  BY DEF O!csopen, O!table
<1>2. /\ cpc \in [Clients -> {"start", "conn", "asked", "gone"}]
      /\ toServ \in [Clients -> Seq(Names)] /\ asks \in [Clients -> Seq(Names)]
      /\ toCli \in [Clients -> Seq(Replies)] /\ got \in [Clients -> Seq(Replies)]
      /\ Matches(c) /\ Place(c)
  BY DEF OsInv, OsType, FlowOk
<1>3. toServ[c] = << >> /\ Len(asks[c]) = Len(got[c])
  BY <1>1, <1>2 DEF Place
<1> DEFINE q == asks[c]
<1>4. /\ q \in Seq(Names) /\ Append(q, n) \in Seq(Names) /\ Len(Append(q, n)) = Len(q) + 1
      /\ Len(q) \in Nat
      /\ \A j \in 1..Len(q) : Append(q, n)[j] = q[j]
      /\ Append(q, n)[Len(q) + 1] = n
  BY <1>2, AppendProperties
<1>5. asks'[c] = Append(q, n) /\ toServ'[c] = <<n>> /\ cpc'[c] = "asked"
  BY <1>1, <1>2, <1>3
<1>6. /\ cpc' \in [Clients -> {"start", "conn", "asked", "gone"}]
      /\ toServ' \in [Clients -> Seq(Names)] /\ asks' \in [Clients -> Seq(Names)]
      /\ \A d \in Clients : d # c => cpc'[d] = cpc[d] /\ toServ'[d] = toServ[d] /\ asks'[d] = asks[d]
  BY <1>1, <1>2, <1>3, <1>4
<1>7. Len(toCli[c]) \in Nat /\ Len(got[c]) \in Nat /\ toCli[c] \in Seq(Replies)
  BY <1>2
<1> HIDE DEF q
<1>8. q = asks[c] BY DEF q
<1>9. Len(toCli[c]) = 0
  BY <1>2, <1>3, <1>7 DEF Matches
<1>10. Matches(c)'
  <2>1. Len(got'[c]) + Len(toCli'[c]) <= Len(asks'[c])
    BY <1>1, <1>3, <1>4, <1>5, <1>7, <1>8, <1>9
  <2>2. \A j \in 1..Len(got'[c]) : got'[c][j] = Rep(asks'[c][j])
    BY <1>1, <1>2, <1>3, <1>4, <1>5, <1>8 DEF Matches
  <2>3. \A j \in 1..Len(toCli'[c]) : toCli'[c][j] = Rep(asks'[c][Len(got'[c]) + j])
    BY <1>1, <1>9
  <2>4. QED BY <2>1, <2>2, <2>3 DEF Matches
<1>11. Place(c)'
  <2>1. spc # "dead" => fdOf[c] # -1 \/ InBacklog(c)
    BY <1>1, <1>2 DEF Place
  <2>2. Len(toServ'[c]) = 1 /\ toServ'[c][1] = n BY <1>5
  <2>3. Len(asks'[c]) = Len(got'[c]) + 1 /\ asks'[c][Len(asks'[c])] = n /\ Len(toCli'[c]) = 0
    BY <1>1, <1>3, <1>4, <1>5, <1>8, <1>9
  <2>4. QED BY <1>1, <1>5, <2>1, <2>2, <2>3, InBacklogSame DEF Place
<1>12. QED BY <1>1, <1>2, <1>5, <1>6, <1>10, <1>11, ClientMoves

LEMMA ReplyStep == ASSUME OsInv, NEW c \in Clients, O!recv_fd(c) PROVE OsInv'
<1>1. /\ cpc[c] = "asked" /\ toCli[c] # << >> /\ cpc' = [cpc EXCEPT ![c] = "conn"]
      /\ got' = [got EXCEPT ![c] = Append(@, Head(toCli[c]))]
      /\ toCli' = [toCli EXCEPT ![c] = Tail(@)]
      /\ UNCHANGED <<mux, spc, client, maxi, allset, fdOf, rset, scan, backlog, toServ, asks>>
  BY DEF O!recv_fd, O!table
<1>2. /\ cpc \in [Clients -> {"start", "conn", "asked", "gone"}]
      /\ toServ \in [Clients -> Seq(Names)] /\ asks \in [Clients -> Seq(Names)]
      /\ toCli \in [Clients -> Seq(Replies)] /\ got \in [Clients -> Seq(Replies)]
      /\ Matches(c) /\ Place(c)
  BY DEF OsInv, OsType, FlowOk
<1>3. Len(toCli[c]) # 0
  <2>1. toCli[c] \in Seq(Replies) BY <1>2
  <2>2. QED BY <1>1, <2>1, EmptySeq
<1>4. toServ[c] = << >> /\ Len(toCli[c]) = 1 /\ Len(asks[c]) = Len(got[c]) + 1
  BY <1>1, <1>2, <1>3 DEF Place
<1> DEFINE g == got[c]
           x == Head(toCli[c])
<1>5. x = toCli[c][1] /\ x \in Replies /\ Tail(toCli[c]) = << >>
  <2>1. toCli[c] \in Seq(Replies) BY <1>2
  <2>2. QED BY <1>4, <2>1, OneItem
<1>6. /\ g \in Seq(Replies) /\ Append(g, x) \in Seq(Replies) /\ Len(Append(g, x)) = Len(g) + 1
      /\ Len(g) \in Nat
      /\ \A j \in 1..Len(g) : Append(g, x)[j] = g[j]
      /\ Append(g, x)[Len(g) + 1] = x
  BY <1>2, <1>5, AppendProperties
<1>7. got'[c] = Append(g, x) /\ toCli'[c] = << >> /\ cpc'[c] = "conn"
  BY <1>1, <1>2, <1>5
<1>8. /\ cpc' \in [Clients -> {"start", "conn", "asked", "gone"}]
      /\ toCli' \in [Clients -> Seq(Replies)] /\ got' \in [Clients -> Seq(Replies)]
      /\ \A d \in Clients : d # c => cpc'[d] = cpc[d] /\ toCli'[d] = toCli[d] /\ got'[d] = got[d]
  BY <1>1, <1>2, <1>5, <1>6
<1> HIDE DEF g, x
<1>9. g = got[c] BY DEF g
<1>10. x = Rep(asks[c][Len(g) + 1])
  BY <1>2, <1>4, <1>5, <1>9 DEF Matches
<1>11. Matches(c)'
  <2>1. Len(toCli'[c]) = 0 BY <1>7
  <2>2. Len(got'[c]) + Len(toCli'[c]) <= Len(asks'[c])
    <3>1. Len(got'[c]) = Len(g) + 1 BY <1>6, <1>7
    <3>2. Len(asks'[c]) = Len(g) + 1 BY <1>1, <1>4, <1>9
    <3>3. QED BY <1>6, <2>1, <3>1, <3>2
  <2>3. \A j \in 1..Len(g) : g[j] = Rep(asks[c][j])
    BY <1>2, <1>9 DEF Matches
  <2>4. ASSUME NEW j \in 1..Len(got'[c]) PROVE got'[c][j] = Rep(asks'[c][j])
    <3>1. j \in 1..Len(g) \/ j = Len(g) + 1 BY <1>6, <1>7, <2>4
    <3>2. QED BY <1>1, <1>6, <1>7, <1>10, <2>3, <3>1
  <2>5. QED BY <2>1, <2>2, <2>4 DEF Matches
<1>12. Place(c)'
  <2>1. spc # "dead" => fdOf[c] # -1 \/ InBacklog(c)
    BY <1>1, <1>2 DEF Place
  <2>2. Len(asks'[c]) = Len(got'[c]) /\ toServ'[c] = << >>
    BY <1>1, <1>4, <1>6, <1>7, <1>9
  <2>3. QED BY <1>1, <1>7, <2>1, <2>2, InBacklogSame DEF Place
<1>13. QED BY <1>1, <1>2, <1>7, <1>8, <1>11, <1>12, ClientMoves

LEMMA LeaveStep == ASSUME OsInv, NEW c \in Clients, O!Leave(c) PROVE OsInv'
<1>1. /\ cpc[c] \in {"conn", "asked"} /\ cpc' = [cpc EXCEPT ![c] = "gone"]
      /\ UNCHANGED <<mux, spc, client, maxi, allset, fdOf, rset, scan, backlog, toServ, toCli, asks,
                     got>>
  BY DEF O!Leave, O!table, O!wires
<1>2. /\ cpc \in [Clients -> {"start", "conn", "asked", "gone"}]
      /\ toServ \in [Clients -> Seq(Names)] /\ asks \in [Clients -> Seq(Names)]
      /\ toCli \in [Clients -> Seq(Replies)] /\ got \in [Clients -> Seq(Replies)]
      /\ Matches(c) /\ Place(c)
  BY DEF OsInv, OsType, FlowOk
<1>3. /\ cpc' \in [Clients -> {"start", "conn", "asked", "gone"}] /\ cpc'[c] = "gone"
      /\ \A d \in Clients : d # c => cpc'[d] = cpc[d]
  BY <1>1, <1>2
<1>4. Matches(c)' BY <1>1, <1>2 DEF Matches
<1>5. Place(c)' BY <1>1, <1>2, <1>3, InBacklogSame DEF Place
<1>6. QED BY <1>1, <1>2, <1>3, <1>4, <1>5, ClientMoves

LEMMA AgainStep == ASSUME OsInv, NEW c \in Clients, O!Again(c) PROVE OsInv'
<1>1. /\ cpc[c] = "gone" /\ fdOf[c] = -1 /\ c \notin O!Range(backlog)
      /\ cpc' = [cpc EXCEPT ![c] = "start"] /\ asks' = [asks EXCEPT ![c] = << >>]
      /\ got' = [got EXCEPT ![c] = << >>] /\ toCli' = [toCli EXCEPT ![c] = << >>]
      /\ UNCHANGED <<mux, spc, client, maxi, allset, fdOf, rset, scan, backlog, toServ>>
  BY DEF O!Again, O!table, O!Free
<1>2. /\ cpc \in [Clients -> {"start", "conn", "asked", "gone"}]
      /\ toServ \in [Clients -> Seq(Names)] /\ asks \in [Clients -> Seq(Names)]
      /\ toCli \in [Clients -> Seq(Replies)] /\ got \in [Clients -> Seq(Replies)]
      /\ Matches(c) /\ Place(c) /\ DOMAIN backlog = 1..Len(backlog)
  BY DEF OsInv, OsType, FlowOk
<1>3. ~InBacklog(c)
  BY <1>1, <1>2 DEF InBacklog, O!Range
<1>4. /\ cpc' \in [Clients -> {"start", "conn", "asked", "gone"}] /\ cpc'[c] = "start"
      /\ asks' \in [Clients -> Seq(Names)] /\ toCli' \in [Clients -> Seq(Replies)]
      /\ got' \in [Clients -> Seq(Replies)]
      /\ asks'[c] = << >> /\ got'[c] = << >> /\ toCli'[c] = << >>
      /\ \A d \in Clients : d # c => /\ cpc'[d] = cpc[d] /\ asks'[d] = asks[d]
                                     /\ toCli'[d] = toCli[d] /\ got'[d] = got[d]
  BY <1>1, <1>2
<1>5. Matches(c)' BY <1>4 DEF Matches
<1>6. Place(c)' BY <1>1, <1>2, <1>3, <1>4, InBacklogSame DEF Place
<1>7. QED BY <1>1, <1>2, <1>3, <1>4, <1>5, <1>6, ClientMoves

LEMMA OsInitInv == O!osInit => OsInv
<1> SUFFICES ASSUME O!osInit PROVE OsInv
  OBVIOUS
<1> USE DEF O!osInit, O!Free, O!listenfd
<1>1. NALLOC \in Nat /\ NALLOC > 0 /\ Cardinality(Clients) \in Nat
  BY OpenAssumption, CardClients
<1> DEFINE gap == [j \in 1..(NALLOC - 1) |-> -1]
<1>2. gap \in Seq(Int) /\ Len(gap) = NALLOC - 1 /\ \A j \in 1..(NALLOC - 1) : gap[j] = -1
  BY <1>1
<1>3. mux = "poll" => client = <<3>> \o gap /\ maxi = 1
  OBVIOUS
<1> HIDE DEF gap
<1>4. CASE mux = "poll"
  <2>1. /\ client \in Seq(Int) /\ Len(client) = NALLOC /\ client[1] = 3
        /\ \A j \in 1..Len(client) : j # 1 => client[j] = -1
    <3>1. <<3>> \in Seq(Int) /\ Len(<<3>>) = 1 OBVIOUS
    <3>2. /\ <<3>> \o gap \in Seq(Int) /\ Len(<<3>> \o gap) = Len(<<3>>) + Len(gap)
          /\ \A j \in 1..(Len(<<3>>) + Len(gap)) :
               (<<3>> \o gap)[j] = IF j <= Len(<<3>>) THEN <<3>>[j] ELSE gap[j - Len(<<3>>)]
      BY <1>2, <3>1, ConcatProperties
    <3>3. \A j \in 1..NALLOC : j # 1 => j - 1 \in 1..(NALLOC - 1) BY <1>1
    <3>4. QED BY <1>1, <1>2, <1>3, <1>4, <3>1, <3>2, <3>3
  <2>2. OsType BY <1>1, <1>3, <1>4, <2>1 DEF OsType
  <2>3. OneEach /\ Entries BY <1>1, <1>4, <2>1 DEF OneEach, Entries
  <2>4. QED BY <2>2, <2>3 DEF OsInv, Watched, Conns, ScanOk, QueueOk, FlowOk, Matches, Place, InBacklog
<1>5. CASE mux = "select"
  <2>1. client = << >> /\ maxi = 0 BY <1>5
  <2>2. OsType BY <1>1, <1>5, <2>1 DEF OsType
  <2>3. OneEach /\ Entries BY <1>5, <2>1 DEF OneEach, Entries
  <2>4. QED BY <2>2, <2>3 DEF OsInv, Watched, Conns, ScanOk, QueueOk, FlowOk, Matches, Place, InBacklog
<1>6. QED BY <1>4, <1>5

LEMMA OsNextInv == ASSUME OsInv, O!osNext PROVE OsInv'
<1>1. CASE O!Wait BY <1>1, WaitStep
<1>2. CASE O!serv_accept BY <1>2, AcceptStep
<1>3. CASE O!Skip BY <1>3, SkipStep
<1>4. CASE O!Serve BY <1>4, ServeEntry
<1>5. CASE O!Hangup BY <1>5, HangupStep
<1>6. ASSUME NEW c \in Clients, O!cli_conn(c) PROVE OsInv' BY <1>6, ConnStep
<1>7. ASSUME NEW c \in Clients, NEW n \in Names, O!csopen(c, n) PROVE OsInv' BY <1>7, AskStep
<1>8. ASSUME NEW c \in Clients, O!recv_fd(c) PROVE OsInv' BY <1>8, ReplyStep
<1>9. ASSUME NEW c \in Clients, O!Leave(c) PROVE OsInv' BY <1>9, LeaveStep
<1>10. ASSUME NEW c \in Clients, O!Again(c) PROVE OsInv' BY <1>10, AgainStep
<1>11. QED
  BY <1>1, <1>2, <1>3, <1>4, <1>5, <1>6, <1>7, <1>8, <1>9, <1>10 DEF O!osNext, O!Daemon, O!Goes

-----------------------------------------------------------------------------
LEMMA Behind ==
  ASSUME NEW x \in Nat, NEW y \in Nat, NEW z \in 1..(x + y), ~(z <= x)
  PROVE  z - x \in 1..y /\ x + (z - x) = z
OBVIOUS

LEMMA InOrder == ASSUME OsInv PROVE O!AnswersInOrder
<1>1. SUFFICES ASSUME NEW c \in Clients
      PROVE LET right == [j \in DOMAIN asks[c] |-> IF asks[c][j] \in Openable THEN asks[c][j] ELSE "error"]
            IN  /\ O!IsPrefix(got[c] \o toCli[c], right)
                /\ cpc[c] = "conn" => got[c] = right
  BY DEF O!AnswersInOrder
<1> DEFINE right == [j \in DOMAIN asks[c] |-> IF asks[c][j] \in Openable THEN asks[c][j] ELSE "error"]
           both  == got[c] \o toCli[c]
<1>2. /\ asks[c] \in Seq(Names) /\ got[c] \in Seq(Replies) /\ toCli[c] \in Seq(Replies)
      /\ Matches(c) /\ Place(c) /\ DOMAIN asks[c] = 1..Len(asks[c]) /\ Len(asks[c]) \in Nat
  BY <1>1 DEF OsInv, OsType, FlowOk
<1>3. \A j \in 1..Len(asks[c]) : right[j] = Rep(asks[c][j]) /\ asks[c][j] \in Names
  BY <1>2 DEF Rep
<1>4. right \in Seq(Replies) /\ Len(right) = Len(asks[c])
  <2>1. right \in [1..Len(asks[c]) -> Replies]
    BY <1>2 DEF Replies
  <2>2. QED BY <1>2, <2>1
<1>5. /\ both \in Seq(Replies) /\ Len(both) = Len(got[c]) + Len(toCli[c])
      /\ \A j \in 1..(Len(got[c]) + Len(toCli[c])) :
           both[j] = IF j <= Len(got[c]) THEN got[c][j] ELSE toCli[c][j - Len(got[c])]
  BY <1>2, ConcatProperties
<1> HIDE DEF right, both
<1>6. Len(got[c]) \in Nat /\ Len(toCli[c]) \in Nat BY <1>2
<1>7. Len(both) \in Nat /\ Len(right) \in Nat /\ Len(both) <= Len(right)
  <2>1. Len(got[c]) + Len(toCli[c]) <= Len(asks[c]) BY <1>2 DEF Matches
  <2>2. Len(right) = Len(asks[c]) /\ Len(both) = Len(got[c]) + Len(toCli[c]) BY <1>4, <1>5
  <2>3. \A x, y \in Nat : x + y \in Nat OBVIOUS
  <2>4. QED BY <1>2, <1>6, <2>1, <2>2, <2>3, Zenon
<1>8. ASSUME NEW j \in 1..Len(both) PROVE both[j] = right[j]
  <2>1. j \in 1..Len(asks[c]) /\ j \in Nat
    <3>1. Len(right) = Len(asks[c]) BY <1>4
    <3>2. QED BY <1>7, <1>8, <3>1
  <2>2. CASE j <= Len(got[c])
    <3>1. j \in 1..Len(got[c]) BY <1>6, <1>8, <2>2, <1>5
    <3>2. QED BY <1>2, <1>3, <1>5, <1>8, <2>1, <2>2, <3>1 DEF Matches
  <2>3. CASE ~(j <= Len(got[c]))
    <3>1. j - Len(got[c]) \in 1..Len(toCli[c]) /\ Len(got[c]) + (j - Len(got[c])) = j
      <4>1. Len(both) = Len(got[c]) + Len(toCli[c]) BY <1>5
      <4>2. j \in 1..(Len(got[c]) + Len(toCli[c])) BY <1>8, <4>1, Zenon
      <4>3. QED BY <1>6, <2>3, <4>2, Behind, Zenon
    <3>2. toCli[c][j - Len(got[c])] = Rep(asks[c][Len(got[c]) + (j - Len(got[c]))])
      BY <1>2, <3>1 DEF Matches
    <3>3. QED BY <1>3, <1>5, <1>8, <2>1, <2>3, <3>1, <3>2
  <2>4. QED BY <2>2, <2>3
<1>9. O!IsPrefix(both, right)
  <2>1. SubSeq(both, 1, Len(both)) = SubSeq(right, 1, Len(both))
    <3>1. Len(both) \in Nat /\ Len(right) \in Nat BY <1>7
    <3>2. ASSUME NEW j \in 1..Len(both) PROVE both[j] \in Replies /\ right[j] \in Replies
      <4>1. both \in Seq(Replies) /\ right \in Seq(Replies) BY <1>4, <1>5
      <4>2. j \in 1..Len(right) BY <1>7, <3>2
      <4>3. QED BY <3>2, <4>1, <4>2, ElementOfSeq
    <3>3. /\ SubSeq(both, 1, Len(both)) \in Seq(Replies) /\ SubSeq(right, 1, Len(both)) \in Seq(Replies)
          /\ Len(SubSeq(both, 1, Len(both))) = Len(both) /\ Len(SubSeq(right, 1, Len(both))) = Len(both)
          /\ \A j \in 1..Len(both) : /\ SubSeq(both, 1, Len(both))[j] = both[j]
                                     /\ SubSeq(right, 1, Len(both))[j] = right[j]
      BY <3>1, <3>2, SubSeqProperties
    <3>4. QED BY <1>8, <3>3, SeqEqual
  <2>2. QED BY <1>7, <2>1 DEF O!IsPrefix
<1>10. cpc[c] = "conn" => got[c] = right
  <2>1. SUFFICES ASSUME cpc[c] = "conn" PROVE got[c] = right
    OBVIOUS
  <2>2. Len(got[c]) = Len(right) BY <1>2, <1>4, <2>1 DEF Place
  <2>3. \A j \in 1..Len(got[c]) : got[c][j] = right[j] BY <1>2, <1>3, <1>4, <2>2 DEF Matches
  <2>4. QED BY <1>2, <1>4, <2>2, <2>3, SeqEqual
<1>11. QED BY <1>9, <1>10 DEF right, both

LEMMA TableRight == ASSUME OsInv PROVE O!TableAgrees /\ O!TableBounded
<1> DEFINE used == {j \in DOMAIN client : client[j] \notin {-1, 3}}
           f    == [j \in used |-> client[j]]
<1>1. /\ DOMAIN client = 1..Len(client) /\ client \in Seq(Int) /\ Len(client) \in Nat
      /\ Len(client) <= Cardinality(Clients) + NALLOC /\ maxi \in Int /\ maxi <= Len(client)
  BY DEF OsInv, OsType
<1>2. \A j \in used : j \in 1..Len(client) /\ client[j] # -1 /\ client[j] # 3
  BY <1>1
<1>3. \A j \in used : client[j] \in Conns
  BY <1>2 DEF OsInv, Entries, Conns
<1>4. \A x \in Conns : \E j \in used : client[j] = x /\ j <= maxi
  <2>1. SUFFICES ASSUME NEW c \in Clients, fdOf[c] # -1
        PROVE \E j \in used : client[j] = fdOf[c] /\ j <= maxi
    BY DEF Conns
  <2>2. fdOf[c] > 3 /\ \E j \in 1..maxi : client[j] = fdOf[c]
    BY <2>1 DEF OsInv, Entries
  <2>3. PICK j \in 1..maxi : client[j] = fdOf[c] BY <2>2
  <2>4. j \in 1..Len(client) /\ fdOf[c] # 3 /\ j <= maxi BY <1>1, <2>2, <2>3
  <2>5. QED BY <1>1, <2>1, <2>3, <2>4
<1>5. {client[j] : j \in used} = Conns
  BY <1>3, <1>4
<1>6. Cardinality(used) = Cardinality(Conns)
  <2>1. f \in [used -> Conns] BY <1>3
  <2>2. \A j, k \in used : f[j] = f[k] => j = k
    BY <1>2 DEF OsInv, OneEach
  <2>3. \A x \in Conns : \E j \in used : f[j] = x BY <1>4
  <2> HIDE DEF f
  <2>4. f \in Bijection(used, Conns)
    BY <2>1, <2>2, <2>3 DEF Bijection, Injection, Surjection, IsInjective
  <2>5. IsFiniteSet(used)
    <3>1. used \in SUBSET (1..Len(client)) BY <1>1
    <3>2. IsFiniteSet(1..Len(client)) BY <1>1, FS_Interval
    <3>3. QED BY <3>1, <3>2, FS_Subset
  <2>6. QED BY <2>4, <2>5, FS_Bijection DEF ExistsBijection
<1>7. \A j \in used : j <= maxi
  <2>1. TAKE j \in used
  <2>2. PICK k \in used : client[k] = client[j] /\ k <= maxi BY <1>3, <1>4
  <2>3. j = k BY <1>2, <2>2 DEF OsInv, OneEach
  <2>4. QED BY <2>2, <2>3
<1>8. allset = Conns \cup {3} BY DEF OsInv, Watched
<1>9. O!Cardinality(used) = O!Cardinality(Conns) BY <1>6, OpendCard
<1>10. O!TableAgrees
  BY <1>5, <1>7, <1>8, <1>9 DEF O!TableAgrees, Conns, O!Free, O!listenfd
<1>11. O!TableBounded
  <2>1. O!Cardinality(Clients) = Cardinality(Clients) BY OpendCard
  <2>2. NALLOC \in Nat /\ Cardinality(Clients) \in Nat BY OpenAssumption, CardClients
  <2>3. QED BY <1>1, <2>1, <2>2 DEF O!TableBounded
<1>12. QED BY <1>10, <1>11

(* For any finite set of clients and both loops of opend: every client     *)
(* reads the answers to its own requests, in order, also when descriptors  *)
(* and entries are used again; client[], the watched set and the open      *)
(* connections agree, and client[] does not grow beyond the clients.       *)
THEOREM ClientsTheorem == ProgSpec => []ClientsServed
<1>1. ProgInit => OsInv
  BY OsInitInv DEF ProgInit
<1>2. OsInv /\ [ProgNext]_allVars => OsInv'
  <2> SUFFICES ASSUME OsInv, [ProgNext]_allVars PROVE OsInv'
    OBVIOUS
  <2>1. CASE O!osNext BY <2>1, OsNextInv
  <2>2. CASE UNCHANGED opendVars
    BY <2>2 DEF opendVars, OsInv, OsType, OneEach, Entries, Watched, Conns, ScanOk, QueueOk, FlowOk,
                Matches, Place, InBacklog
  <2>3. QED BY <2>1, <2>2, OpendSteps
<1>3. OsInv => ClientsServed
  BY InOrder, TableRight DEF ClientsServed
<1>4. QED
  BY <1>1, <1>2, <1>3, PTL DEF ProgSpec

-----------------------------------------------------------------------------
(* The chat with the modem.                                                *)
LEMMA DialSteps == [ProgNext]_allVars => C!chatNext \/ UNCHANGED dialVars
BY DEF ProgNext, Rest, allVars

(* What Char returns.                                                      *)
Sounds == STRING \cup {"cr", "sp"}

(* The strings of the conversation.                                        *)
WordOk ==
  /\ expsend \in Expsends /\ word \in 1..Len(expsend)
  /\ cdpc \in {"skip", "fill", "match"} => expsend[word] # << >>

(* The last n characters read are the window; the expected string ends at  *)
(* the n-th of them.                                                       *)
Window == /\ Len(inbuf) <= Len(read)
          /\ \A j \in 1..Len(inbuf) : inbuf[j] = read[Len(read) - Len(inbuf) + j]
EndsAt(n) == \A j \in 1..Len(C!Exp) : read[n - Len(C!Exp) + j] = C!Exp[j]

(* expect_str looks for a first character, fills its window, slides it: so *)
(* far nothing read began the string, or ended in it.                      *)
Skipping == inbuf = << >> /\ \A j \in 1..Len(read) : read[j] # C!Exp[1]
Filling ==
  /\ Window /\ 1 <= Len(inbuf) /\ Len(inbuf) <= Len(C!Exp)
  /\ \A j \in 1..(Len(read) - Len(inbuf)) : read[j] # C!Exp[1]
Matching ==
  /\ Window /\ Len(inbuf) = Len(C!Exp)
  /\ \A n \in Len(C!Exp)..(Len(read) - 1) : ~EndsAt(n)
Listens ==
  /\ \E T : read \in Seq(T) /\ inbuf \in Seq(T)
  /\ cdpc = "skip" => Skipping
  /\ cdpc = "fill" => Filling
  /\ cdpc = "match" => Matching
ChatInv == WordOk /\ (cdpc \in {"skip", "fill", "match"} /\ caught_alrm = 0 => Listens)

LEMMA ExpType ==
  ASSUME WordOk
  PROVE  /\ C!Exp \in Seq(Sounds) /\ Len(C!Exp) = Len(expsend[word]) /\ Len(C!Exp) \in Nat
         /\ cdpc \in {"skip", "fill", "match"} => Len(C!Exp) >= 1
<1>1. expsend \in Seq(Seq(STRING)) /\ word \in 1..Len(expsend)
  BY ChatAssumption DEF WordOk
<1>2. expsend[word] \in Seq(STRING)
  BY <1>1, ElementOfSeq
<1> DEFINE w == expsend[word]
           f == [j \in DOMAIN w |-> C!Char(w[j])]
<1>3. DOMAIN w = 1..Len(w) /\ Len(w) \in Nat /\ \A j \in 1..Len(w) : w[j] \in STRING
  BY <1>2
<1>4. ASSUME NEW j \in 1..Len(w) PROVE C!Char(w[j]) \in Sounds
  <2>1. \A x : C!Char(x) = IF x = "\\r" THEN "cr" ELSE IF x = "\\s" THEN "sp" ELSE x
    BY DEF C!Char
  <2>2. "cr" \in Sounds /\ "sp" \in Sounds /\ STRING \subseteq Sounds BY DEF Sounds
  <2>3. w[j] \in STRING BY <1>3, <1>4
  <2> DEFINE x == w[j]
  <2>4. x \in STRING BY <2>3
  <2> HIDE DEF x
  <2>5. C!Char(x) \in Sounds BY <2>1, <2>2, <2>4, Zenon
  <2>6. QED BY <2>5 DEF x
<1>5. C!Exp = f BY DEF C!Exp
<1>6. cdpc \in {"skip", "fill", "match"} => w # << >> BY DEF WordOk
<1>7. w \in Seq(STRING) BY <1>2
<1> HIDE DEF w
<1>8. f \in [1..Len(w) -> Sounds] BY <1>3, <1>4
<1>9. f \in Seq(Sounds) /\ Len(f) = Len(w)
  <2> HIDE DEF f
  <2>1. QED BY <1>3, <1>8
<1>10. w # << >> => Len(w) >= 1 BY <1>7, EmptySeq
<1>11. QED BY <1>3, <1>5, <1>6, <1>9, <1>10 DEF w

LEMMA ExpSame == ASSUME UNCHANGED <<expsend, word>> PROVE C!Exp' = C!Exp
BY DEF C!Exp

LEMMA NextString ==
  ASSUME WordOk, NEW k \in {"send", "expect"}, C!NextWord(k), UNCHANGED expsend
  PROVE  WordOk' /\ cdpc' \notin {"skip", "fill", "match"}
<1>1. expsend \in Seq(Seq(STRING)) /\ Len(expsend) \in Nat
  BY ChatAssumption DEF WordOk
<1>2. QED BY <1>1 DEF C!NextWord, WordOk

(* A step outside expect_str.                                              *)
LEMMA Elsewhere ==
  ASSUME ChatInv, UNCHANGED <<expsend, word>>, cdpc' \notin {"skip", "fill", "match"}
  PROVE  ChatInv'
BY DEF ChatInv, WordOk

(* A character is read.                                                    *)
LEMMA OneMore ==
  ASSUME NEW T, NEW s \in Seq(T), NEW v
  PROVE  /\ \E U : Append(s, v) \in Seq(U)
         /\ Len(Append(s, v)) = Len(s) + 1
         /\ \A j \in 1..Len(s) : Append(s, v)[j] = s[j]
         /\ Append(s, v)[Len(s) + 1] = v
<1>1. s \in Seq(T \cup {v}) BY SeqMonotonic
<1>2. v \in T \cup {v} OBVIOUS
<1>3. QED BY <1>1, <1>2, AppendProperties

(* The window slides.                                                      *)
LEMMA Shifted ==
  ASSUME NEW T, NEW s \in Seq(T), s # << >>, NEW v
  PROVE  /\ \E U : Append(Tail(s), v) \in Seq(U)
         /\ Len(Append(Tail(s), v)) = Len(s)
         /\ \A j \in 1..(Len(s) - 1) : Append(Tail(s), v)[j] = s[j + 1]
         /\ Append(Tail(s), v)[Len(s)] = v
<1>1. Tail(s) \in Seq(T) /\ Len(Tail(s)) = Len(s) - 1 /\ Len(s) \in Nat
      /\ \A j \in 1..Len(Tail(s)) : Tail(s)[j] = s[j + 1]
  BY HeadTailProperties
<1> DEFINE u == Tail(s)
<1>2. u \in Seq(T) /\ Len(u) = Len(s) - 1 /\ \A j \in 1..Len(u) : u[j] = s[j + 1]
  BY <1>1
<1> HIDE DEF u
<1>3. /\ \E U : Append(u, v) \in Seq(U)
      /\ Len(Append(u, v)) = Len(u) + 1
      /\ \A j \in 1..Len(u) : Append(u, v)[j] = u[j]
      /\ Append(u, v)[Len(u) + 1] = v
  BY <1>2, OneMore
<1>4. (Len(s) - 1) + 1 = Len(s) BY <1>1
<1>5. /\ \E U : Append(u, v) \in Seq(U)
      /\ Len(Append(u, v)) = Len(s)
      /\ \A j \in 1..(Len(s) - 1) : Append(u, v)[j] = s[j + 1]
      /\ Append(u, v)[Len(s)] = v
  BY <1>2, <1>3, <1>4
<1>6. QED BY <1>5 DEF u

(* Two sequences have a common set of elements.                            *)
LEMMA Common ==
  ASSUME NEW T, NEW U, NEW s \in Seq(T), NEW t \in Seq(U)
  PROVE  \E V : s \in Seq(V) /\ t \in Seq(V)
<1>1. s \in Seq(T \cup U) /\ t \in Seq(T \cup U) BY SeqMonotonic
<1>2. QED BY <1>1

LEMMA BeginsExpect == ASSUME ChatInv, C!expect_str PROVE ChatInv'
<1>1. /\ cdpc = "expect" /\ inbuf' = << >> /\ read' = << >> /\ UNCHANGED expsend
      /\ \/ C!NextWord("send")
         \/ cdpc' = "die" /\ UNCHANGED word
         \/ cdpc' = "skip" /\ expsend[word] # << >> /\ UNCHANGED word
  BY DEF C!expect_str, C!Entry
<1>2. WordOk BY DEF ChatInv
<1>3. CASE C!NextWord("send")
  BY <1>1, <1>2, <1>3, NextString DEF ChatInv
<1>4. CASE cdpc' = "die" /\ UNCHANGED word
  BY <1>1, <1>4, Elsewhere
<1>5. CASE cdpc' = "skip" /\ expsend[word] # << >> /\ UNCHANGED word
  <2>1. WordOk' BY <1>1, <1>2, <1>5 DEF WordOk
  <2>2. Skipping' BY <1>1 DEF Skipping
  <2>3. Listens'
    <3>1. read' \in Seq({}) /\ inbuf' \in Seq({}) BY <1>1
    <3>2. QED BY <1>5, <2>2, <3>1 DEF Listens
  <2>4. QED BY <2>1, <2>3 DEF ChatInv
<1>6. QED BY <1>1, <1>3, <1>4, <1>5

LEMMA SkipReads == ASSUME ChatInv, C!Skip PROVE ChatInv'
<1> DEFINE v == Head(modem)
<1>1. /\ cdpc = "skip" /\ caught_alrm = 0 /\ read' = Append(read, v)
      /\ IF v = C!Exp[1] THEN cdpc' = "fill" /\ inbuf' = <<v>> ELSE cdpc' = "skip" /\ inbuf' = inbuf
      /\ UNCHANGED <<expsend, word>>
  BY DEF C!Skip, C!exp_read, C!Entry
<1> HIDE DEF v
<1>2. WordOk /\ Listens /\ Skipping BY <1>1 DEF ChatInv, Listens
<1>3. WordOk' BY <1>1, <1>2 DEF WordOk
<1>4. C!Exp' = C!Exp /\ Len(C!Exp) \in Nat /\ Len(C!Exp) >= 1 BY <1>1, <1>2, ExpType, ExpSame
<1>5. PICK T : read \in Seq(T) /\ inbuf \in Seq(T) BY <1>2 DEF Listens
<1>6. /\ Len(read) \in Nat /\ Len(read') = Len(read) + 1 /\ read'[Len(read) + 1] = v
      /\ \A j \in 1..Len(read) : read'[j] = read[j]
  BY <1>1, <1>5, OneMore
<1>7. PICK U : read' \in Seq(U) BY <1>1, <1>5, OneMore
<1>8. CASE v = C!Exp[1]
  <2>1. inbuf' = <<v>> /\ inbuf' \in Seq({v}) /\ Len(inbuf') = 1 /\ inbuf'[1] = v
    <3>1. inbuf' = <<v>> BY <1>1, <1>8
    <3>2. <<v>> \in Seq({v}) /\ Len(<<v>>) = 1 /\ <<v>>[1] = v OBVIOUS
    <3>3. QED BY <3>1, <3>2
  <2>2. \E V : read' \in Seq(V) /\ inbuf' \in Seq(V)
    <3>1. read' \in Seq(U) /\ inbuf' \in Seq({v}) BY <1>7, <2>1
    <3>2. Seq(U) \subseteq Seq(U \cup {v}) /\ Seq({v}) \subseteq Seq(U \cup {v}) BY SeqMonotonic
    <3>3. read' \in Seq(U \cup {v}) /\ inbuf' \in Seq(U \cup {v}) BY <3>1, <3>2, Zenon
    <3>4. QED BY <3>3, Zenon
  <2>3. \A j \in 1..(Len(read') - Len(inbuf')) : read'[j] # C!Exp[1]
    BY <1>2, <1>6, <2>1 DEF Skipping
  <2>4. Window' BY <1>6, <2>1 DEF Window
  <2>5. Filling' BY <1>4, <2>1, <2>3, <2>4 DEF Filling
  <2>6. Listens' BY <1>1, <1>8, <2>2, <2>5 DEF Listens
  <2>7. QED BY <1>3, <2>6 DEF ChatInv
<1>9. CASE v # C!Exp[1]
  <2>1. inbuf' = << >> /\ inbuf' \in Seq({}) BY <1>1, <1>2, <1>9 DEF Skipping
  <2>2. \E V : read' \in Seq(V) /\ inbuf' \in Seq(V) BY <1>7, <2>1, Common
  <2>3. \A j \in 1..Len(read') : read'[j] # C!Exp[1]
    <3>1. \A j \in 1..Len(read') : j \in 1..Len(read) \/ j = Len(read) + 1 BY <1>6
    <3>2. QED BY <1>2, <1>6, <1>9, <3>1 DEF Skipping
  <2>4. Skipping' BY <1>4, <2>1, <2>3 DEF Skipping
  <2>5. Listens' BY <1>1, <1>9, <2>2, <2>4 DEF Listens
  <2>6. QED BY <1>3, <2>5 DEF ChatInv
<1>10. QED BY <1>8, <1>9

LEMMA FillReads == ASSUME ChatInv, C!Fill PROVE ChatInv'
<1> DEFINE v == Head(modem)
<1>1. /\ cdpc = "fill" /\ UNCHANGED <<expsend, word>>
      /\ IF Len(inbuf) < Len(C!Exp)
         THEN /\ caught_alrm = 0 /\ read' = Append(read, v) /\ inbuf' = Append(inbuf, v)
              /\ cdpc' = "fill"
         ELSE cdpc' = "match" /\ UNCHANGED <<inbuf, read, caught_alrm>>
  BY DEF C!Fill, C!exp_read, C!Entry, C!Reading
<1> HIDE DEF v
<1>2. WordOk BY DEF ChatInv
<1>3. WordOk' BY <1>1, <1>2 DEF WordOk
<1>4. SUFFICES ASSUME caught_alrm = 0 PROVE Listens'
  BY <1>1, <1>3 DEF ChatInv
<1>5. Listens /\ Filling BY <1>1, <1>4 DEF ChatInv, Listens
<1>6. C!Exp' = C!Exp /\ Len(C!Exp) \in Nat /\ Len(C!Exp) >= 1 BY <1>1, <1>2, ExpType, ExpSame
<1>7. PICK T : read \in Seq(T) /\ inbuf \in Seq(T) BY <1>5 DEF Listens
<1>8. /\ Len(read) \in Nat /\ Len(inbuf) \in Nat /\ Len(inbuf) <= Len(read) BY <1>5, <1>7 DEF Filling, Window
<1>9. CASE Len(inbuf) < Len(C!Exp)
  <2>0. read' = Append(read, v) /\ inbuf' = Append(inbuf, v) BY <1>1, <1>9
  <2>1. /\ Len(read') = Len(read) + 1 /\ read'[Len(read) + 1] = v
        /\ \A j \in 1..Len(read) : read'[j] = read[j]
    BY <1>7, <2>0, OneMore
  <2>2. PICK U : read' \in Seq(U) BY <1>7, <2>0, OneMore
  <2>3. /\ Len(inbuf') = Len(inbuf) + 1 /\ inbuf'[Len(inbuf) + 1] = v
        /\ \A j \in 1..Len(inbuf) : inbuf'[j] = inbuf[j]
    BY <1>7, <2>0, OneMore
  <2>4. PICK V : inbuf' \in Seq(V) BY <1>7, <2>0, OneMore
  <2>5. \E X : read' \in Seq(X) /\ inbuf' \in Seq(X) BY <2>2, <2>4, Common
  <2>6. Len(read') - Len(inbuf') = Len(read) - Len(inbuf) BY <1>8, <2>1, <2>3
  <2>7. Window'
    <3>1. Len(inbuf') <= Len(read') BY <1>8, <2>1, <2>3
    <3>2. ASSUME NEW j \in 1..Len(inbuf') PROVE inbuf'[j] = read'[Len(read') - Len(inbuf') + j]
      <4>1. CASE j = Len(inbuf) + 1
        <5>1. Len(read) - Len(inbuf) + j = Len(read) + 1 BY <1>8, <4>1
        <5>2. QED BY <2>1, <2>3, <2>6, <4>1, <5>1
      <4>2. CASE j \in 1..Len(inbuf)
        <5>1. Len(read) - Len(inbuf) + j \in 1..Len(read) BY <1>8, <4>2
        <5>2. inbuf[j] = read[Len(read) - Len(inbuf) + j] BY <1>5, <4>2 DEF Filling, Window
        <5>3. QED BY <2>1, <2>3, <2>6, <4>2, <5>1, <5>2
      <4>3. QED BY <1>8, <2>3, <3>2, <4>1, <4>2
    <3>3. QED BY <3>1, <3>2 DEF Window
  <2>8. \A j \in 1..(Len(read') - Len(inbuf')) : read'[j] # C!Exp[1]
    BY <1>5, <1>8, <2>1, <2>6 DEF Filling
  <2>9. 1 <= Len(inbuf') /\ Len(inbuf') <= Len(C!Exp)
    BY <1>6, <1>8, <1>9, <2>3
  <2>10. Filling' BY <1>6, <2>7, <2>8, <2>9 DEF Filling
  <2>11. QED BY <1>1, <1>9, <2>5, <2>10 DEF Listens
<1>10. CASE ~(Len(inbuf) < Len(C!Exp))
  <2>1. Len(inbuf) = Len(C!Exp) BY <1>5, <1>6, <1>8, <1>10 DEF Filling
  <2>2. cdpc' = "match" /\ inbuf' = inbuf /\ read' = read BY <1>1, <1>10
  <2>3. ASSUME NEW n \in Len(C!Exp)..(Len(read) - 1), EndsAt(n) PROVE FALSE
    <3>1. 1 \in 1..Len(C!Exp) /\ n - Len(C!Exp) + 1 \in 1..(Len(read) - Len(inbuf))
      BY <1>6, <1>8, <2>1, <2>3
    <3>2. read[n - Len(C!Exp) + 1] = C!Exp[1] BY <2>3, <3>1 DEF EndsAt
    <3>3. QED BY <1>5, <3>1, <3>2 DEF Filling
  <2>4. Matching BY <1>5, <2>1, <2>3 DEF Matching, Filling
  <2>5. Matching' BY <1>6, <2>2, <2>4 DEF Matching, Window, EndsAt
  <2>6. QED BY <1>7, <2>2, <2>5 DEF Listens
<1>11. QED BY <1>9, <1>10

LEMMA MatchMoves == ASSUME ChatInv, C!Match PROVE ChatInv'
<1> DEFINE v == Head(modem)
<1>1. /\ cdpc = "match" /\ UNCHANGED expsend
      /\ \/ C!NextWord("send")
         \/ /\ inbuf # C!Exp /\ caught_alrm = 0 /\ read' = Append(read, v)
            /\ inbuf' = Append(Tail(inbuf), v) /\ cdpc' = cdpc /\ word' = word
  BY DEF C!Match, C!Slide, C!exp_read, C!Entry
<1> HIDE DEF v
<1>2. WordOk BY DEF ChatInv
<1>3. CASE C!NextWord("send")
  BY <1>1, <1>2, <1>3, NextString DEF ChatInv
<1>4. CASE /\ inbuf # C!Exp /\ caught_alrm = 0 /\ read' = Append(read, v)
           /\ inbuf' = Append(Tail(inbuf), v) /\ cdpc' = cdpc /\ word' = word
  <2>1. Listens /\ Matching BY <1>1, <1>4 DEF ChatInv, Listens
  <2>2. /\ C!Exp' = C!Exp /\ Len(C!Exp) \in Nat /\ Len(C!Exp) >= 1 /\ C!Exp \in Seq(Sounds)
    BY <1>1, <1>2, <1>4, ExpType, ExpSame
  <2>3. PICK T : read \in Seq(T) /\ inbuf \in Seq(T) BY <2>1 DEF Listens
  <2>4. /\ Len(read) \in Nat /\ Len(inbuf) = Len(C!Exp) /\ Len(inbuf) <= Len(read)
    BY <2>1, <2>3 DEF Matching, Window
  <2>5. inbuf # << >> BY <2>2, <2>3, <2>4, EmptySeq
  <2>6. /\ Len(read') = Len(read) + 1 /\ read'[Len(read) + 1] = v
        /\ \A j \in 1..Len(read) : read'[j] = read[j]
    BY <1>4, <2>3, OneMore
  <2>7. PICK U : read' \in Seq(U) BY <1>4, <2>3, OneMore
  <2>8. /\ Len(inbuf') = Len(inbuf) /\ inbuf'[Len(inbuf)] = v
        /\ \A j \in 1..(Len(inbuf) - 1) : inbuf'[j] = inbuf[j + 1]
    BY <1>4, <2>3, <2>5, Shifted
  <2>9. PICK V : inbuf' \in Seq(V) BY <1>4, <2>3, <2>5, Shifted
  <2>10. \E X : read' \in Seq(X) /\ inbuf' \in Seq(X) BY <2>7, <2>9, Common
  <2>11. Window'
    <3>1. Len(inbuf') <= Len(read') BY <2>2, <2>4, <2>6, <2>8
    <3>2. ASSUME NEW j \in 1..Len(inbuf') PROVE inbuf'[j] = read'[Len(read') - Len(inbuf') + j]
      <4>1. CASE j = Len(inbuf)
        <5>1. Len(read') - Len(inbuf') + j = Len(read) + 1 BY <2>2, <2>4, <2>6, <2>8, <4>1
        <5>2. QED BY <2>6, <2>8, <4>1, <5>1
      <4>2. CASE j \in 1..(Len(inbuf) - 1)
        <5>1. /\ Len(read') - Len(inbuf') + j = Len(read) - Len(inbuf) + (j + 1)
              /\ Len(read) - Len(inbuf) + (j + 1) \in 1..Len(read) /\ j + 1 \in 1..Len(inbuf)
          BY <2>2, <2>4, <2>6, <2>8, <4>2
        <5>2. inbuf[j + 1] = read[Len(read) - Len(inbuf) + (j + 1)]
          BY <2>1, <5>1 DEF Matching, Window
        <5>3. QED BY <2>6, <2>8, <4>2, <5>1, <5>2
      <4>3. QED BY <2>2, <2>4, <2>8, <3>2, <4>1, <4>2
    <3>3. QED BY <3>1, <3>2 DEF Window
  <2>12. ~EndsAt(Len(read))
    <3>1. SUFFICES ASSUME EndsAt(Len(read)) PROVE FALSE
      OBVIOUS
    <3>2. \A j \in 1..Len(inbuf) : inbuf[j] = C!Exp[j]
      BY <2>1, <2>4, <3>1 DEF Matching, Window, EndsAt
    <3>3. PICK X : inbuf \in Seq(X) /\ C!Exp \in Seq(X) BY <2>2, <2>3, Common
    <3>4. inbuf = C!Exp BY <2>4, <3>2, <3>3, SeqEqual
    <3>5. QED BY <1>4, <3>4
  <2>13. ASSUME NEW n \in Len(C!Exp)..(Len(read') - 1), EndsAt(n)' PROVE FALSE
    <3>1. \A j \in 1..Len(C!Exp) : read'[n - Len(C!Exp) + j] = C!Exp[j]
      BY <2>2, <2>13 DEF EndsAt
    <3>2. \A j \in 1..Len(C!Exp) : n - Len(C!Exp) + j \in 1..Len(read)
      BY <2>2, <2>4, <2>6, <2>13
    <3>3. EndsAt(n) BY <2>6, <3>1, <3>2 DEF EndsAt
    <3>4. n = Len(read) \/ n \in Len(C!Exp)..(Len(read) - 1) BY <2>2, <2>4, <2>6, <2>13
    <3>5. QED BY <2>1, <2>12, <3>3, <3>4 DEF Matching
  <2>14. Matching' BY <2>2, <2>4, <2>8, <2>11, <2>13 DEF Matching
  <2>15. Listens' BY <1>1, <1>4, <2>10, <2>14 DEF Listens
  <2>16. WordOk' BY <1>1, <1>2, <1>4 DEF WordOk
  <2>17. QED BY <2>15, <2>16 DEF ChatInv
<1>5. QED BY <1>1, <1>3, <1>4

LEMMA ListensSame ==
  ASSUME ChatInv, UNCHANGED <<cdpc, expsend, word, inbuf, read>>, caught_alrm' = caught_alrm \/ caught_alrm' # 0
  PROVE  ChatInv'
<1>1. C!Exp' = C!Exp BY ExpSame
<1>2. QED
  BY <1>1 DEF ChatInv, WordOk, Listens, Skipping, Filling, Matching, Window, EndsAt

LEMMA ChatNextInv == ASSUME ChatInv, C!chatNext PROVE ChatInv'
<1> USE DEF C!Entry, C!Reading, C!Line, C!SendEnv
<1>1. CASE C!dial_find BY <1>1, Elsewhere DEF C!dial_find
<1>2. CASE C!tty_open BY <1>2, Elsewhere DEF C!tty_open
<1>3. CASE C!SendFd BY <1>3, Elsewhere DEF C!SendFd
<1>4. CASE C!die BY <1>4, Elsewhere DEF C!die
<1>5. CASE C!expect_str BY <1>5, BeginsExpect
<1>6. CASE C!Skip BY <1>6, SkipReads
<1>7. CASE C!Fill BY <1>7, FillReads
<1>8. CASE C!Match BY <1>8, MatchMoves
<1>9. CASE C!RunsOn
  <2>1. CASE cdpc' = "crash" /\ word' = word BY <1>9, <2>1, Elsewhere DEF C!RunsOn
  <2>2. CASE C!NextWord("send") BY <1>9, <2>2, NextString DEF C!RunsOn, ChatInv
  <2>3. QED BY <1>9, <2>1, <2>2 DEF C!RunsOn
<1>10. CASE C!SendStart BY <1>10, Elsewhere DEF C!SendStart
<1>11. ASSUME NEW rc \in Int, C!SendReturns(rc), UNCHANGED expsend PROVE ChatInv'
  <2>1. CASE C!NextWord("expect") BY <1>11, <2>1, NextString DEF ChatInv
  <2>2. CASE cdpc' \in {"send_str", "die"} /\ word' = word BY <1>11, <2>2, Elsewhere
  <2>3. QED BY <1>11, <2>1, <2>2 DEF C!SendReturns
<1>12. CASE C!SendEnd BY <1>11, <1>12 DEF C!SendEnd
<1>13. CASE C!SendChar BY <1>13, Elsewhere DEF C!SendChar
<1>14. CASE C!Echo BY <1>14, Elsewhere DEF C!Echo
<1>15. CASE C!SendEscape
  <2>1. CASE C!SendReturns(0) BY <1>11, <1>15, <2>1 DEF C!SendEscape
  <2>2. CASE C!SendReturns(-1)
    <3>1. -1 \in Int OBVIOUS
    <3>2. QED BY <1>11, <1>15, <2>2, <3>1 DEF C!SendEscape
  <2>3. CASE UNCHANGED <<cdpc, word>> BY <1>15, <2>3, Elsewhere DEF C!SendEscape
  <2>4. QED BY <1>15, <2>1, <2>2, <2>3 DEF C!SendEscape
<1>16. CASE C!LineFails BY <1>16, Elsewhere DEF C!LineFails
<1>17. CASE C!sig_alrm BY <1>17, ListensSame DEF C!sig_alrm, C!AlarmRings
<1>18. ASSUME NEW c \in Heard, C!ModemSays(c) PROVE ChatInv' BY <1>18, ListensSame DEF C!ModemSays
<1>19. QED
  BY <1>1, <1>2, <1>3, <1>4, <1>5, <1>6, <1>7, <1>8, <1>9, <1>10, <1>12, <1>13, <1>14, <1>15, <1>16,
     <1>17, <1>18 DEF C!chatNext, C!Dialer

LEMMA ChatFinds == ASSUME ChatInv PROVE C!ExpectFound
<1>1. SUFFICES ASSUME cdpc \in {"skip", "fill", "match"}, caught_alrm = 0
      PROVE /\ \A n \in 1..(Len(read) - 1) : ~C!Ends(SubSeq(read, 1, n), C!Exp)
            /\ C!Ends(read, C!Exp) => cdpc \in {"fill", "match"} /\ inbuf = C!Exp
  BY DEF C!ExpectFound
<1>2. WordOk /\ Listens BY <1>1 DEF ChatInv
<1>3. C!Exp \in Seq(Sounds) /\ Len(C!Exp) \in Nat /\ Len(C!Exp) >= 1 BY <1>1, <1>2, ExpType
<1>4. PICK T : read \in Seq(T) /\ inbuf \in Seq(T) BY <1>2 DEF Listens
<1>5. Len(read) \in Nat /\ Len(inbuf) \in Nat BY <1>4
<1>6. ASSUME NEW n \in 1..Len(read), C!Ends(SubSeq(read, 1, n), C!Exp)
      PROVE  Len(C!Exp) <= n /\ EndsAt(n)
  <2> DEFINE s == SubSeq(read, 1, n)
             m == Len(C!Exp)
  <2>1. /\ s \in Seq(T) /\ Len(s) = n /\ \A j \in 1..n : s[j] = read[j]
    BY <1>4, <1>5, <1>6
  <2>2. m \in Nat /\ m <= Len(s) /\ SubSeq(s, Len(s) - m + 1, Len(s)) = C!Exp
    BY <1>3, <1>6 DEF C!Ends
  <2> HIDE DEF s, m
  <2>3. n \in Nat /\ n - m + 1 \in Int BY <1>6, <2>2
  <2>4. ASSUME NEW j \in 1..m PROVE SubSeq(s, n - m + 1, n)[j] = s[n - m + j]
    <3>1. \A j1 \in (n - m + 1)..n : s[j1] \in T
      <4>1. \A j1 \in (n - m + 1)..n : j1 \in 1..Len(s) BY <2>1, <2>2, <2>3
      <4>2. QED BY <2>1, <4>1, ElementOfSeq
    <3>2. \A j1 \in 1..(n - (n - m + 1) + 1) : SubSeq(s, n - m + 1, n)[j1] = s[(n - m + 1) + j1 - 1]
      BY <2>3, <3>1, SubSeqProperties
    <3>3. j \in 1..(n - (n - m + 1) + 1) /\ (n - m + 1) + j - 1 = n - m + j BY <2>2, <2>3, <2>4
    <3>4. QED BY <3>2, <3>3
  <2>5. \A j \in 1..m : n - m + j \in 1..n
    <3>1. m <= n BY <2>1, <2>2
    <3>2. \A x, y \in Nat : x <= y => \A j \in 1..x : y - x + j \in 1..y OBVIOUS
    <3>3. QED BY <2>2, <2>3, <3>1, <3>2, Zenon
  <2>6. \A j \in 1..m : read[n - m + j] = C!Exp[j]
    BY <2>1, <2>2, <2>4, <2>5
  <2>7. QED BY <2>1, <2>2, <2>6 DEF EndsAt, m
<1>7. ASSUME NEW n \in 1..Len(read), Len(C!Exp) <= n, EndsAt(n)
      PROVE  n = Len(read) /\ cdpc \in {"fill", "match"} /\ Len(inbuf) = Len(C!Exp)
  <2>1. 1 \in 1..Len(C!Exp) /\ read[n - Len(C!Exp) + 1] = C!Exp[1]
    BY <1>3, <1>7 DEF EndsAt
  <2>2. n - Len(C!Exp) + 1 \in 1..Len(read) BY <1>3, <1>5, <1>7
  <2>3. cdpc # "skip"
    BY <1>2, <2>1, <2>2 DEF Listens, Skipping
  <2>4. CASE cdpc = "fill"
    <3>1. Filling BY <1>2, <2>4 DEF Listens
    <3>2. n - Len(C!Exp) + 1 \notin 1..(Len(read) - Len(inbuf)) /\ Len(inbuf) <= Len(C!Exp)
          /\ Len(inbuf) <= Len(read)
      BY <2>1, <3>1 DEF Filling, Window
    <3>3. QED BY <1>3, <1>5, <1>7, <2>2, <2>4, <3>2
  <2>5. CASE cdpc = "match"
    <3>1. Matching BY <1>2, <2>5 DEF Listens
    <3>2. n \notin Len(C!Exp)..(Len(read) - 1) /\ Len(inbuf) = Len(C!Exp)
      BY <1>7, <3>1 DEF Matching
    <3>3. QED BY <1>3, <1>5, <1>7, <2>5, <3>2
  <2>6. QED BY <1>1, <2>3, <2>4, <2>5
<1>8. ASSUME NEW n \in 1..(Len(read) - 1) PROVE ~C!Ends(SubSeq(read, 1, n), C!Exp)
  <2>1. n \in 1..Len(read) /\ n # Len(read) BY <1>5, <1>8
  <2>2. QED BY <1>6, <1>7, <2>1
<1>9. ASSUME C!Ends(read, C!Exp) PROVE cdpc \in {"fill", "match"} /\ inbuf = C!Exp
  <2>1. SubSeq(read, 1, Len(read)) = read BY <1>4, SubSeqFull
  <2>2. Len(C!Exp) <= Len(read) BY <1>9 DEF C!Ends
  <2>3. Len(read) \in 1..Len(read) BY <1>3, <1>5, <2>2
  <2>4. EndsAt(Len(read)) BY <1>6, <1>9, <2>1, <2>3
  <2>5. cdpc \in {"fill", "match"} /\ Len(inbuf) = Len(C!Exp) BY <1>7, <2>2, <2>3, <2>4
  <2>6. Window BY <1>2, <2>5 DEF Listens, Filling, Matching
  <2>7. \A j \in 1..Len(inbuf) : inbuf[j] = C!Exp[j]
    BY <2>4, <2>5, <2>6 DEF Window, EndsAt
  <2>8. PICK X : inbuf \in Seq(X) /\ C!Exp \in Seq(X) BY <1>3, <1>4, Common
  <2>9. inbuf = C!Exp BY <2>5, <2>7, <2>8, SeqEqual
  <2>10. QED BY <2>5, <2>9
<1>10. QED BY <1>8, <1>9

(* expect_str goes on at the first place where what it has read ends in    *)
(* the expected string, for any conversations and whatever the modem says: *)
(* it reads no further, and overlapping beginnings do not make it miss one.*)
THEOREM ExpectTheorem == ProgSpec => []ExpectFound
<1>1. ProgInit => ChatInv
  <2>1. C!chatInit => ChatInv
    <3>1. SUFFICES ASSUME C!chatInit PROVE ChatInv OBVIOUS
    <3>2. expsend \in Seq(Seq(STRING)) /\ expsend # << >> BY <3>1, ChatAssumption DEF C!chatInit
    <3>3. Len(expsend) \in Nat \ {0} BY <3>2, EmptySeq
    <3>4. QED BY <3>1, <3>3 DEF C!chatInit, ChatInv, WordOk
  <2>2. QED BY <2>1 DEF ProgInit
<1>2. ChatInv /\ [ProgNext]_allVars => ChatInv'
  <2> SUFFICES ASSUME ChatInv, [ProgNext]_allVars PROVE ChatInv'
    OBVIOUS
  <2>1. CASE C!chatNext BY <2>1, ChatNextInv
  <2>2. CASE UNCHANGED dialVars BY <2>2, ListensSame DEF dialVars
  <2>3. QED BY <2>1, <2>2, DialSteps
<1>3. ChatInv => ExpectFound BY ChatFinds DEF ExpectFound
<1>4. QED
  BY <1>1, <1>2, <1>3, PTL DEF ProgSpec
===============================================================================
