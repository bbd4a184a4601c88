----------------------------- MODULE CalldProofs ------------------------------
(***************************************************************************)
(* The dialing daemon.  First for every number of clients, lines and       *)
(* children: the waitpid of the SIGCHLD handler never blocks, and no child *)
(* dials before its line is locked.  The inductive invariant adds to the   *)
(* types what request() has done so far (RequestInv) and drops the daemon's*)
(* end from HandlerReturns.                                                *)
(*                                                                         *)
(* Then with clients that hang up only once their call is settled, and any *)
(* Systems and Devices files: a line has one user, a client one answer, and*)
(* the daemon lives as long as its descriptors last.  One inductive        *)
(* invariant carries all of it.  It ties a process id in an entry of       *)
(* client[] to the child, the child to the client it dials for, the lock to*)
(* both, and it says that whatever is still under way for a client keeps   *)
(* the client from being answered, so from hanging up.                     *)
(***************************************************************************)
EXTENDS Calld, SequenceTheorems, FiniteSetTheorems, TLAPS

Pending == sigchld => Zombies # {}

IInv == TypeOK /\ RequestInv /\ Pending

-----------------------------------------------------------------------------
(* Min, with which the lookups are written, picks a member of the set.     *)
LEMMA LeastNat ==
  ASSUME NEW T, T \subseteq Nat, T # {}
  PROVE  \E x \in T : \A y \in T : x <= y
<1>1. PICK x \in T : \A y \in T : ~(<<y, x>> \in OpToRel(<, Nat))
  BY NatLessThanWellFounded, WFMin
<1>2. \A y \in T : <<y, x>> \in OpToRel(<, Nat) <=> y < x
  BY DEF OpToRel
<1>3. \A y \in T : ~(y < x)
  BY <1>1, <1>2, Zenon
<1> HIDE <1>1, <1>2
<1> QED BY <1>3

LEMMA MinIn ==
  ASSUME NEW T, T \subseteq Nat, T # {}
  PROVE  Min(T) \in T
BY LeastNat DEF Min

(* The position that sys_next returns, and the line of a callable one.     *)
LEMMA FoundTyped ==
  ASSUME NEW r, NEW from \in Nat, NEW lk
  PROVE  /\ sys_next(r, from, lk) \in Nat \cup {-1}
         /\ Callable(sys_next(r, from, lk)) => Line(sys_next(r, from, lk)) \in Lines
<1> DEFINE stops == {n \in from + 1 .. Len(Systems) :
                       /\ Match(r, Systems[n])
                       /\ dev_find(Systems[n]) = 0 \/ lk[Line(n)] = 0}
           n0 == sys_next(r, from, lk)
           hits == {n \in DOMAIN Devices : /\ Devices[n].type = Systems[n0].type
                                           /\ Devices[n].class = Systems[n0].class}
<1>1. stops \subseteq Nat
  BY CalldAssumption
<1>2. n0 \in Nat \cup {-1}
  <2>1. CASE stops = {}
    BY <2>1 DEF sys_next
  <2>2. CASE stops # {}
    <3>1. Min(stops) \in stops
      BY <1>1, <2>2, MinIn
    <3>2. n0 = Min(stops)
      BY <2>2 DEF sys_next
    <3> HIDE DEF n0, stops
    <3> QED BY <1>1, <3>1, <3>2
  <2> QED BY <2>1, <2>2
<1>3. ASSUME Callable(n0) PROVE Line(n0) \in Lines
  <2>1. dev_find(Systems[n0]) # 0
    BY <1>3 DEF Callable
  <2>2. hits # {} /\ dev_find(Systems[n0]) = Min(hits)
    BY <2>1 DEF dev_find
  <2>3. hits \subseteq Nat /\ hits \subseteq DOMAIN Devices
    BY CalldAssumption
  <2>4. Min(hits) \in DOMAIN Devices
    BY <2>2, <2>3, MinIn
  <2> HIDE DEF hits, n0
  <2> QED BY <2>2, <2>4 DEF Line, Lines
<1> QED BY <1>2, <1>3

(* Replacing an element of a sequence.                                     *)
LEMMA Replaced ==
  ASSUME NEW S, NEW s \in Seq(S), NEW k, NEW v, k \in DOMAIN s => v \in S
  PROVE  /\ [s EXCEPT ![k] = v] \in Seq(S)
         /\ DOMAIN [s EXCEPT ![k] = v] = DOMAIN s
         /\ Len([s EXCEPT ![k] = v]) = Len(s)
<1>1. CASE k \in DOMAIN s
  BY <1>1, ExceptSeq
<1>2. CASE k \notin DOMAIN s
  <2>1. [s EXCEPT ![k] = v] = s
    BY <1>2, ElementOfSeq
  <2> QED BY <2>1
<1> QED BY <1>1, <1>2
-----------------------------------------------------------------------------
(* Initially.                                                              *)
LEMMA InitOK == Init => IInv
<1> SUFFICES ASSUME Init PROVE IInv
  OBVIOUS
<1>1. child = << >> /\ client = << >> /\ sigchld = FALSE /\ dpc = "top"
  BY DEF Init
<1>2. client \in Seq(EntryType) /\ child \in Seq(ChildType)
  BY <1>1
<1>3. conn \in [Clients -> ConnType] /\ got \in [Clients -> Seq(Lines \cup {"err"})]
  BY DEF Init, ConnType
<1>4. chld_flag \in BOOLEAN /\ sigchld \in BOOLEAN
  BY DEF Init
<1>5. /\ dpc \in Labels /\ i \in Nat \ {0} /\ caller \in {"scan", "cd"}
      /\ resume \in {"presel", "top"} /\ rset \subseteq Clients
      /\ lock \in [Lines -> Nat] /\ asked \in [Clients -> Requests \cup {NoReq}]
  BY DEF Init, Labels
<1>6. TypeOK
  BY <1>2, <1>3, <1>4, <1>5 DEF TypeOK
<1> QED BY <1>1, <1>6 DEF IInv, RequestInv, Pending

(* The clients change the connections and what they have asked.            *)
LEMMA CallerOK ==
  ASSUME IInv, NEW c \in Clients, Caller(c)
  PROVE  IInv'
<1>1. UNCHANGED <<dpc, i, caller, resume, rset, chld_flag, client, lock, sigchld, child, got>>
  BY DEF Caller, Connect, Send, Close, daemon
<1>2. /\ conn[c] \in ConnType
      /\ conn' \in [Clients -> ConnType]
  <2>1. conn \in [Clients -> ConnType]
    BY DEF IInv, TypeOK
  <2>2. \E v \in ConnType : conn' = [conn EXCEPT ![c] = v]
    <3>0. /\ [conn[c] EXCEPT !.st = "queued"] \in ConnType
          /\ [conn[c] EXCEPT !.unread = TRUE] \in ConnType
          /\ [conn[c] EXCEPT !.closed = TRUE] \in ConnType
      BY <2>1 DEF ConnType
    <3>1. CASE Connect(c)
      BY <3>0, <3>1 DEF Connect
    <3>2. CASE \E r \in Requests : Send(c, r)
      BY <3>0, <3>2 DEF Send
    <3>3. CASE Close(c)
      BY <3>0, <3>3 DEF Close
    <3> QED BY <3>1, <3>2, <3>3 DEF Caller
  <2> QED BY <2>1, <2>2
<1>3. asked' \in [Clients -> Requests \cup {NoReq}]
  BY DEF IInv, TypeOK, Caller, Connect, Send, Close
<1> QED BY <1>1, <1>2, <1>3 DEF IInv, TypeOK, RequestInv, Pending, Zombies

(* Steps of the loops that change nothing but where the daemon is.         *)
LEMMA WalkOK ==
  ASSUME IInv, Top \/ Enter \/ Listen \/ Select \/ ScanSkip \/ ChildDone \/ ChildDoneSkip
  PROVE  IInv'
<1>1. UNCHANGED <<client, lock, sigchld, child, conn, asked, got>>
  BY DEF Top, Enter, Listen, Select, ScanSkip, ChildDone, ChildDoneSkip
<1>2. dpc' \in Labels \ {"request", "lock", "tell"} /\ resume' \in {"presel", "top"}
  BY DEF IInv, TypeOK, Labels, Top, Enter, Listen, Select, ScanSkip, ChildDone, ChildDoneSkip, Continue
<1>3. i' \in Nat \ {0} /\ caller' = caller /\ rset' \subseteq Clients
  BY DEF IInv, TypeOK, Top, Enter, Listen, Select, Readable, ScanSkip, ChildDone, ChildDoneSkip, Continue
<1>4. chld_flag' \in BOOLEAN
  BY DEF IInv, TypeOK, Top, Enter, Listen, Select, ScanSkip, ChildDone, ChildDoneSkip
<1> QED BY <1>1, <1>2, <1>3, <1>4 DEF IInv, TypeOK, RequestInv, Pending, Zombies

(* A new client gets an entry.                                             *)
LEMMA AcceptOK ==
  ASSUME IInv, NEW c \in Clients, Accept(c)
  PROVE  IInv'
<1>1. UNCHANGED <<i, caller, resume, rset, chld_flag, lock, sigchld, child, asked, got>>
  BY DEF Accept, AcceptFails
<1>2. dpc' \in Labels \ {"request", "lock", "tell"}
  BY DEF Accept, AcceptFails, Labels
<1>3. conn' \in [Clients -> ConnType]
  <2>1. conn \in [Clients -> ConnType]
    BY DEF IInv, TypeOK
  <2>2. [conn[c] EXCEPT !.st = "open"] \in ConnType
    BY <2>1 DEF ConnType
  <2> QED BY <2>1, <2>2 DEF Accept
<1>4. client' \in Seq(EntryType)
  <2> DEFINE new == [n \in 1 .. NALLOC |-> NewEntry]
             free == {e \in DOMAIN client : client[e].fd = NoFd}
             cs == IF free # {} THEN client ELSE client \o new
             e == IF free # {} THEN Min(free) ELSE Len(client) + 1
  <2>1. NewEntry \in EntryType
    BY DEF NewEntry, EntryType
  <2>2. new \in Seq(EntryType)
    BY <2>1, CalldAssumption, IsASeq
  <2>3. client \in Seq(EntryType) /\ client \o new \in Seq(EntryType)
    BY <2>2, ConcatProperties DEF IInv, TypeOK
  <2>4. cs \in Seq(EntryType)
    BY <2>3
  <2>5. e \in DOMAIN cs => [cs[e] EXCEPT !.fd = c] \in EntryType
    <3> HIDE DEF cs, e
    <3> SUFFICES ASSUME e \in DOMAIN cs PROVE [cs[e] EXCEPT !.fd = c] \in EntryType
      OBVIOUS
    <3>1. cs[e] \in EntryType
      BY <2>4, ElementOfSeq
    <3> QED BY <3>1 DEF EntryType
  <2>6. [cs EXCEPT ![e] = [cs[e] EXCEPT !.fd = c]] \in Seq(EntryType)
    <3> HIDE DEF cs, e
    <3> QED BY <2>4, <2>5, Replaced
  <2>7. client' = client \/ client' = [cs EXCEPT ![e] = [cs[e] EXCEPT !.fd = c]]
    BY DEF Accept, client_add
  <2> QED BY <2>3, <2>6, <2>7
<1> QED BY <1>1, <1>2, <1>3, <1>4 DEF IInv, TypeOK, RequestInv, Pending, Zombies

(* The fields of entry i that the daemon sets.                             *)
LEMMA EntryTyped ==
  ASSUME IInv, i \in DOMAIN client
  PROVE  /\ client[i] \in EntryType
         /\ \A v \in EntryType : /\ [client EXCEPT ![i] = v] \in Seq(EntryType)
                                 /\ DOMAIN [client EXCEPT ![i] = v] = DOMAIN client
<1>1. client \in Seq(EntryType)
  BY DEF IInv, TypeOK
<1>2. client[i] \in EntryType
  BY <1>1, ElementOfSeq
<1> QED BY <1>1, <1>2, Replaced

(* Replacing a value of a function, whether or not it is in the domain.    *)
LEMMA Updated ==
  ASSUME NEW S, NEW T, NEW f \in [S -> T], NEW x, NEW v, x \in S => v \in T
  PROVE  [f EXCEPT ![x] = v] \in [S -> T]
<1>1. CASE x \in S
  BY <1>1
<1>2. CASE x \notin S
  BY <1>2
<1> QED BY <1>1, <1>2

LEMMA lock_relTyped ==
  ASSUME IInv, NEW pid
  PROVE  lock_rel(lock, pid) \in [Lines -> Nat]
BY DEF IInv, TypeOK, lock_rel

(* What a step that leaves the children alone and neither locks a line nor *)
(* tells a child has to keep.                                              *)
LEMMA DaemonStep ==
  ASSUME IInv,
         UNCHANGED <<resume, rset, chld_flag, sigchld, child, asked>>,
         dpc' \in Labels \ {"lock", "tell"}, i' \in Nat \ {0}, caller' \in {"scan", "cd"},
         dpc' = "request" => i' \in DOMAIN client',
         client' \in Seq(EntryType), lock' \in [Lines -> Nat],
         conn' \in [Clients -> ConnType], got' \in [Clients -> Seq(Lines \cup {"err"})]
  PROVE  IInv'
<1>1. TypeOK'
  BY DEF IInv, TypeOK
<1>2. RequestInv'
  BY DEF RequestInv
<1>3. Pending'
  BY DEF IInv, Pending, Zombies
<1> QED BY <1>1, <1>2, <1>3 DEF IInv

(* The request of a client is read.                                        *)
LEMMA ScanRequestOK == IInv /\ ScanRequest => IInv'
<1> SUFFICES ASSUME IInv, ScanRequest PROVE IInv'
  OBVIOUS
<1> DEFINE c == client[i].fd
           v == [client[i] EXCEPT !.req = asked[c], !.childdone = 0, !.sysftell = 0]
<1>1. c \in Clients /\ i \in DOMAIN client
  BY LenProperties DEF IInv, TypeOK, ScanRequest, Scanning
<1>2. client[i] \in EntryType
  BY <1>1, EntryTyped
<1>3. v \in EntryType
  <2>1. asked[c] \in Requests \cup {NoReq}
    BY <1>1 DEF IInv, TypeOK
  <2>2. \A a \in Requests \cup {NoReq} :
          [client[i] EXCEPT !.req = a, !.childdone = 0, !.sysftell = 0] \in EntryType
    <3>1. \A e \in EntryType : \A a \in Requests \cup {NoReq} : [e EXCEPT !.req = a] \in EntryType
      BY DEF EntryType
    <3>2. \A e \in EntryType : [e EXCEPT !.childdone = 0] \in EntryType
      BY DEF EntryType
    <3>3. \A e \in EntryType : [e EXCEPT !.sysftell = 0] \in EntryType
      BY DEF EntryType
    <3> QED BY <1>2, <3>1, <3>2, <3>3
  <2> HIDE DEF c
  <2> QED BY <2>1, <2>2
<1>4. client' = [client EXCEPT ![i] = v]
  BY <1>1, <1>2 DEF ScanRequest, EntryType
<1>5. client' \in Seq(EntryType) /\ DOMAIN client' = DOMAIN client
  BY <1>1, <1>3, <1>4, EntryTyped
<1>6. conn' \in [Clients -> ConnType]
  <2>1. conn \in [Clients -> ConnType]
    BY DEF IInv, TypeOK
  <2>2. [conn[c] EXCEPT !.unread = FALSE] \in ConnType
    BY <1>1, <2>1 DEF ConnType
  <2> QED BY <2>1, <2>2 DEF ScanRequest
<1>7. /\ UNCHANGED <<i, resume, rset, chld_flag, lock, sigchld, child, asked, got>>
      /\ dpc' = "request" /\ caller' = "scan"
  BY DEF ScanRequest, CallRequest
<1>8. /\ i \in Nat \ {0} /\ lock \in [Lines -> Nat]
      /\ got \in [Clients -> Seq(Lines \cup {"err"})]
  BY DEF IInv, TypeOK
<1> HIDE DEF v, c
<1> QED BY <1>1, <1>5, <1>6, <1>7, <1>8, DaemonStep DEF Labels

(* A client has gone.                                                      *)
LEMMA ScanEofOK == IInv /\ ScanEof => IInv'
<1> SUFFICES ASSUME IInv, ScanEof PROVE IInv'
  OBVIOUS
<1> DEFINE c == client[i].fd
           v == [client[i] EXCEPT !.fd = NoFd]
<1>1. c \in Clients /\ i \in DOMAIN client
  BY LenProperties DEF IInv, TypeOK, ScanEof, Scanning
<1>2. client[i] \in EntryType
  BY <1>1, EntryTyped
<1>3. v \in EntryType
  BY <1>1, <1>2 DEF EntryType
<1>4. client' = [client EXCEPT ![i] = v]
  BY DEF ScanEof
<1>5. client' \in Seq(EntryType)
  BY <1>1, <1>3, <1>4, EntryTyped
<1>6. conn' \in [Clients -> ConnType]
  <2>1. conn \in [Clients -> ConnType]
    BY DEF IInv, TypeOK
  <2>2. [conn[c] EXCEPT !.st = "dropped"] \in ConnType
    BY <1>1, <2>1 DEF ConnType
  <2> QED BY <2>1, <2>2 DEF ScanEof
<1>7. lock' \in [Lines -> Nat]
  BY lock_relTyped DEF ScanEof
<1>8. /\ UNCHANGED <<caller, resume, rset, chld_flag, sigchld, child, asked, got>>
      /\ dpc' = "scan" /\ i' = i + 1
  BY DEF ScanEof, Continue
<1>9. /\ i \in Nat \ {0} /\ caller \in {"scan", "cd"}
      /\ got \in [Clients -> Seq(Lines \cup {"err"})]
  BY DEF IInv, TypeOK
<1> HIDE DEF v, c
<1> QED BY <1>5, <1>6, <1>7, <1>8, <1>9, DaemonStep DEF Labels

(* child_done takes note of a child's end.                                 *)
LEMMA ChildDoneOK == IInv /\ (ChildDoneOk \/ ChildDoneRetry) => IInv'
<1> SUFFICES ASSUME IInv, ChildDoneOk \/ ChildDoneRetry PROVE IInv'
  OBVIOUS
<1> DEFINE v == [client[i] EXCEPT !.childdone = 0]
<1>1. i \in DOMAIN client
  BY LenProperties DEF IInv, TypeOK, ChildDoneOk, ChildDoneRetry, Finished
<1>2. client[i] \in EntryType
  BY <1>1, EntryTyped
<1>3. v \in EntryType
  BY <1>2 DEF EntryType
<1>4. client' = [client EXCEPT ![i] = v]
  BY DEF ChildDoneOk, ChildDoneRetry
<1>5. client' \in Seq(EntryType) /\ DOMAIN client' = DOMAIN client
  BY <1>1, <1>3, <1>4, EntryTyped
<1>6. lock' \in [Lines -> Nat]
  BY lock_relTyped DEF IInv, TypeOK, ChildDoneOk, ChildDoneRetry
<1>7. /\ UNCHANGED <<resume, rset, chld_flag, sigchld, child, conn, asked, got>>
      /\ \/ dpc' = "cd" /\ i' = i + 1 /\ caller' = caller
         \/ dpc' = "request" /\ i' = i /\ caller' = "cd"
  BY DEF ChildDoneOk, ChildDoneRetry, Continue, CallRequest
<1>8. /\ i \in Nat \ {0} /\ caller \in {"scan", "cd"} /\ conn \in [Clients -> ConnType]
      /\ got \in [Clients -> Seq(Lines \cup {"err"})]
  BY DEF IInv, TypeOK
<1> HIDE DEF v
<1> QED BY <1>1, <1>5, <1>6, <1>7, <1>8, DaemonStep DEF Labels

(* request() fails, or answers that there is no line.                      *)
LEMMA GiveUpOK == IInv /\ (PosnFails \/ GiveUp) => IInv'
<1> SUFFICES ASSUME IInv, PosnFails \/ GiveUp PROVE IInv'
  OBVIOUS
<1>1. /\ i \in Nat \ {0} /\ caller \in {"scan", "cd"}
      /\ client \in Seq(EntryType) /\ lock \in [Lines -> Nat]
      /\ conn \in [Clients -> ConnType] /\ got \in [Clients -> Seq(Lines \cup {"err"})]
  BY DEF IInv, TypeOK
<1>2. UNCHANGED <<resume, rset, chld_flag, lock, sigchld, child, asked>>
  BY DEF PosnFails, GiveUp, Exit, Continue
<1>3. CASE dpc' = "exit" /\ UNCHANGED <<i, caller, client, conn, got>>
  BY <1>1, <1>2, <1>3, DaemonStep DEF Labels
<1>4. CASE ~(dpc' = "exit" /\ UNCHANGED <<i, caller, client, conn, got>>)
  <2> DEFINE c == client[i].fd
             v == [client[i] EXCEPT !.sysftell = Found, !.fd = NoFd]
             w == [conn[c] EXCEPT !.st = "dropped"]
             g == Append(got[c], "err")
  <2>1. /\ dpc = "request" /\ client[i].sysftell # -1
        /\ dpc' = caller /\ i' = i + 1 /\ caller' = caller
        /\ client' = [client EXCEPT ![i].sysftell = Found, ![i].fd = NoFd]
        /\ conn' = [conn EXCEPT ![c].st = "dropped"]
        /\ got' = [got EXCEPT ![c] = Append(@, "err")]
    BY <1>4 DEF PosnFails, GiveUp, Exit, Continue
  <2>2. i \in DOMAIN client
    BY <2>1 DEF IInv, RequestInv
  <2>3. client[i] \in EntryType
    BY <2>2, EntryTyped
  <2>4. client[i].sysftell \in Nat
    BY <2>1, <2>3 DEF EntryType
  <2>5. Found \in Nat \cup {-1}
    BY <2>4, FoundTyped DEF Found
  <2>6. v \in EntryType
    BY <2>3, <2>5 DEF EntryType
  <2>7. client' \in Seq(EntryType)
    <3>1. client' = [client EXCEPT ![i] = v]
      BY <2>1, <2>2, <2>3 DEF EntryType
    <3> QED BY <2>2, <2>6, <3>1, EntryTyped
  <2>8. conn' \in [Clients -> ConnType]
    <3>1. c \in Clients => w \in ConnType
      BY <1>1 DEF ConnType
    <3>2. conn' = [conn EXCEPT ![c] = w]
      BY <2>1
    <3> HIDE DEF w, c
    <3> QED BY <1>1, <3>1, <3>2, Updated
  <2>9. got' \in [Clients -> Seq(Lines \cup {"err"})]
    <3>1. c \in Clients => g \in Seq(Lines \cup {"err"})
      BY <1>1, AppendProperties
    <3>2. got' = [got EXCEPT ![c] = g]
      BY <2>1
    <3> HIDE DEF g, c
    <3> QED BY <1>1, <3>1, <3>2, Updated
  <2>10. dpc' \in Labels \ {"lock", "tell", "request"} /\ i' \in Nat \ {0}
    BY <1>1, <2>1 DEF Labels
  <2> HIDE DEF v, w, g, c
  <2> QED BY <1>1, <1>2, <2>1, <2>7, <2>8, <2>9, <2>10, DaemonStep
<1> QED BY <1>3, <1>4

(* The fork.                                                               *)
LEMMA ForkOK == IInv /\ Fork => IInv'
<1> SUFFICES ASSUME IInv, Fork PROVE IInv'
  OBVIOUS
<1>1. /\ i \in Nat \ {0} /\ caller \in {"scan", "cd"}
      /\ client \in Seq(EntryType) /\ lock \in [Lines -> Nat] /\ child \in Seq(ChildType)
      /\ conn \in [Clients -> ConnType] /\ got \in [Clients -> Seq(Lines \cup {"err"})]
  BY DEF IInv, TypeOK
<1>2. UNCHANGED <<i, caller, resume, rset, chld_flag, lock, sigchld, conn, asked, got>>
  BY DEF Fork, Exit
<1>3. CASE dpc' = "exit" /\ UNCHANGED <<client, child>>
  BY <1>1, <1>2, <1>3, DaemonStep DEF Labels
<1>4. CASE ~(dpc' = "exit" /\ UNCHANGED <<client, child>>)
  <2> DEFINE p == Len(child) + 1
             new == [st |-> "waiting", fd |-> client[i].fd, line |-> Line(Found), stat |-> 0]
             v == [client[i] EXCEPT !.sysftell = Found, !.pid = p]
  <2>1. /\ dpc = "request" /\ client[i].sysftell # -1 /\ Callable(Found)
        /\ dpc' = "lock" /\ child' = Append(child, new)
        /\ client' = [client EXCEPT ![i].sysftell = Found, ![i].pid = p]
    BY <1>4 DEF Fork, Exit
  <2>2. i \in DOMAIN client
    BY <2>1 DEF IInv, RequestInv
  <2>3. client[i] \in EntryType
    BY <2>2, EntryTyped
  <2>4. client[i].sysftell \in Nat /\ client[i].fd \in Clients \cup {NoFd}
    BY <2>1, <2>3 DEF EntryType
  <2>5. Found \in Nat \cup {-1} /\ Line(Found) \in Lines
    BY <2>1, <2>4, FoundTyped DEF Found
  <2>6. p \in Nat /\ p \notin DOMAIN child
    BY <1>1, LenProperties
  <2>7. new \in ChildType
    BY <2>4, <2>5 DEF ChildType
  <2>8. /\ child' \in Seq(ChildType)
        /\ p \in DOMAIN child' /\ child'[p] = new
        /\ \A q \in DOMAIN child : q \in DOMAIN child' /\ child'[q] = child[q]
    <3> HIDE DEF new
    <3>1. /\ Append(child, new) \in Seq(ChildType)
          /\ Len(Append(child, new)) = Len(child) + 1
          /\ \A q \in 1 .. Len(child) : Append(child, new)[q] = child[q]
          /\ Append(child, new)[Len(child) + 1] = new
      BY <1>1, <2>7, AppendProperties
    <3>2. /\ DOMAIN child = 1 .. Len(child) /\ Len(child) \in Nat
          /\ DOMAIN child' = 1 .. Len(child) + 1
      BY <1>1, <2>1, <3>1, LenProperties
    <3> QED BY <2>1, <3>1, <3>2
  <2>9. v \in EntryType
    <3> HIDE DEF p
    <3> QED BY <2>3, <2>5, <2>6 DEF EntryType
  <2>10. client' = [client EXCEPT ![i] = v]
    <3> HIDE DEF p
    <3> QED BY <2>1, <2>2, <2>3 DEF EntryType
  <2>11. client' \in Seq(EntryType) /\ DOMAIN client' = DOMAIN client /\ client'[i].pid = p
    <3>1. v.pid = p
      <4> HIDE DEF p
      <4> QED BY <2>3 DEF EntryType
    <3> HIDE DEF v
    <3> QED BY <2>2, <2>9, <2>10, <3>1, EntryTyped
  <2>12. child'[p].st = "waiting"
    BY <2>8
  <2> HIDE DEF p, new, v
  <2>13. TypeOK'
    BY <1>2, <2>1, <2>8, <2>11 DEF IInv, TypeOK, Labels
  <2>14. RequestInv'
    BY <1>2, <2>1, <2>2, <2>8, <2>11, <2>12 DEF RequestInv
  <2>15. Pending'
    BY <1>2, <2>8 DEF IInv, Pending, Zombies
  <2> QED BY <2>13, <2>14, <2>15 DEF IInv
<1> QED BY <1>3, <1>4

(* lock_set.                                                               *)
LEMMA LockSetOK == IInv /\ LockSet => IInv'
<1> SUFFICES ASSUME IInv, LockSet PROVE IInv'
  OBVIOUS
<1> DEFINE p == client[i].pid
<1>1. /\ dpc = "lock" /\ dpc' = "tell"
      /\ lock' = [lock EXCEPT ![child[p].line] = p]
      /\ UNCHANGED <<i, caller, resume, rset, chld_flag, client, sigchld, child, conn, asked, got>>
  BY DEF LockSet
<1>2. i \in DOMAIN client /\ p \in DOMAIN child /\ child[p].st = "waiting"
  BY <1>1 DEF IInv, RequestInv
<1>3. p \in Nat
  <2>1. client[i] \in EntryType
    BY <1>2, EntryTyped
  <2> QED BY <2>1 DEF EntryType
<1>4. child[p].line \in Lines
  <2>1. child[p] \in ChildType
    BY <1>2, ElementOfSeq DEF IInv, TypeOK
  <2> QED BY <2>1 DEF ChildType
<1>5. lock' \in [Lines -> Nat] /\ lock'[child[p].line] = p
  <2> HIDE DEF p
  <2> QED BY <1>1, <1>3, <1>4 DEF IInv, TypeOK
<1>6. TypeOK'
  BY <1>1, <1>5 DEF IInv, TypeOK, Labels
<1>7. RequestInv'
  BY <1>1, <1>2, <1>5 DEF RequestInv
<1>8. Pending'
  BY <1>1 DEF IInv, Pending, Zombies
<1> QED BY <1>6, <1>7, <1>8 DEF IInv

(* What a step of one child has to keep.                                   *)
LEMMA ChildStep ==
  ASSUME IInv, NEW p \in DOMAIN child, NEW v \in ChildType,
         child' = [child EXCEPT ![p] = v],
         UNCHANGED <<chld_flag, conn, asked, resume, rset, caller, client, lock>>,
         dpc' \in Labels, i' \in Nat \ {0},
         sigchld' \in BOOLEAN,
         got' \in [Clients -> Seq(Lines \cup {"err"})],
         \/ /\ dpc' = dpc /\ i' = i /\ child[p].st # "waiting"
         \/ dpc' \notin {"request", "lock", "tell"},
         \/ sigchld' = sigchld /\ child[p].st # "zombie"
         \/ v.st = "zombie"
  PROVE  IInv'
<1>0. child \in Seq(ChildType)
  BY DEF IInv, TypeOK
<1>1. /\ child' \in Seq(ChildType) /\ DOMAIN child' = DOMAIN child
      /\ child'[p] = v
      /\ \A q \in DOMAIN child : q # p => child'[q] = child[q]
  <2>1. child' \in Seq(ChildType) /\ DOMAIN child' = DOMAIN child
    BY <1>0, Replaced
  <2> QED BY <1>0, <2>1
<1>2. TypeOK'
  BY <1>1 DEF IInv, TypeOK
<1>3. RequestInv'
  BY <1>1 DEF IInv, RequestInv
<1>4. Pending'
  BY <1>1 DEF IInv, Pending, Zombies
<1> QED BY <1>2, <1>3, <1>4 DEF IInv

(* TELL_CHILD.                                                             *)
LEMMA TellChildOK == IInv /\ TellChild => IInv'
<1> SUFFICES ASSUME IInv, TellChild PROVE IInv'
  OBVIOUS
<1> DEFINE p == client[i].pid
           v == [child[p] EXCEPT !.st = "dialing"]
<1>1. /\ dpc = "tell" /\ dpc' = caller /\ i' = i + 1 /\ child' = [child EXCEPT ![p] = v]
      /\ UNCHANGED <<chld_flag, conn, asked, resume, rset, caller, client, lock, sigchld, got>>
  BY DEF TellChild, Continue
<1>2. p \in DOMAIN child /\ child[p].st = "waiting"
  BY <1>1 DEF IInv, RequestInv
<1>3. v \in ChildType
  <2>1. child[p] \in ChildType
    BY <1>2, ElementOfSeq DEF IInv, TypeOK
  <2> HIDE DEF p
  <2> QED BY <2>1 DEF ChildType
<1>4. dpc' \in Labels \ {"request", "lock", "tell"} /\ i' \in Nat \ {0}
  BY <1>1 DEF IInv, TypeOK, Labels
<1>5. sigchld' \in BOOLEAN /\ got' \in [Clients -> Seq(Lines \cup {"err"})]
  BY <1>1 DEF IInv, TypeOK
<1>6. child[p].st # "zombie"
  BY <1>2
<1> HIDE DEF p, v
<1> QED BY <1>1, <1>2, <1>3, <1>4, <1>5, <1>6, ChildStep

(* The children dial, pass the line on and end.                            *)
LEMMA ChildOK ==
  ASSUME IInv, NEW p \in DOMAIN child, Child(p)
  PROVE  IInv'
<1>0. child[p] \in ChildType
  BY ElementOfSeq DEF IInv, TypeOK
<1>1. \A s \in {"sent", "zombie"} : \A x \in 0 .. 2 :
        [child[p] EXCEPT !.st = s, !.stat = x] \in ChildType
  BY <1>0 DEF ChildType
<1>2. /\ UNCHANGED <<dpc, i, caller, resume, rset, chld_flag, client, lock, conn, asked>>
      /\ child[p].st \in {"dialing", "sent"}
  BY DEF Child, SendFd, ExitOk, DialFails, DialPipe, Dies, daemon
<1>3. dpc' \in Labels /\ i' \in Nat \ {0} /\ got \in [Clients -> Seq(Lines \cup {"err"})]
  BY <1>2 DEF IInv, TypeOK
<1>4. CASE SendFd(p)
  <2> DEFINE v == [child[p] EXCEPT !.st = "sent"]
             c == child[p].fd
             g == Append(got[c], child[p].line)
  <2>1. /\ child' = [child EXCEPT ![p] = v] /\ sigchld' = sigchld
        /\ got' = [got EXCEPT ![c] = g]
    BY <1>4 DEF SendFd
  <2>2. v \in ChildType
    BY <1>0 DEF ChildType
  <2>3. child[p].line \in Lines
    BY <1>0 DEF ChildType
  <2>4. c \in Clients => g \in Seq(Lines \cup {"err"})
    BY <1>3, <2>3, AppendProperties
  <2>5. got' \in [Clients -> Seq(Lines \cup {"err"})]
    <3> HIDE DEF c, g
    <3> QED BY <1>3, <2>1, <2>4, Updated
  <2>6. sigchld' \in BOOLEAN
    BY <2>1 DEF IInv, TypeOK
  <2>7. child[p].st # "waiting" /\ child[p].st # "zombie"
    BY <1>2
  <2> HIDE DEF v, c, g
  <2> QED BY <1>2, <1>3, <2>1, <2>2, <2>5, <2>6, <2>7, ChildStep
<1>5. ASSUME NEW x \in 0 .. 2, Dies(p, x), UNCHANGED got PROVE IInv'
  <2> DEFINE v == [child[p] EXCEPT !.st = "zombie", !.stat = x]
  <2>1. v \in ChildType /\ v.st = "zombie"
    BY <1>0 DEF ChildType
  <2>2. child' = [child EXCEPT ![p] = v]
    BY <1>0, <1>5 DEF Dies, ChildType
  <2>3. sigchld' \in BOOLEAN
    BY <1>5 DEF Dies
  <2>4. child[p].st # "waiting"
    BY <1>2
  <2>5. got' \in [Clients -> Seq(Lines \cup {"err"})]
    BY <1>3, <1>5
  <2> HIDE DEF v
  <2> QED BY <1>2, <1>3, <2>1, <2>2, <2>3, <2>4, <2>5, ChildStep
<1>6. CASE ExitOk(p)
  BY <1>5, <1>6 DEF ExitOk
<1>7. CASE DialFails(p)
  BY <1>5, <1>7 DEF DialFails
<1>8. CASE DialPipe(p)
  BY <1>5, <1>8 DEF DialPipe
<1> QED BY <1>4, <1>6, <1>7, <1>8 DEF Child

(* The handler.  The child that it reaps is not the one that waits, and it *)
(* leaves pid alone in the entry that it marks.                            *)
LEMMA sig_chldOK ==
  ASSUME IInv, NEW p \in DOMAIN child, sig_chld(p)
  PROVE  IInv'
<1> DEFINE v == [child[p] EXCEPT !.st = "reaped"]
           hits == {e \in DOMAIN client : client[e].pid = p}
           k == Min(hits)
           w == [client[k] EXCEPT !.childdone = child[p].stat]
<1>0. /\ client \in Seq(EntryType) /\ child \in Seq(ChildType)
      /\ DOMAIN client \subseteq Nat
  BY LenProperties DEF IInv, TypeOK
<1>1. child[p] \in ChildType
  BY <1>0, ElementOfSeq
<1>2. v \in ChildType /\ child[p].stat \in 0 .. 2
  BY <1>1 DEF ChildType
<1>3. /\ child' = [child EXCEPT ![p] = v] /\ child[p].st = "zombie"
      /\ sigchld' = FALSE /\ chld_flag' = TRUE /\ UNCHANGED <<lock, conn, asked, got>>
  BY DEF sig_chld, Zombies
<1>4. /\ child' \in Seq(ChildType) /\ DOMAIN child' = DOMAIN child
      /\ \A q \in DOMAIN child : q # p => child'[q] = child[q]
  <2> HIDE DEF v
  <2>1. child' \in Seq(ChildType) /\ DOMAIN child' = DOMAIN child
    BY <1>0, <1>2, <1>3, Replaced
  <2> QED BY <1>0, <1>3, <2>1
<1>5. /\ UNCHANGED <<i, caller, rset>> /\ resume' \in {"presel", "top"}
      /\ dpc' = dpc \/ dpc' \in {"exit", "no_accept", "child_done"}
  BY DEF sig_chld, client_sigchld, Interrupted, Exit, AcceptFails, daemon, IInv, TypeOK
<1>6. \/ client' = client
      \/ hits # {} /\ client' = [client EXCEPT ![k] = w]
  BY DEF sig_chld, client_sigchld
<1>7. /\ client' \in Seq(EntryType) /\ DOMAIN client' = DOMAIN client
      /\ \A e \in DOMAIN client : client'[e].pid = client[e].pid
  <2>1. CASE client' = client
    BY <1>0, <2>1
  <2>2. CASE hits # {} /\ client' = [client EXCEPT ![k] = w]
    <3>1. k \in DOMAIN client
      <4>1. hits \subseteq Nat /\ hits \subseteq DOMAIN client
        BY <1>0
      <4> HIDE DEF hits
      <4> QED BY <2>2, <4>1, MinIn
    <3> HIDE DEF k
    <3>2. client[k] \in EntryType
      BY <1>0, <3>1, ElementOfSeq
    <3>3. w \in EntryType /\ w.pid = client[k].pid
      BY <1>2, <3>2 DEF EntryType
    <3> HIDE DEF w
    <3>4. client' \in Seq(EntryType) /\ DOMAIN client' = DOMAIN client
      BY <1>0, <2>2, <3>3, Replaced
    <3> QED BY <1>0, <2>2, <3>1, <3>3, <3>4
  <2> QED BY <1>6, <2>1, <2>2
<1> HIDE DEF v, hits, k, w
<1>8. chld_flag' \in BOOLEAN /\ sigchld' \in BOOLEAN
  BY <1>3
<1>9. TypeOK'
  BY <1>3, <1>4, <1>5, <1>7, <1>8 DEF IInv, TypeOK, Labels
<1>10. RequestInv'
  <2>1. CASE dpc' = dpc
    <3>1. \A q \in DOMAIN child : child[q].st = "waiting" => child'[q] = child[q]
      BY <1>3, <1>4
    <3> QED BY <1>3, <1>4, <1>5, <1>7, <2>1, <3>1 DEF IInv, RequestInv
  <2>2. CASE dpc' \in {"exit", "no_accept", "child_done"}
    BY <2>2 DEF RequestInv
  <2> QED BY <1>5, <2>1, <2>2
<1>11. Pending'
  BY <1>3 DEF Pending
<1> QED BY <1>9, <1>10, <1>11 DEF IInv

LEMMA NextOK == IInv /\ [Next]_vars => IInv'
<1> SUFFICES ASSUME IInv, [Next]_vars PROVE IInv'
  OBVIOUS
<1>1. CASE \E c \in Clients : Caller(c)
  BY <1>1, CallerOK
<1>2. CASE Daemon
  BY <1>2, WalkOK, AcceptOK, ScanRequestOK, ScanEofOK, ChildDoneOK, GiveUpOK, ForkOK,
     LockSetOK, TellChildOK DEF Daemon
<1>3. CASE \E p \in DOMAIN child : Child(p) \/ sig_chld(p)
  BY <1>3, ChildOK, sig_chldOK
<1>4. CASE UNCHANGED vars
  BY <1>4 DEF vars, daemon, IInv, TypeOK, RequestInv, Pending, Zombies
<1> QED BY <1>1, <1>2, <1>3, <1>4 DEF Next

-----------------------------------------------------------------------------
(* TypeOK, RequestInv and Pending hold in every reachable state.           *)
THEOREM Invariant == Spec => []IInv
<1> QED BY InitOK, NextOK, PTL DEF Spec

(* Whenever SIGCHLD is pending a child waits to be reaped, so that the     *)
(* waitpid in sig_chld (sigchld.c) returns at once and does not block the  *)
(* daemon, whatever the clients and the children do.                       *)
THEOREM HandlerNeverBlocks == Spec => []HandlerReturns
<1>1. IInv => HandlerReturns
  BY DEF IInv, Pending, HandlerReturns
<1> QED BY <1>1, Invariant, PTL

(* The order fork, lock_set, TELL_CHILD of request.c is enough: only the   *)
(* daemon's TELL_CHILD ends a child's wait, and the line is locked in that *)
(* child's name then.                                                      *)
THEOREM DialsLocked == Spec => DialStarts
<1> DEFINE Starts == \A p \in DOMAIN child :
                       child[p].st = "waiting" /\ child'[p].st # "waiting"
                         => lock[child[p].line] = p
<1>1. IInv /\ [Next]_vars => [Starts]_child
  <2> SUFFICES ASSUME IInv, Next, child' # child, NEW p \in DOMAIN child,
                      child[p].st = "waiting", child'[p].st # "waiting"
               PROVE  lock[child[p].line] = p
    BY DEF vars
  <2>0. child \in Seq(ChildType)
    BY DEF IInv, TypeOK
  <2>1. CASE \E c \in Clients : Caller(c)
    BY <2>1 DEF Caller, Connect, Send, Close
  <2>2. CASE Fork
    <3>1. \E x : child' = Append(child, x)
      BY <2>2 DEF Fork
    <3>2. child'[p] = child[p]
      BY <2>0, <3>1
    <3> QED BY <3>2
  <2>3. CASE TellChild
    <3>1. p = client[i].pid
      BY <2>0, <2>3 DEF TellChild
    <3> QED BY <2>3, <3>1 DEF IInv, RequestInv, TellChild
  <2>4. CASE Daemon /\ ~Fork /\ ~TellChild
    BY <2>4 DEF Daemon, Top, Enter, Listen, Accept, Select, ScanSkip, ScanRequest, ScanEof, PosnFails,
       GiveUp, LockSet, ChildDone, ChildDoneSkip, ChildDoneOk, ChildDoneRetry
  <2>5. CASE \E q \in DOMAIN child : Child(q) \/ sig_chld(q)
    <3>1. PICK q \in DOMAIN child : Child(q) \/ sig_chld(q)
      BY <2>5
    <3>2. child[q].st # "waiting" /\ \E x : child' = [child EXCEPT ![q] = x]
      <4>1. CASE SendFd(q)
        BY <4>1 DEF SendFd
      <4>2. CASE \E x : Dies(q, x) /\ child[q].st \in {"dialing", "sent"}
        BY <2>0, <4>2 DEF Dies
      <4>3. CASE sig_chld(q)
        BY <4>3 DEF sig_chld, Zombies
      <4> QED BY <3>1, <4>1, <4>2, <4>3 DEF Child, ExitOk, DialFails, DialPipe
    <3>3. child'[p] = child[p]
      BY <2>0, <3>2
    <3> QED BY <3>3
  <2> QED BY <2>1, <2>2, <2>3, <2>4, <2>5 DEF Next
<1> QED BY <1>1, Invariant, PTL DEF Spec, DialStarts

-----------------------------------------------------------------------------
Entries  == DOMAIN client
Children == DOMAIN child

(* The daemon has not read a request from c.                               *)
Fresh(c) == asked[c] = NoReq \/ conn[c].unread

(* Entry e is connected to c and records child p, which dials for c.       *)
Records(e, c, p) == client[e].fd = c /\ client[e].pid = p /\ child[p].fd = c

(* Entries name open connections, each one connection of its own.          *)
OneEntry ==
  /\ \A e \in Entries : client[e].fd # NoFd => conn[client[e].fd].st = "open"
  /\ \A e, f \in Entries : client[e].fd # NoFd /\ client[e].fd = client[f].fd => e = f

(* Entries record children, each its own.                                  *)
OwnPid ==
  /\ \A e \in Entries : client[e].pid # 0 => client[e].pid \in Children
  /\ \A e, f \in Entries : client[e].pid # 0 /\ client[e].pid = client[f].pid => e = f

(* Nothing has been done for a client whose request was not read.          *)
FreshInv ==
  /\ \A c \in Clients : conn[c].st \in {"out", "queued"} => Fresh(c)
  /\ \A c \in Clients : conn[c].unread => asked[c] # NoReq
  /\ \A c \in Clients : Fresh(c) => got[c] = << >>
  /\ \A p \in Children : child[p].fd \in Clients /\ ~Fresh(child[p].fd)

(* An entry holds the request of its client once it has been read, and a   *)
(* position in the Systems file.                                           *)
ReadInv ==
  \A e \in Entries : client[e].fd # NoFd /\ ~Fresh(client[e].fd) =>
    client[e].req = asked[client[e].fd] /\ client[e].sysftell \in Nat

(* A child that has not been reaped is recorded in its client's entry.     *)
Recorded ==
  \A p \in Children : child[p].st # "reaped" =>
    \E e \in Entries : Records(e, child[p].fd, p)

(* A line is locked in the name of a recorded child that was forked for it.*)
LockedFor ==
  \A l \in Lines : lock[l] # 0 =>
    /\ lock[l] \in Children /\ child[lock[l]].line = l
    /\ \E e \in Entries : Records(e, child[lock[l]].fd, lock[l])

(* A child that dials has its line locked.                                 *)
DialLocked ==
  \A p \in Children : child[p].st \in {"dialing", "sent"} => lock[child[p].line] = p

(* A client that has closed was answered, and its call is settled.         *)
ClosedSettled ==
  \A c \in Clients : conn[c].closed => got[c] # << >> /\ Settled(c)

(* childdone tells of the end of the recorded child.                       *)
DoneInv ==
  \A e \in Entries : client[e].childdone # 0 =>
    /\ client[e].fd # NoFd /\ client[e].pid \in Children
    /\ Records(e, client[e].fd, client[e].pid)
    /\ child[client[e].pid].st = "reaped"
    /\ client[e].childdone = 2 => got[client[e].fd] = << >>

(* A child ends with 1 when the line has been passed on, else with 2, and  *)
(* then its client waits for another attempt.                              *)
Unanswered ==
  \A p \in Children :
    /\ child[p].st \in {"waiting", "dialing"} => got[child[p].fd] = << >>
    /\ child[p].st = "zombie" => /\ child[p].stat \in {1, 2}
                                 /\ child[p].stat = 2 => got[child[p].fd] = << >>

(* A child dials a line that the files name for its client's request.      *)
LineRight ==
  \A p \in Children : \E n \in DOMAIN Systems :
    /\ Match(asked[child[p].fd], Systems[n])
    /\ dev_find(Systems[n]) # 0 /\ Line(n) = child[p].line

(* The line that a client has got stays locked for it until it hangs up.   *)
Session ==
  \A c \in Clients : got[c] # << >> /\ ~conn[c].closed =>
    \/ got[c] = <<"err">>
    \/ \E e \in Entries : /\ client[e].pid \in Children /\ Records(e, c, client[e].pid)
                          /\ child[client[e].pid].line = got[c][1]
                          /\ lock[got[c][1]] = client[e].pid

(* request() works for a connected client that waits, with no attempt      *)
(* under way before fork, and with its own one after it.                   *)
Requesting ==
  dpc \in {"request", "lock", "tell"} =>
    /\ client[i].fd # NoFd /\ ~Fresh(client[i].fd) /\ got[client[i].fd] = << >>
    /\ dpc = "request" =>
         /\ client[i].childdone = 0
         /\ \A p \in Children : child[p].fd = client[i].fd => child[p].st = "reaped"
         /\ \A l \in Lines : lock[l] # 0 => lock[l] # client[i].pid
    /\ dpc \in {"lock", "tell"} => child[client[i].pid].fd = client[i].fd
    /\ dpc = "lock" => lock[child[client[i].pid].line] = 0

LInv == /\ OneEntry /\ OwnPid /\ FreshInv /\ ReadInv /\ Recorded /\ LockedFor /\ DialLocked
        /\ ClosedSettled /\ DoneInv /\ Unanswered /\ LineRight /\ AnswersMatch /\ Session
        /\ Requesting

-----------------------------------------------------------------------------
(* What the types say of entries and children.                             *)
LEMMA Types ==
  ASSUME IInv
  PROVE  /\ Len(client) \in Nat /\ Entries = 1 .. Len(client)
         /\ Len(child) \in Nat /\ Children = 1 .. Len(child) /\ 0 \notin Children
         /\ \A e \in Entries : /\ client[e].fd \in Clients \cup {NoFd} /\ client[e].pid \in Nat
                               /\ client[e].childdone \in 0 .. 2
                               /\ client[e].sysftell \in Nat \cup {-1}
         /\ \A p \in Children : /\ child[p].fd \in Clients \cup {NoFd} /\ child[p].line \in Lines
                                /\ child[p].stat \in 0 .. 2
<1>1. client \in Seq(EntryType) /\ child \in Seq(ChildType)
  BY DEF IInv, TypeOK
<1>2. /\ Len(client) \in Nat /\ Entries = 1 .. Len(client)
      /\ Len(child) \in Nat /\ Children = 1 .. Len(child)
  BY <1>1, LenProperties DEF Entries, Children
<1>3. \A e \in Entries : client[e] \in EntryType
  BY <1>1, <1>2, ElementOfSeq
<1>4. \A p \in Children : child[p] \in ChildType
  BY <1>1, <1>2, ElementOfSeq
<1> QED BY <1>2, <1>3, <1>4 DEF EntryType, ChildType

(* The step of a client that connects.                                     *)
LEMMA ConnectLines ==
  ASSUME IInv, LInv, NEW c \in Clients, Connect(c)
  PROVE  LInv'
<1>1. UNCHANGED <<dpc, i, client, lock, child, asked, got>>
  BY DEF Connect, daemon
<1>2. /\ conn[c].st = "out"
      /\ \A d \in Clients : /\ d # c => conn'[d] = conn[d]
                            /\ conn'[d].unread = conn[d].unread
                            /\ conn'[d].closed = conn[d].closed
      /\ conn'[c].st = "queued"
  BY DEF Connect, IInv, TypeOK, ConnType
<1>3. \A e \in Entries : client[e].fd \in Clients \cup {NoFd}
  BY Types
<1> USE <1>1, <1>2, <1>3 DEF LInv, Entries, Children, Records
<1>4. OneEntry' /\ OwnPid'
  BY DEF OneEntry, OwnPid
<1>5. FreshInv' /\ ReadInv'
  BY DEF FreshInv, ReadInv, Fresh
<1>6. Recorded' /\ LockedFor' /\ DialLocked'
  BY DEF Recorded, LockedFor, DialLocked
<1>7. ClosedSettled' /\ DoneInv'
  BY DEF ClosedSettled, DoneInv, Settled
<1>8. Unanswered' /\ LineRight' /\ AnswersMatch'
  BY DEF Unanswered, LineRight, AnswersMatch
<1>9. Session'
  BY DEF Session
<1>10. Requesting'
  BY DEF Requesting, Fresh, IInv, RequestInv
<1> QED BY <1>4, <1>5, <1>6, <1>7, <1>8, <1>9, <1>10

(* The step of a client that sends its request.                            *)
LEMMA SendLines ==
  ASSUME IInv, LInv, NEW c \in Clients, NEW r \in Requests, Send(c, r)
  PROVE  LInv'
<1>1. UNCHANGED <<dpc, i, client, lock, child, got>>
  BY DEF Send, daemon
<1>2. /\ asked[c] = NoReq /\ asked'[c] # NoReq
      /\ \A d \in Clients : /\ d # c => conn'[d] = conn[d] /\ asked'[d] = asked[d]
                            /\ conn'[d].st = conn[d].st
                            /\ conn'[d].closed = conn[d].closed
      /\ conn'[c].unread
  BY CalldAssumption DEF Send, IInv, TypeOK, ConnType
<1>3. \A e \in Entries : client[e].fd \in Clients \cup {NoFd}
  BY Types
<1>4. /\ got[c] = << >>
      /\ \A p \in Children : child[p].fd \in Clients /\ child[p].fd # c
  BY <1>2 DEF LInv, FreshInv, Fresh
<1> USE <1>1, <1>2, <1>3, <1>4 DEF LInv, Entries, Children, Records
<1>5. OneEntry' /\ OwnPid'
  BY DEF OneEntry, OwnPid
<1>6. FreshInv' /\ ReadInv'
  BY DEF FreshInv, ReadInv, Fresh
<1>7. Recorded' /\ LockedFor' /\ DialLocked'
  BY DEF Recorded, LockedFor, DialLocked
<1>8. ClosedSettled' /\ DoneInv'
  BY DEF ClosedSettled, DoneInv, Settled
<1>9. Unanswered' /\ LineRight' /\ AnswersMatch'
  BY DEF Unanswered, LineRight, AnswersMatch
<1>10. Session'
  BY DEF Session
<1>11. Requesting'
  BY DEF Requesting, Fresh, IInv, RequestInv
<1> QED BY <1>5, <1>6, <1>7, <1>8, <1>9, <1>10, <1>11

(* The step of a client that hangs up.                                     *)
LEMMA CloseLines ==
  ASSUME Hangup = "settled", IInv, LInv, NEW c \in Clients, Close(c)
  PROVE  LInv'
<1>1. UNCHANGED <<dpc, i, client, lock, child, asked, got>>
  BY DEF Close, daemon
<1>2. /\ got[c] # << >> /\ Settled(c)
      /\ \A d \in Clients : /\ d # c => conn'[d] = conn[d]
                            /\ conn'[d].st = conn[d].st
                            /\ conn'[d].unread = conn[d].unread
  BY DEF Close, IInv, TypeOK, ConnType
<1>3. \A e \in Entries : client[e].fd \in Clients \cup {NoFd}
  BY Types
<1> USE <1>1, <1>2, <1>3 DEF LInv, Entries, Children, Records
<1>4. OneEntry' /\ OwnPid'
  BY DEF OneEntry, OwnPid
<1>5. FreshInv' /\ ReadInv'
  BY DEF FreshInv, ReadInv, Fresh
<1>6. Recorded' /\ LockedFor' /\ DialLocked'
  BY DEF Recorded, LockedFor, DialLocked
<1>7. ClosedSettled' /\ DoneInv'
  BY DEF ClosedSettled, DoneInv, Settled
<1>8. Unanswered' /\ LineRight' /\ AnswersMatch'
  BY DEF Unanswered, LineRight, AnswersMatch
<1>9. Session'
  <2>1. \A d \in Clients : ~conn'[d].closed => d # c \/ ~conn[d].closed
    BY DEF Close, IInv, TypeOK, ConnType
  <2>2. conn'[c].closed
    BY DEF Close, IInv, TypeOK, ConnType
  <2> QED BY <2>1, <2>2 DEF Session
<1>10. Requesting'
  BY DEF Requesting, Fresh, IInv, RequestInv
<1> QED BY <1>4, <1>5, <1>6, <1>7, <1>8, <1>9, <1>10

(* A step outside request() that only moves the daemon.                    *)
LEMMA MoveLines ==
  ASSUME IInv, LInv, UNCHANGED <<client, lock, child, conn, asked, got>>,
         dpc' \notin {"request", "lock", "tell"}
  PROVE  LInv'
<1> USE DEF LInv, Entries, Children, Records, Fresh
<1>1. OneEntry' /\ OwnPid' /\ FreshInv' /\ ReadInv'
  BY DEF OneEntry, OwnPid, FreshInv, ReadInv
<1>2. Recorded' /\ LockedFor' /\ DialLocked' /\ Unanswered' /\ LineRight'
  BY DEF Recorded, LockedFor, DialLocked, Unanswered, LineRight
<1>3. ClosedSettled' /\ DoneInv' /\ AnswersMatch' /\ Session' /\ Requesting'
  BY DEF ClosedSettled, DoneInv, Settled, AnswersMatch, Session, Requesting
<1> QED BY <1>1, <1>2, <1>3

(* The steps of the loops that find nothing to do.                         *)
LEMMA WalkLines ==
  ASSUME IInv, LInv, Top \/ Enter \/ Listen \/ Select \/ ScanSkip \/ ChildDone \/ ChildDoneSkip
  PROVE  LInv'
<1>1. UNCHANGED <<client, lock, child, conn, asked, got>>
  BY DEF Top, Enter, Listen, Select, ScanSkip, ChildDone, ChildDoneSkip
<1>2. dpc' \notin {"request", "lock", "tell"}
  BY DEF IInv, TypeOK, Top, Enter, Listen, Select, ScanSkip, ChildDone, ChildDoneSkip, Continue
<1> QED BY <1>1, <1>2, MoveLines

(* client_add gives the client an entry that was free or is new, and       *)
(* leaves the other fields of the entry as they are.                       *)
LEMMA client_addShape ==
  ASSUME IInv, NEW c \in Clients, client_add(c)
  PROVE  \E k \in Entries' :
           /\ Entries \subseteq Entries' /\ client'[k].fd = c
           /\ k \in Entries =>
                /\ client[k].fd = NoFd
                /\ client'[k].pid = client[k].pid /\ client'[k].childdone = client[k].childdone
           /\ \A e \in Entries : e # k => client'[e] = client[e]
           /\ \A e \in Entries' \ Entries :
                /\ client'[e].pid = 0 /\ client'[e].childdone = 0
                /\ e # k => client'[e].fd = NoFd
<1> DEFINE new == [n \in 1 .. NALLOC |-> NewEntry]
           free == {e \in DOMAIN client : client[e].fd = NoFd}
           cs == IF free # {} THEN client ELSE client \o new
           k == IF free # {} THEN Min(free) ELSE Len(client) + 1
<1>1. NewEntry \in EntryType
  BY DEF NewEntry, EntryType
<1>2. /\ new \in Seq(EntryType) /\ client \in Seq(EntryType) /\ Len(new) = NALLOC
      /\ \A n \in 1 .. NALLOC : new[n] = NewEntry
  BY <1>1, CalldAssumption, IsASeq DEF IInv, TypeOK
<1>3. Len(client) \in Nat /\ Entries = 1 .. Len(client)
  BY Types
<1>4. client' = [cs EXCEPT ![k].fd = c]
  BY DEF client_add
<1>5. CASE free # {}
  <2>1. free \subseteq Nat
    BY <1>3 DEF Entries
  <2>2. k \in free
    <3> HIDE DEF free
    <3> QED BY <1>5, <2>1, MinIn
  <2>3. k \in Entries /\ client[k].fd = NoFd
    BY <2>2 DEF Entries
  <2>4. client' = [client EXCEPT ![k].fd = c]
    BY <1>4, <1>5
  <2>5. client[k] \in EntryType
    BY <1>2, <1>3, <2>3, ElementOfSeq
  <2> HIDE DEF k, free, cs
  <2>6. Entries' = Entries /\ client'[k] = [client[k] EXCEPT !.fd = c]
    BY <1>2, <2>3, <2>4 DEF Entries
  <2>7. /\ client'[k].fd = c /\ client'[k].pid = client[k].pid
        /\ client'[k].childdone = client[k].childdone
    BY <2>5, <2>6 DEF EntryType
  <2>8. \A e \in Entries : e # k => client'[e] = client[e]
    BY <1>2, <2>3, <2>4 DEF Entries
  <2> QED BY <2>3, <2>6, <2>7, <2>8
<1>6. CASE free = {}
  <2>1. cs = client \o new /\ k = Len(client) + 1
    BY <1>6
  <2> HIDE DEF k, free, cs, new
  <2>2. /\ cs \in Seq(EntryType) /\ Len(cs) = Len(client) + NALLOC
        /\ \A n \in 1 .. Len(client) + NALLOC :
             cs[n] = IF n <= Len(client) THEN client[n] ELSE NewEntry
    <3>1. /\ cs \in Seq(EntryType) /\ Len(cs) = Len(client) + NALLOC
          /\ \A n \in 1 .. Len(client) + NALLOC :
               cs[n] = IF n <= Len(client) THEN client[n] ELSE new[n - Len(client)]
      BY <1>2, <2>1, ConcatProperties
    <3>2. \A n \in 1 .. Len(client) + NALLOC :
            ~(n <= Len(client)) => n - Len(client) \in 1 .. NALLOC
      BY <1>3, CalldAssumption
    <3> QED BY <1>2, <3>1, <3>2
  <2>3. k \in 1 .. Len(cs) /\ k \notin Entries /\ DOMAIN cs = 1 .. Len(cs)
    BY <1>3, <2>1, <2>2, CalldAssumption, LenProperties
  <2>4. Entries' = 1 .. Len(client) + NALLOC
    BY <1>4, <2>2, <2>3 DEF Entries
  <2>5. cs[k] = NewEntry /\ client'[k] = [NewEntry EXCEPT !.fd = c]
    <3>1. cs[k] = NewEntry
      BY <1>3, <2>1, <2>2, <2>3
    <3>2. client'[k] = [cs[k] EXCEPT !.fd = c]
      BY <1>4, <2>3
    <3> QED BY <3>1, <3>2
  <2>6. client'[k].fd = c /\ client'[k].pid = 0 /\ client'[k].childdone = 0
    BY <2>5 DEF NewEntry
  <2>7. \A e \in 1 .. Len(cs) : e # k => client'[e] = cs[e]
    BY <1>4, <2>3
  <2>8. \A e \in Entries : e # k => client'[e] = client[e]
    BY <1>3, <2>2, <2>7, CalldAssumption
  <2>9. \A e \in Entries' \ Entries : e # k => client'[e] = NewEntry
    BY <1>3, <2>2, <2>4, <2>7, CalldAssumption
  <2>10. NewEntry.pid = 0 /\ NewEntry.childdone = 0 /\ NewEntry.fd = NoFd
    BY DEF NewEntry
  <2>11. Entries \subseteq Entries' /\ k \in Entries'
    BY <1>3, <2>2, <2>3, <2>4, CalldAssumption
  <2> QED BY <2>3, <2>6, <2>8, <2>9, <2>10, <2>11
<1> QED BY <1>5, <1>6

(* A new client gets an entry.                                             *)
LEMMA AcceptLines ==
  ASSUME IInv, LInv, NEW c \in Clients, Accept(c)
  PROVE  LInv'
<1>1. CASE dpc' = "no_accept"
  <2>1. UNCHANGED <<client, lock, child, conn, asked, got>>
    BY <1>1 DEF Accept
  <2> QED BY <1>1, <2>1, MoveLines
<1>2. CASE dpc' # "no_accept"
  <2>1. /\ UNCHANGED <<lock, child, asked, got>> /\ client_add(c) /\ dpc' = "top"
        /\ conn[c].st = "queued"
        /\ conn' = [conn EXCEPT ![c].st = "open"]
    BY <1>2 DEF Accept, AcceptFails, Queued
  <2>2. /\ \A d \in Clients : /\ d # c => conn'[d] = conn[d]
                              /\ conn'[d].unread = conn[d].unread
                              /\ conn'[d].closed = conn[d].closed
        /\ conn'[c].st = "open"
    BY <2>1 DEF IInv, TypeOK, ConnType
  <2>3. PICK k \in Entries' :
           /\ Entries \subseteq Entries' /\ client'[k].fd = c
           /\ k \in Entries =>
                /\ client[k].fd = NoFd
                /\ client'[k].pid = client[k].pid /\ client'[k].childdone = client[k].childdone
           /\ \A e \in Entries : e # k => client'[e] = client[e]
           /\ \A e \in Entries' \ Entries :
                /\ client'[e].pid = 0 /\ client'[e].childdone = 0
                /\ e # k => client'[e].fd = NoFd
    BY <2>1, client_addShape
  <2>4. /\ 0 \notin Children /\ c # NoFd
        /\ \A e \in Entries : client[e].fd \in Clients \cup {NoFd}
    BY Types, CalldAssumption
  <2>5. Fresh(c) /\ got[c] = << >> /\ \A e \in Entries : client[e].fd # c
    BY <2>1, <2>4 DEF LInv, FreshInv, OneEntry
  <2>6. \A e \in Entries : client[e].fd # NoFd => e # k /\ e \in Entries' /\ client'[e] = client[e]
    BY <2>3
  <2> USE <2>1, <2>2, <2>3, <2>4, <2>5, <2>6 DEF LInv, Children, Records
  <2>7. OneEntry' /\ OwnPid'
    BY DEF OneEntry, OwnPid
  <2>8. FreshInv' /\ ReadInv'
    BY DEF FreshInv, ReadInv, Fresh
  <2>9. \A p \in Children : (\E e \in Entries : Records(e, child[p].fd, p))
                              => (\E e \in Entries : Records(e, child[p].fd, p))'
    <3> SUFFICES ASSUME NEW p \in Children, NEW e \in Entries, Records(e, child[p].fd, p)
                 PROVE  (\E f \in Entries : Records(f, child[p].fd, p))'
      OBVIOUS
    <3>1. client[e].fd # NoFd
      BY CalldAssumption DEF FreshInv
    <3>2. e \in Entries' /\ client'[e] = client[e]
      BY <3>1
    <3> QED BY <3>2
  <2>10. Recorded' /\ LockedFor' /\ DialLocked'
    <3>1. Recorded'
      BY <2>9 DEF Recorded
    <3>2. LockedFor'
      BY <2>9 DEF LockedFor
    <3> QED BY <3>1, <3>2 DEF DialLocked
  <2>14. ClosedSettled' /\ DoneInv'
    BY DEF ClosedSettled, DoneInv, Settled, Entries
  <2>11. Unanswered' /\ LineRight' /\ AnswersMatch'
    BY DEF Unanswered, LineRight, AnswersMatch
  <2>12. Session'
    <3> SUFFICES ASSUME NEW d \in Clients, got[d] # << >>, ~conn[d].closed, got[d] # <<"err">>
                 PROVE  (\E e \in Entries :
                           /\ client[e].pid \in Children /\ Records(e, d, client[e].pid)
                           /\ child[client[e].pid].line = got[d][1]
                           /\ lock[got[d][1]] = client[e].pid)'
      BY DEF Session
    <3>1. PICK e \in Entries : /\ client[e].pid \in Children /\ Records(e, d, client[e].pid)
                               /\ child[client[e].pid].line = got[d][1]
                               /\ lock[got[d][1]] = client[e].pid
      BY DEF Session
    <3>2. e \in Entries' /\ client'[e] = client[e]
      BY <3>1, CalldAssumption
    <3> QED BY <3>1, <3>2
  <2>13. Requesting'
    BY DEF Requesting
  <2> QED BY <2>7, <2>8, <2>10, <2>11, <2>12, <2>13, <2>14
<1> QED BY <1>1, <1>2

(* Replacing the entry that the daemon works on.                           *)
LEMMA EntrySet ==
  ASSUME IInv, NEW k \in Entries, NEW v, client' = [client EXCEPT ![k] = v]
  PROVE  /\ Entries' = Entries /\ client'[k] = v
         /\ \A e \in Entries : e # k => client'[e] = client[e]
BY DEF Entries, IInv, TypeOK

(* A line that is locked is locked for the client of the entry that names  *)
(* the process.                                                            *)
LEMMA LockOf ==
  ASSUME LInv, NEW l \in Lines, lock[l] # 0, NEW e \in Entries, client[e].pid = lock[l]
  PROVE  client[e].fd = child[lock[l]].fd /\ lock[l] \in Children /\ child[lock[l]].line = l
BY DEF LInv, LockedFor, OwnPid, Records

(* A child that has not been reaped dials for the client of the entry that *)
(* names it.                                                               *)
LEMMA ChildOf ==
  ASSUME LInv, NEW p \in Children, p # 0, child[p].st # "reaped", NEW e \in Entries,
         client[e].pid = p \/ (client[e].fd # NoFd /\ client[e].fd = child[p].fd)
  PROVE  Records(e, child[p].fd, p)
BY DEF LInv, Recorded, OwnPid, OneEntry, Records

(* The request of a client is read.                                        *)
LEMMA ScanRequestLines ==
  ASSUME IInv, LInv, ScanRequest
  PROVE  LInv'
<1> DEFINE c == client[i].fd
           v == [client[i] EXCEPT !.req = asked[c], !.childdone = 0, !.sysftell = 0]
<1>1. c \in Clients /\ i \in Entries /\ conn[c].unread
  BY LenProperties DEF IInv, TypeOK, ScanRequest, Scanning, Entries
<1>2. client[i] \in EntryType
  BY <1>1, EntryTyped DEF Entries
<1>3. client' = [client EXCEPT ![i] = v]
  BY <1>1, <1>2 DEF ScanRequest, EntryType
<1>4. /\ Entries' = Entries /\ client'[i] = v
      /\ \A e \in Entries : e # i => client'[e] = client[e]
  <2> HIDE DEF v
  <2> QED BY <1>1, <1>3, EntrySet
<1>5. /\ client'[i].fd = c /\ client'[i].pid = client[i].pid /\ client'[i].childdone = 0
      /\ client'[i].sysftell = 0 /\ client'[i].req = asked[c]
  BY <1>2, <1>4 DEF EntryType
<1>6. /\ \A d \in Clients : /\ d # c => conn'[d] = conn[d]
                            /\ conn'[d].st = conn[d].st /\ conn'[d].closed = conn[d].closed
      /\ ~conn'[c].unread
  BY <1>1 DEF ScanRequest, IInv, TypeOK, ConnType
<1>7. UNCHANGED <<i, lock, child, asked, got>> /\ dpc' = "request"
  BY DEF ScanRequest, CallRequest
<1>8. /\ asked[c] # NoReq /\ got[c] = << >> /\ conn[c].st = "open"
      /\ \A p \in Children : child[p].fd \in Clients \ {c}
  BY <1>1, CalldAssumption DEF LInv, FreshInv, Fresh, OneEntry
<1>9. \A l \in Lines : lock[l] # 0 => lock[l] # client[i].pid
  BY <1>1, <1>8, LockOf
<1>10. /\ c # NoFd
       /\ \A e \in Entries : client[e].fd \in Clients \cup {NoFd}
  BY <1>1, Types, CalldAssumption
<1>11. \A e \in Entries : client'[e].fd = client[e].fd /\ client'[e].pid = client[e].pid
  BY <1>4, <1>5
<1> HIDE DEF v, c
<1> USE <1>1, <1>4, <1>6, <1>7, <1>8, <1>10, <1>11 DEF LInv, Children
<1>12. OneEntry' /\ OwnPid'
  BY DEF OneEntry, OwnPid
<1>13. FreshInv' /\ ReadInv'
  <2>1. FreshInv'
    BY DEF FreshInv, Fresh
  <2>2. \A e \in Entries : e # i => client[e].fd # c
    BY DEF OneEntry, c
  <2>3. ReadInv'
    BY <1>5, <2>2 DEF ReadInv, Fresh
  <2> QED BY <2>1, <2>3
<1>14. Recorded' /\ LockedFor' /\ DialLocked'
  BY DEF Recorded, LockedFor, DialLocked, Records
<1>15. ClosedSettled' /\ DoneInv'
  BY <1>5 DEF ClosedSettled, DoneInv, Settled, Entries, Records
<1>16. Unanswered' /\ LineRight' /\ AnswersMatch'
  BY DEF Unanswered, LineRight, AnswersMatch
<1>17. Session'
  BY DEF Session, Records
<1>18. Requesting'
  BY <1>5, <1>9 DEF Requesting, Fresh, Entries
<1> QED BY <1>12, <1>13, <1>14, <1>15, <1>16, <1>17, <1>18

(* The entry of a client that has hung up is freed.                        *)
LEMMA ScanEofLines ==
  ASSUME IInv, LInv, ScanEof
  PROVE  LInv'
<1> DEFINE c == client[i].fd
           v == [client[i] EXCEPT !.fd = NoFd]
<1>1. c \in Clients /\ i \in Entries /\ conn[c].closed
  BY LenProperties DEF IInv, TypeOK, ScanEof, Scanning, Entries
<1>2. client[i] \in EntryType
  BY <1>1, EntryTyped DEF Entries
<1>3. client' = [client EXCEPT ![i] = v]
  BY DEF ScanEof
<1>4. /\ Entries' = Entries /\ client'[i] = v
      /\ \A e \in Entries : e # i => client'[e] = client[e]
  <2> HIDE DEF v
  <2> QED BY <1>1, <1>3, EntrySet
<1>5. /\ client'[i].fd = NoFd /\ client'[i].pid = client[i].pid
      /\ client'[i].childdone = client[i].childdone
  BY <1>2, <1>4 DEF EntryType
<1>6. /\ \A d \in Clients : /\ d # c => conn'[d] = conn[d]
                            /\ conn'[d].unread = conn[d].unread
                            /\ conn'[d].closed = conn[d].closed
      /\ conn'[c].st = "dropped"
  BY <1>1 DEF ScanEof, IInv, TypeOK, ConnType
<1>7. UNCHANGED <<child, asked, got>> /\ dpc' = "scan"
  BY DEF ScanEof, Continue
<1>8. \A l \in Lines : lock'[l] = IF lock[l] = client[i].pid THEN 0 ELSE lock[l]
  BY DEF ScanEof, lock_rel
<1>9. /\ got[c] # << >> /\ client[i].childdone = 0
      /\ \A p \in Children : child[p].fd = c => child[p].st = "reaped"
  BY <1>1 DEF LInv, ClosedSettled, Settled, Entries, Children
<1>10. /\ c # NoFd /\ 0 \notin Children
       /\ \A e \in Entries : client[e].fd \in Clients \cup {NoFd}
       /\ \A p \in Children : child[p].line \in Lines
  BY <1>1, Types, CalldAssumption
<1> HIDE DEF v, c
<1>11. \A p \in Children : child[p].st # "reaped" => client[i].pid # p
  <2> SUFFICES ASSUME NEW p \in Children, child[p].st # "reaped", client[i].pid = p PROVE FALSE
    OBVIOUS
  <2>1. Records(i, child[p].fd, p)
    BY <1>1, <1>10, ChildOf
  <2> QED BY <1>9, <2>1 DEF Records, c
<1>12. \A e \in Entries : client'[e].pid = client[e].pid
  BY <1>4, <1>5
<1> USE <1>1, <1>4, <1>5, <1>6, <1>7, <1>8, <1>9, <1>10 DEF LInv, Children
<1>13. OneEntry' /\ OwnPid'
  BY <1>12 DEF OneEntry, OwnPid, c
<1>14. FreshInv' /\ ReadInv'
  BY DEF FreshInv, ReadInv, Fresh
<1>15. Recorded'
  BY <1>11 DEF Recorded, Records
<1>16. LockedFor'
  BY DEF LockedFor, Records
<1>17. DialLocked'
  BY <1>11 DEF DialLocked
<1>18. ClosedSettled' /\ DoneInv'
  BY DEF ClosedSettled, DoneInv, Settled, Entries, Records
<1>19. Unanswered' /\ LineRight' /\ AnswersMatch'
  BY DEF Unanswered, LineRight, AnswersMatch
<1>20. Session'
  BY DEF Session, Records, OwnPid, c
<1>21. Requesting'
  BY DEF Requesting
<1> QED BY <1>13, <1>14, <1>15, <1>16, <1>17, <1>18, <1>19, <1>20, <1>21

(* child_done takes note of a success.                                     *)
LEMMA ChildDoneOkLines ==
  ASSUME IInv, LInv, ChildDoneOk
  PROVE  LInv'
<1> DEFINE v == [client[i] EXCEPT !.childdone = 0]
<1>1. i \in Entries
  BY LenProperties DEF IInv, TypeOK, ChildDoneOk, Finished, Entries
<1>2. client[i] \in EntryType
  BY <1>1, EntryTyped DEF Entries
<1>3. client' = [client EXCEPT ![i] = v]
  BY DEF ChildDoneOk
<1>4. /\ Entries' = Entries /\ client'[i] = v
      /\ \A e \in Entries : e # i => client'[e] = client[e]
  <2> HIDE DEF v
  <2> QED BY <1>1, <1>3, EntrySet
<1>5. client'[i].childdone = 0
  BY <1>2, <1>4 DEF EntryType
<1>6. \A e \in Entries : /\ client'[e].fd = client[e].fd /\ client'[e].pid = client[e].pid
                         /\ client'[e].sysftell = client[e].sysftell
                         /\ client'[e].req = client[e].req
  BY <1>2, <1>4 DEF EntryType
<1>7. UNCHANGED <<lock, child, conn, asked, got>> /\ dpc' = "cd"
  BY DEF ChildDoneOk, Continue
<1> HIDE DEF v
<1> USE <1>1, <1>4, <1>5, <1>6, <1>7 DEF LInv, Children
<1>8. OneEntry' /\ OwnPid' /\ FreshInv' /\ ReadInv'
  BY DEF OneEntry, OwnPid, FreshInv, ReadInv, Fresh
<1>9. Recorded' /\ LockedFor' /\ DialLocked'
  BY DEF Recorded, LockedFor, DialLocked, Records
<1>10. ClosedSettled' /\ DoneInv'
  BY DEF ClosedSettled, DoneInv, Settled, Entries, Records
<1>11. Unanswered' /\ LineRight' /\ AnswersMatch'
  BY DEF Unanswered, LineRight, AnswersMatch
<1>12. Session' /\ Requesting'
  BY DEF Session, Records, Requesting
<1> QED BY <1>8, <1>9, <1>10, <1>11, <1>12

(* child_done takes note of a failure: the line is unlocked and request()  *)
(* called again.                                                           *)
LEMMA ChildDoneRetryLines ==
  ASSUME IInv, LInv, ChildDoneRetry
  PROVE  LInv'
<1> DEFINE v == [client[i] EXCEPT !.childdone = 0]
<1>1. i \in Entries /\ client[i].fd # NoFd
  BY LenProperties DEF IInv, TypeOK, ChildDoneRetry, Finished, Entries
<1>2. client[i] \in EntryType
  BY <1>1, EntryTyped DEF Entries
<1>3. client' = [client EXCEPT ![i] = v]
  BY DEF ChildDoneRetry
<1>4. /\ Entries' = Entries /\ client'[i] = v
      /\ \A e \in Entries : e # i => client'[e] = client[e]
  <2> HIDE DEF v
  <2> QED BY <1>1, <1>3, EntrySet
<1>5. client'[i].childdone = 0
  BY <1>2, <1>4 DEF EntryType
<1>6. \A e \in Entries : /\ client'[e].fd = client[e].fd /\ client'[e].pid = client[e].pid
                         /\ client'[e].sysftell = client[e].sysftell
                         /\ client'[e].req = client[e].req
  BY <1>2, <1>4 DEF EntryType
<1>7. UNCHANGED <<i, child, conn, asked, got>> /\ dpc' = "request"
  BY DEF ChildDoneRetry, CallRequest
<1>8. \A l \in Lines : lock'[l] = IF lock[l] = client[i].pid THEN 0 ELSE lock[l]
  BY DEF ChildDoneRetry, lock_rel
<1>9. client[i].childdone = 2
  BY <1>2 DEF ChildDoneRetry, EntryType
<1>10. /\ client[i].pid \in Children /\ Records(i, client[i].fd, client[i].pid)
       /\ child[client[i].pid].st = "reaped" /\ got[client[i].fd] = << >>
  BY <1>1, <1>9 DEF LInv, DoneInv
<1>11. /\ 0 \notin Children
       /\ \A p \in Children : child[p].line \in Lines
  BY Types
<1>12. \A p \in Children : child[p].fd = client[i].fd => child[p].st = "reaped"
  <2> SUFFICES ASSUME NEW p \in Children, child[p].fd = client[i].fd, child[p].st # "reaped"
               PROVE  FALSE
    OBVIOUS
  <2>1. Records(i, child[p].fd, p)
    BY <1>1, <1>11, ChildOf
  <2> QED BY <1>10, <2>1 DEF Records
<1>13. ~Fresh(client[i].fd)
  BY <1>10 DEF LInv, FreshInv, Records
<1> HIDE DEF v
<1> USE <1>1, <1>4, <1>5, <1>6, <1>7, <1>8, <1>10, <1>11 DEF LInv, Children
<1>14. OneEntry' /\ OwnPid' /\ FreshInv' /\ ReadInv'
  BY DEF OneEntry, OwnPid, FreshInv, ReadInv, Fresh
<1>15. Recorded' /\ LockedFor'
  BY DEF Recorded, LockedFor, Records
<1>16. DialLocked'
  BY DEF DialLocked
<1>17. ClosedSettled' /\ DoneInv'
  BY DEF ClosedSettled, DoneInv, Settled, Entries, Records
<1>18. Unanswered' /\ LineRight' /\ AnswersMatch'
  BY DEF Unanswered, LineRight, AnswersMatch
<1>19. Session'
  BY DEF Session, Records, OwnPid
<1>20. Requesting'
  BY <1>12, <1>13 DEF Requesting, Fresh
<1> QED BY <1>14, <1>15, <1>16, <1>17, <1>18, <1>19, <1>20

(* request() gives up: the client gets an error and its entry is freed.    *)
LEMMA GiveUpLines ==
  ASSUME IInv, LInv, PosnFails \/ GiveUp
  PROVE  LInv'
<1>1. CASE dpc' = "exit" /\ UNCHANGED <<client, conn, got>>
  <2>1. UNCHANGED <<lock, child, asked>>
    BY DEF PosnFails, GiveUp
  <2> QED BY <1>1, <2>1, MoveLines
<1>2. CASE ~(dpc' = "exit" /\ UNCHANGED <<client, conn, got>>)
  <2> DEFINE c == client[i].fd
             v == [client[i] EXCEPT !.sysftell = Found, !.fd = NoFd]
  <2>1. /\ dpc = "request" /\ dpc' = caller
        /\ client' = [client EXCEPT ![i].sysftell = Found, ![i].fd = NoFd]
        /\ conn' = [conn EXCEPT ![c].st = "dropped"]
        /\ got' = [got EXCEPT ![c] = Append(@, "err")]
        /\ UNCHANGED <<lock, child, asked>>
    BY <1>2 DEF PosnFails, GiveUp, Exit, Continue
  <2>2. /\ i \in Entries /\ c # NoFd /\ ~Fresh(c) /\ got[c] = << >>
        /\ client[i].childdone = 0
        /\ \A p \in Children : child[p].fd = c => child[p].st = "reaped"
        /\ \A l \in Lines : lock[l] # 0 => lock[l] # client[i].pid
    BY <2>1 DEF LInv, Requesting, IInv, RequestInv, Entries
  <2>3. client[i] \in EntryType
    BY <2>2, EntryTyped DEF Entries
  <2>4. client' = [client EXCEPT ![i] = v]
    BY <2>1, <2>2, <2>3 DEF EntryType
  <2>5. /\ Entries' = Entries /\ client'[i] = v
        /\ \A e \in Entries : e # i => client'[e] = client[e]
    <3> HIDE DEF v
    <3> QED BY <2>2, <2>4, EntrySet
  <2>6. /\ client'[i].fd = NoFd /\ client'[i].pid = client[i].pid /\ client'[i].childdone = 0
    BY <2>2, <2>3, <2>5 DEF EntryType
  <2>7. c \in Clients /\ asked[c] # NoReq /\ dpc' \notin {"request", "lock", "tell"}
    BY <2>1, <2>2, <2>3 DEF EntryType, Fresh, IInv, TypeOK
  <2>8. /\ \A d \in Clients : /\ d # c => conn'[d] = conn[d] /\ got'[d] = got[d]
                              /\ conn'[d].unread = conn[d].unread
                              /\ conn'[d].closed = conn[d].closed
        /\ conn'[c].st = "dropped"
        /\ got'[c] = <<"err">>
    BY <2>1, <2>2, <2>7 DEF IInv, TypeOK, ConnType
  <2>9. /\ 0 \notin Children
        /\ \A e \in Entries : client[e].fd \in Clients \cup {NoFd}
        /\ \A p \in Children : child[p].line \in Lines
    BY Types
  <2>10. \A e \in Entries : /\ e # i => client[e].fd # c
                            /\ client'[e].pid = client[e].pid
    BY <2>2, <2>5, <2>6 DEF LInv, OneEntry
  <2>11. <<"err">> # << >> /\ Len(<<"err">>) = 1 /\ <<"err">>[1] = "err"
    OBVIOUS
  <2>21. UNCHANGED <<lock, child, asked>>
    BY <2>1
  <2> HIDE DEF v, c
  <2> USE <2>2, <2>21, <2>5, <2>6, <2>7, <2>8, <2>9, <2>10 DEF LInv, Children
  <2>12. OneEntry' /\ OwnPid'
    BY DEF OneEntry, OwnPid
  <2>13. FreshInv' /\ ReadInv'
    BY DEF FreshInv, ReadInv, Fresh
  <2>14. Recorded'
    BY DEF Recorded, Records, c
  <2>15. LockedFor' /\ DialLocked'
    BY DEF LockedFor, DialLocked, Records
  <2>16. ClosedSettled' /\ DoneInv'
    BY <2>11 DEF ClosedSettled, DoneInv, Settled, Entries, Records
  <2>17. Unanswered' /\ LineRight'
    <3>1. \A p \in Children : child[p].fd \in Clients
      BY DEF FreshInv
    <3> QED BY <3>1 DEF Unanswered, LineRight
  <2>18. AnswersMatch'
    <3> SUFFICES ASSUME NEW d \in Clients, got'[d] # << >>
                 PROVE  /\ Len(got'[d]) = 1 /\ asked[d] # NoReq
                        /\ \/ got'[d][1] = "err"
                           \/ \E n \in DOMAIN Systems : /\ Match(asked[d], Systems[n])
                                                       /\ dev_find(Systems[n]) # 0
                                                       /\ Line(n) = got'[d][1]
      BY DEF AnswersMatch
    <3>1. CASE d = c
      BY <2>11, <3>1
    <3>2. CASE d # c
      BY <3>2 DEF AnswersMatch
    <3> QED BY <3>1, <3>2
  <2>19. Session'
    BY DEF Session, Records, c
  <2>20. Requesting'
    BY DEF Requesting
  <2> QED BY <2>12, <2>13, <2>14, <2>15, <2>16, <2>17, <2>18, <2>19, <2>20
<1> QED BY <1>1, <1>2

(* The search of request() stops at a later line of the Systems file that  *)
(* matches and whose device is free.                                       *)
LEMMA FoundRight ==
  ASSUME NEW r, NEW from \in Nat, NEW lk, Callable(sys_next(r, from, lk))
  PROVE  /\ sys_next(r, from, lk) \in DOMAIN Systems /\ sys_next(r, from, lk) > from
         /\ Match(r, Systems[sys_next(r, from, lk)])
         /\ dev_find(Systems[sys_next(r, from, lk)]) # 0
         /\ lk[Line(sys_next(r, from, lk))] = 0
<1> DEFINE stops == {n \in from + 1 .. Len(Systems) :
                       /\ Match(r, Systems[n])
                       /\ dev_find(Systems[n]) = 0 \/ lk[Line(n)] = 0}
           n0 == sys_next(r, from, lk)
<1>1. stops \subseteq Nat
  BY CalldAssumption
<1>2. n0 # -1 /\ dev_find(Systems[n0]) # 0
  BY DEF Callable
<1>3. stops # {} /\ n0 = Min(stops)
  BY <1>2 DEF sys_next
<1>4. n0 \in stops
  <2> HIDE DEF stops, n0
  <2> QED BY <1>1, <1>3, MinIn
<1>5. /\ n0 \in from + 1 .. Len(Systems) /\ Match(r, Systems[n0])
      /\ dev_find(Systems[n0]) = 0 \/ lk[Line(n0)] = 0
  <2> HIDE DEF n0
  <2> QED BY <1>4
<1> HIDE DEF n0
<1>6. n0 \in DOMAIN Systems /\ n0 > from
  BY <1>5, CalldAssumption
<1> QED BY <1>2, <1>5, <1>6 DEF n0

(* fork: the entry records the new child.                                  *)
LEMMA ForkLines ==
  ASSUME IInv, LInv, Fork
  PROVE  LInv'
<1>1. CASE dpc' = "exit" /\ UNCHANGED <<client, child>>
  <2>1. UNCHANGED <<lock, conn, asked, got>>
    BY DEF Fork
  <2> QED BY <1>1, <2>1, MoveLines
<1>2. CASE ~(dpc' = "exit" /\ UNCHANGED <<client, child>>)
  <2> DEFINE c == client[i].fd
             q == Len(child) + 1
             new == [st |-> "waiting", fd |-> c, line |-> Line(Found), stat |-> 0]
             v == [client[i] EXCEPT !.sysftell = Found, !.pid = q]
  <2>1. /\ dpc = "request" /\ dpc' = "lock" /\ client[i].sysftell # -1
        /\ Callable(Found)
        /\ child' = Append(child, new)
        /\ client' = [client EXCEPT ![i].sysftell = Found, ![i].pid = q]
        /\ UNCHANGED <<i, lock, conn, asked, got>>
    BY <1>2 DEF Fork, Exit
  <2>2. /\ i \in Entries /\ c # NoFd /\ ~Fresh(c) /\ got[c] = << >>
        /\ client[i].childdone = 0
        /\ \A p \in Children : child[p].fd = c => child[p].st = "reaped"
        /\ \A l \in Lines : lock[l] # 0 => lock[l] # client[i].pid
    BY <2>1 DEF LInv, Requesting, IInv, RequestInv, Entries
  <2>3. client[i] \in EntryType
    BY <2>2, EntryTyped DEF Entries
  <2>4. c \in Clients /\ client[i].sysftell \in Nat /\ Asked = asked[c]
    BY <2>1, <2>2, <2>3 DEF EntryType, LInv, ReadInv, Asked
  <2>5. /\ Found \in DOMAIN Systems /\ Match(asked[c], Systems[Found]) /\ Found \in Nat
        /\ dev_find(Systems[Found]) # 0 /\ Line(Found) \in Lines /\ lock[Line(Found)] = 0
    BY <2>1, <2>4, FoundRight, FoundTyped, CalldAssumption DEF Found
  <2>6. /\ Len(child) \in Nat /\ Children = 1 .. Len(child) /\ 0 \notin Children
        /\ \A e \in Entries : client[e].fd \in Clients \cup {NoFd}
        /\ \A p \in Children : child[p].line \in Lines
    BY Types
  <2>7. client' = [client EXCEPT ![i] = v]
    <3> HIDE DEF q
    <3> QED BY <2>1, <2>2, <2>3 DEF EntryType
  <2>8. /\ Entries' = Entries /\ client'[i] = v
        /\ \A e \in Entries : e # i => client'[e] = client[e]
    <3> HIDE DEF v
    <3> QED BY <2>2, <2>7, EntrySet
  <2>9. /\ client'[i].fd = c /\ client'[i].pid = q /\ client'[i].childdone = 0
        /\ client'[i].sysftell = Found /\ client'[i].req = client[i].req
    <3> HIDE DEF q
    <3> QED BY <2>2, <2>3, <2>8 DEF EntryType
  <2>10. /\ Children' = Children \cup {q} /\ q \notin Children /\ q # 0
         /\ \A p \in Children : child'[p] = child[p]
         /\ child'[q] = new
    <3>1. child \in Seq(ChildType)
      BY DEF IInv, TypeOK
    <3>2. new \in ChildType
      BY <2>4, <2>5 DEF ChildType
    <3> HIDE DEF new
    <3> QED BY <2>1, <2>6, <3>1, <3>2, AppendProperties, LenProperties DEF Children
  <2>11. /\ child'[q].st = "waiting" /\ child'[q].fd = c /\ child'[q].line = Line(Found)
    BY <2>10
  <2>12. \A e \in Entries : client'[e].fd = client[e].fd
    BY <2>8, <2>9
  <2>13. \A e \in Entries : e # i => client[e].fd # c
    BY <2>2 DEF LInv, OneEntry
  <2>14. UNCHANGED <<i, lock, conn, asked, got>> /\ dpc' = "lock"
    BY <2>1
  <2>15. \A p \in Children : child[p].fd \in Clients
    BY DEF LInv, FreshInv
  <2> HIDE DEF v, new, q, c
  <2> USE <2>2, <2>4, <2>6, <2>8, <2>9, <2>10, <2>11, <2>12, <2>13, <2>14, <2>15 DEF LInv
  <2>16. OneEntry' /\ OwnPid'
    BY DEF OneEntry, OwnPid
  <2>17. FreshInv' /\ ReadInv'
    BY <2>5 DEF FreshInv, ReadInv, Fresh
  <2>18. Recorded'
    BY DEF Recorded, Records
  <2>19. LockedFor'
    BY DEF LockedFor, Records
  <2>20. DialLocked'
    BY DEF DialLocked
  <2>21. ClosedSettled' /\ DoneInv'
    <3>1. DoneInv'
      BY DEF DoneInv, Records
    <3>2. ClosedSettled'
      BY DEF ClosedSettled, Settled, Entries, Children
    <3> QED BY <3>1, <3>2
  <2>22. Unanswered' /\ AnswersMatch'
    BY DEF Unanswered, AnswersMatch
  <2>23. LineRight'
    BY <2>5 DEF LineRight
  <2>24. Session'
    BY DEF Session, Records
  <2>25. Requesting'
    BY <2>5 DEF Requesting, Fresh
  <2> QED BY <2>16, <2>17, <2>18, <2>19, <2>20, <2>21, <2>22, <2>23, <2>24, <2>25
<1> QED BY <1>1, <1>2

(* lock_set: the line was free.                                            *)
LEMMA LockSetLines ==
  ASSUME IInv, LInv, LockSet
  PROVE  LInv'
<1> DEFINE q == client[i].pid
           l0 == child[q].line
<1>1. /\ dpc = "lock" /\ dpc' = "tell" /\ lock' = [lock EXCEPT ![l0] = q]
      /\ UNCHANGED <<i, client, child, conn, asked, got>>
  BY DEF LockSet
<1>2. /\ i \in Entries /\ q \in Children /\ child[q].st = "waiting"
      /\ Records(i, child[q].fd, q) /\ lock[l0] = 0
      /\ client[i].fd # NoFd /\ ~Fresh(client[i].fd) /\ got[client[i].fd] = << >>
  BY <1>1 DEF LInv, Requesting, IInv, RequestInv, Entries, Children, Records
<1>3. 0 \notin Children /\ \A p \in Children : child[p].line \in Lines
  BY Types
<1>4. lock'[l0] = q /\ \A l \in Lines : l # l0 => lock'[l] = lock[l]
  BY <1>1, <1>2, <1>3 DEF IInv, TypeOK
<1>5. UNCHANGED <<i, client, child, conn, asked, got>> /\ dpc' = "tell"
  BY <1>1
<1> HIDE DEF q, l0
<1> USE <1>2, <1>3, <1>4, <1>5 DEF LInv, Entries, Children
<1>6. OneEntry' /\ OwnPid' /\ FreshInv' /\ ReadInv'
  BY DEF OneEntry, OwnPid, FreshInv, ReadInv, Fresh
<1>7. Recorded' /\ Unanswered' /\ LineRight' /\ AnswersMatch'
  BY DEF Recorded, Records, Unanswered, LineRight, AnswersMatch
<1>8. LockedFor'
  BY DEF LockedFor, Records, l0
<1>9. DialLocked'
  BY DEF DialLocked
<1>10. ClosedSettled' /\ DoneInv'
  BY DEF ClosedSettled, DoneInv, Settled, Records
<1>11. Session'
  BY DEF Session, Records
<1>12. Requesting'
  BY DEF Requesting, Records, Fresh, q
<1> QED BY <1>6, <1>7, <1>8, <1>9, <1>10, <1>11, <1>12

(* Replacing a child.                                                      *)
LEMMA ChildSet ==
  ASSUME IInv, NEW q \in Children, NEW w, child' = [child EXCEPT ![q] = w]
  PROVE  /\ Children' = Children /\ child'[q] = w
         /\ \A p \in Children : p # q => child'[p] = child[p]
BY DEF Children, IInv, TypeOK

(* TELL_CHILD: the child starts to dial.                                   *)
LEMMA TellChildLines ==
  ASSUME IInv, LInv, TellChild
  PROVE  LInv'
<1> DEFINE q == client[i].pid
           w == [child[q] EXCEPT !.st = "dialing"]
<1>1. /\ dpc = "tell" /\ child' = [child EXCEPT ![q] = w]
      /\ dpc' \notin {"request", "lock", "tell"}
      /\ UNCHANGED <<client, lock, conn, asked, got>>
  BY DEF TellChild, Continue, IInv, TypeOK
<1>2. /\ q \in Children /\ child[q].st = "waiting" /\ lock[child[q].line] = q
  BY <1>1 DEF IInv, RequestInv, Children
<1>3. child[q] \in ChildType
  BY <1>2, ElementOfSeq DEF IInv, TypeOK, Children
<1>4. /\ Children' = Children /\ child'[q] = w
      /\ \A p \in Children : p # q => child'[p] = child[p]
  <2> HIDE DEF w
  <2> QED BY <1>1, <1>2, ChildSet
<1>5. child'[q].st = "dialing"
  BY <1>3, <1>4 DEF ChildType
<1>6. \A p \in Children : /\ child'[p].fd = child[p].fd /\ child'[p].line = child[p].line
                          /\ child'[p].stat = child[p].stat
  BY <1>3, <1>4 DEF ChildType
<1>7. UNCHANGED <<client, lock, conn, asked, got>>
  BY <1>1
<1> HIDE DEF q, w
<1> USE <1>2, <1>4, <1>5, <1>6, <1>7 DEF LInv, Entries
<1>8. OneEntry' /\ OwnPid' /\ FreshInv' /\ ReadInv'
  BY DEF OneEntry, OwnPid, FreshInv, ReadInv, Fresh
<1>9. Recorded' /\ LockedFor' /\ DialLocked'
  BY DEF Recorded, LockedFor, DialLocked, Records
<1>10. ClosedSettled' /\ DoneInv'
  BY DEF ClosedSettled, DoneInv, Settled, Records, Children
<1>11. Unanswered' /\ LineRight' /\ AnswersMatch'
  BY DEF Unanswered, LineRight, AnswersMatch
<1>12. Session' /\ Requesting'
  BY <1>1 DEF Session, Records, Requesting
<1> QED BY <1>8, <1>9, <1>10, <1>11, <1>12

(* What is known of a child that has not been reaped: its client has not   *)
(* closed, has an entry that records the child and no other child under    *)
(* way, and request() is not at work for it unless the child waits.        *)
LEMMA UnderWay ==
  ASSUME IInv, LInv, NEW q \in Children, child[q].st # "reaped"
  PROVE  /\ child[q].fd \in Clients /\ child[q].fd # NoFd /\ ~Fresh(child[q].fd)
         /\ ~conn[child[q].fd].closed
         /\ \E e \in Entries : Records(e, child[q].fd, q)
         /\ \A p \in Children : child[p].fd = child[q].fd /\ p # q => child[p].st = "reaped"
         /\ \A e \in Entries : client[e].fd = child[q].fd
                                 => client[e].pid = q /\ client[e].childdone = 0
         /\ child[q].st # "waiting" =>
              ~(dpc \in {"request", "lock", "tell"} /\ client[i].fd = child[q].fd)
<1>1. child[q].fd \in Clients /\ child[q].fd # NoFd /\ ~Fresh(child[q].fd)
  BY CalldAssumption DEF LInv, FreshInv
<1>2. ~conn[child[q].fd].closed
  BY <1>1 DEF LInv, ClosedSettled, Settled, Children
<1>3. 0 \notin Children
  BY Types
<1>4. PICK f \in Entries : Records(f, child[q].fd, q)
  BY DEF LInv, Recorded
<1>5. \A e \in Entries : client[e].fd = child[q].fd => client[e].pid = q /\ client[e].childdone = 0
  <2> SUFFICES ASSUME NEW e \in Entries, client[e].fd = child[q].fd
               PROVE  client[e].pid = q /\ client[e].childdone = 0
    OBVIOUS
  <2>1. Records(e, child[q].fd, q)
    BY <1>1, <1>3, ChildOf
  <2> QED BY <2>1 DEF Records, LInv, DoneInv
<1>6. \A p \in Children : child[p].fd = child[q].fd /\ p # q => child[p].st = "reaped"
  <2> SUFFICES ASSUME NEW p \in Children, child[p].fd = child[q].fd, p # q,
                      child[p].st # "reaped"
               PROVE  FALSE
    OBVIOUS
  <2>1. PICK e \in Entries : Records(e, child[p].fd, p)
    BY DEF LInv, Recorded
  <2> QED BY <1>5, <2>1 DEF Records
<1>7. child[q].st # "waiting" =>
        ~(dpc \in {"request", "lock", "tell"} /\ client[i].fd = child[q].fd)
  <2> SUFFICES ASSUME child[q].st # "waiting", dpc \in {"request", "lock", "tell"},
                      client[i].fd = child[q].fd
               PROVE  FALSE
    OBVIOUS
  <2>1. i \in Entries
    BY DEF IInv, RequestInv, Entries
  <2>2. client[i].pid = q
    BY <1>5, <2>1
  <2> QED BY <2>2 DEF LInv, Requesting, IInv, RequestInv
<1> QED BY <1>1, <1>2, <1>4, <1>5, <1>6, <1>7

(* The child passes the line to its client.                                *)
LEMMA SendFdLines ==
  ASSUME IInv, LInv, NEW q \in Children, SendFd(q)
  PROVE  LInv'
<1> DEFINE c == child[q].fd
           w == [child[q] EXCEPT !.st = "sent"]
<1>1. /\ child' = [child EXCEPT ![q] = w] /\ child[q].st = "dialing"
      /\ got' = [got EXCEPT ![c] = Append(@, child[q].line)]
      /\ UNCHANGED <<dpc, i, client, lock, conn, asked>>
  BY DEF SendFd, daemon
<1>2. child[q] \in ChildType
  BY ElementOfSeq DEF IInv, TypeOK, Children
<1>3. /\ Children' = Children /\ child'[q] = w
      /\ \A p \in Children : p # q => child'[p] = child[p]
  <2> HIDE DEF w
  <2> QED BY <1>1, ChildSet
<1>4. child'[q].st = "sent"
  BY <1>2, <1>3 DEF ChildType
<1>5. \A p \in Children : /\ child'[p].fd = child[p].fd /\ child'[p].line = child[p].line
                          /\ child'[p].stat = child[p].stat
  BY <1>2, <1>3 DEF ChildType
<1>6. /\ c \in Clients /\ c # NoFd /\ ~Fresh(c) /\ ~conn[c].closed
      /\ \E e \in Entries : Records(e, c, q)
      /\ \A p \in Children : child[p].fd = c /\ p # q => child[p].st = "reaped"
      /\ \A e \in Entries : client[e].fd = c => client[e].pid = q /\ client[e].childdone = 0
      /\ ~(dpc \in {"request", "lock", "tell"} /\ client[i].fd = c)
  BY <1>1, UnderWay
<1>7. /\ lock[child[q].line] = q /\ got[c] = << >>
      /\ child[q].line \in Lines /\ child[q].line # "err"
  BY <1>1, <1>2, LinesAssumption DEF LInv, DialLocked, Unanswered, ChildType
<1>8. /\ got'[c] = <<child[q].line>> /\ \A d \in Clients : d # c => got'[d] = got[d]
  BY <1>1, <1>6, <1>7 DEF IInv, TypeOK
<1>9. /\ UNCHANGED <<dpc, i, client, lock, conn, asked>>
      /\ \A l : <<l>> # << >> /\ Len(<<l>>) = 1 /\ <<l>>[1] = l
  BY <1>1
<1>10. /\ \A p \in Children : child[p].fd \in Clients
       /\ \A e \in Entries : client[e].fd \in Clients \cup {NoFd}
  BY Types DEF LInv, FreshInv
<1> HIDE DEF c, w
<1> USE <1>3, <1>4, <1>5, <1>6, <1>7, <1>8, <1>9, <1>10 DEF LInv, Entries
<1>11. OneEntry' /\ OwnPid' /\ FreshInv' /\ ReadInv'
  BY DEF OneEntry, OwnPid, FreshInv, ReadInv, Fresh
<1>12. Recorded' /\ LockedFor' /\ DialLocked'
  BY DEF Recorded, LockedFor, DialLocked, Records
<1>13. ClosedSettled' /\ DoneInv'
  BY <1>1 DEF ClosedSettled, DoneInv, Settled, Records, Children
<1>14. Unanswered' /\ LineRight'
  BY DEF Unanswered, LineRight
<1>15. AnswersMatch'
  <2> SUFFICES ASSUME NEW d \in Clients, got'[d] # << >>
               PROVE  /\ Len(got'[d]) = 1 /\ asked[d] # NoReq
                      /\ \/ got'[d][1] = "err"
                         \/ \E n \in DOMAIN Systems : /\ Match(asked[d], Systems[n])
                                                      /\ dev_find(Systems[n]) # 0
                                                      /\ Line(n) = got'[d][1]
    BY DEF AnswersMatch
  <2>1. CASE d = c
    <3>1. got'[d] = <<child[q].line>> /\ got'[d][1] = child[q].line /\ Len(got'[d]) = 1
      BY <2>1
    <3>2. \E n \in DOMAIN Systems : /\ Match(asked[c], Systems[n])
                                   /\ dev_find(Systems[n]) # 0 /\ Line(n) = child[q].line
      BY DEF LineRight, c
    <3>3. asked[c] # NoReq
      BY DEF Fresh
    <3> QED BY ONLY <2>1, <3>1, <3>2, <3>3
  <2>2. CASE d # c
    BY <2>2 DEF AnswersMatch
  <2> QED BY <2>1, <2>2
<1>16. Session'
  BY DEF Session, Records
<1>17. Requesting'
  <2>1. dpc \in {"request", "lock", "tell"} => i \in Entries
    BY DEF IInv, RequestInv
  <2> QED BY <1>1, <2>1 DEF Requesting, Fresh, IInv, RequestInv, Children
<1> QED BY <1>11, <1>12, <1>13, <1>14, <1>15, <1>16, <1>17

(* The child ends: after send_fd with 1, else with 2.                      *)
LEMMA DiesLines ==
  ASSUME IInv, LInv, NEW q \in Children, ExitOk(q) \/ DialFails(q) \/ DialPipe(q)
  PROVE  LInv'
<1>1. child[q] \in ChildType
  BY ElementOfSeq DEF IInv, TypeOK, Children
<1>2. /\ child[q].st \in {"dialing", "sent"}
      /\ UNCHANGED <<dpc, i, client, lock, conn, asked, got>>
  BY DEF ExitOk, DialFails, DialPipe, Dies, daemon
<1>3. /\ child[q].fd \in Clients /\ ~conn[child[q].fd].closed
      /\ \A e \in Entries : client[e].fd = child[q].fd
                              => client[e].pid = q /\ client[e].childdone = 0
  BY <1>2, UnderWay
<1>4. PICK x \in {1, 2} : /\ child' = [child EXCEPT ![q].st = "zombie", ![q].stat = x]
                          /\ x = 2 => child[q].st = "dialing"
  BY <1>3 DEF ExitOk, DialFails, DialPipe, Dies, Gone
<1> DEFINE w == [child[q] EXCEPT !.st = "zombie", !.stat = x]
<1>5. child' = [child EXCEPT ![q] = w]
  BY <1>1, <1>4 DEF ChildType
<1>6. /\ Children' = Children /\ child'[q] = w
      /\ \A p \in Children : p # q => child'[p] = child[p]
  <2> HIDE DEF w
  <2> QED BY <1>5, ChildSet
<1>7. child'[q].st = "zombie" /\ child'[q].stat = x
  BY <1>1, <1>6 DEF ChildType
<1>8. \A p \in Children : child'[p].fd = child[p].fd /\ child'[p].line = child[p].line
  BY <1>1, <1>6 DEF ChildType
<1>9. x = 2 => got[child[q].fd] = << >>
  BY <1>4 DEF LInv, Unanswered
<1>10. x \in {1, 2}
  BY <1>4
<1> HIDE DEF w
<1> USE <1>2, <1>3, <1>6, <1>7, <1>8, <1>9, <1>10 DEF LInv, Entries
<1>11. OneEntry' /\ OwnPid' /\ FreshInv' /\ ReadInv'
  BY DEF OneEntry, OwnPid, FreshInv, ReadInv, Fresh
<1>12. Recorded' /\ LockedFor' /\ DialLocked'
  BY DEF Recorded, LockedFor, DialLocked, Records
<1>13. ClosedSettled' /\ DoneInv'
  BY DEF ClosedSettled, DoneInv, Settled, Records, Children
<1>14. Unanswered' /\ LineRight' /\ AnswersMatch'
  BY DEF Unanswered, LineRight, AnswersMatch
<1>15. Session'
  BY DEF Session, Records
<1>16. Requesting'
  <2>1. dpc \in {"request", "lock", "tell"} => i \in Entries
    BY DEF IInv, RequestInv
  <2> QED BY <2>1 DEF Requesting, Fresh, IInv, RequestInv, Children
<1> QED BY <1>11, <1>12, <1>13, <1>14, <1>15, <1>16

(* The handler marks the one entry that records the child it reaps.        *)
LEMMA sig_chldShape ==
  ASSUME IInv, LInv, NEW q \in Children, sig_chld(q)
  PROVE  /\ child[q].st = "zombie" /\ dpc' \in {dpc, "child_done", "no_accept"} /\ i' = i
         /\ child' = [child EXCEPT ![q].st = "reaped"]
         /\ \E k \in Entries :
              /\ Records(k, child[q].fd, q)
              /\ client' = [client EXCEPT ![k].childdone = child[q].stat]
         /\ UNCHANGED <<lock, conn, asked, got>>
<1> DEFINE hits == {e \in DOMAIN client : client[e].pid = q}
<1>1. child[q].st = "zombie" /\ child[q].stat \in {1, 2}
  BY DEF sig_chld, Zombies, LInv, Unanswered
<1>2. PICK k \in Entries : Records(k, child[q].fd, q)
  BY <1>1 DEF LInv, Recorded
<1>3. hits = {k}
  <2>1. 0 \notin Children
    BY Types
  <2> QED BY <1>2, <2>1 DEF LInv, OwnPid, Records, Entries
<1>4. Min(hits) = k
  <2>1. hits # {} /\ hits \subseteq Nat
    BY <1>2, <1>3, Types
  <2>2. Min(hits) \in hits
    <3> HIDE DEF hits
    <3> QED BY <2>1, MinIn
  <2> QED BY <1>3, <2>2
<1>5. client_sigchld(q)
  BY <1>1 DEF sig_chld
<1>6. client' = [client EXCEPT ![k].childdone = child[q].stat] /\ Interrupted
  <2>1. hits # {}
    BY <1>3
  <2> QED BY <1>4, <1>5, <2>1 DEF client_sigchld
<1>7. dpc' \in {dpc, "child_done", "no_accept"} /\ i' = i
  BY <1>6 DEF Interrupted, AcceptFails, daemon
<1> QED BY <1>1, <1>2, <1>6, <1>7 DEF sig_chld

(* The handler reaps a child.                                              *)
LEMMA sig_chldLines ==
  ASSUME IInv, LInv, NEW q \in Children, sig_chld(q)
  PROVE  LInv'
<1>1. /\ child[q].st = "zombie" /\ dpc' \in {dpc, "child_done", "no_accept"} /\ i' = i
      /\ child' = [child EXCEPT ![q].st = "reaped"]
      /\ UNCHANGED <<lock, conn, asked, got>>
  BY sig_chldShape
<1>2. PICK k \in Entries : /\ Records(k, child[q].fd, q)
                           /\ client' = [client EXCEPT ![k].childdone = child[q].stat]
  BY sig_chldShape
<1> DEFINE w == [child[q] EXCEPT !.st = "reaped"]
           v == [client[k] EXCEPT !.childdone = child[q].stat]
<1>3. child[q] \in ChildType /\ client[k] \in EntryType
  BY ElementOfSeq, LenProperties DEF IInv, TypeOK, Children, Entries
<1>4. /\ Children' = Children /\ child'[q] = w
      /\ \A p \in Children : p # q => child'[p] = child[p]
  <2>1. child' = [child EXCEPT ![q] = w]
    BY <1>1
  <2> HIDE DEF w
  <2> QED BY <2>1, ChildSet
<1>5. /\ Entries' = Entries /\ client'[k] = v
      /\ \A e \in Entries : e # k => client'[e] = client[e]
  <2>1. client' = [client EXCEPT ![k] = v]
    BY <1>2
  <2> HIDE DEF v
  <2> QED BY <2>1, EntrySet
<1>6. /\ child'[q].st = "reaped"
      /\ \A p \in Children : /\ child'[p].fd = child[p].fd /\ child'[p].line = child[p].line
                             /\ child'[p].stat = child[p].stat
  BY <1>3, <1>4 DEF ChildType
<1>7. /\ client'[k].childdone = child[q].stat
      /\ \A e \in Entries : /\ client'[e].fd = client[e].fd /\ client'[e].pid = client[e].pid
                            /\ client'[e].sysftell = client[e].sysftell
                            /\ client'[e].req = client[e].req
  BY <1>3, <1>5 DEF EntryType
<1>8. /\ child[q].fd \in Clients /\ child[q].fd # NoFd /\ ~conn[child[q].fd].closed
      /\ ~(dpc \in {"request", "lock", "tell"} /\ client[i].fd = child[q].fd)
  BY <1>1, UnderWay
<1>9. child[q].stat = 2 => got[child[q].fd] = << >>
  BY <1>1 DEF LInv, Unanswered
<1>10. /\ child[q].st = "zombie" /\ Records(k, child[q].fd, q)
       /\ UNCHANGED <<lock, conn, asked, got>>
  BY <1>1, <1>2
<1> HIDE DEF w, v
<1> USE <1>4, <1>5, <1>6, <1>7, <1>8, <1>9, <1>10 DEF LInv
<1>11. OneEntry' /\ OwnPid' /\ FreshInv' /\ ReadInv'
  BY DEF OneEntry, OwnPid, FreshInv, ReadInv, Fresh
<1>12. Recorded' /\ LockedFor' /\ DialLocked'
  BY DEF Recorded, LockedFor, DialLocked, Records
<1>13. ClosedSettled' /\ DoneInv'
  BY DEF ClosedSettled, DoneInv, Settled, Records, Children, Entries
<1>14. Unanswered' /\ LineRight' /\ AnswersMatch'
  BY DEF Unanswered, LineRight, AnswersMatch
<1>15. Session'
  BY DEF Session, Records
<1>16. Requesting'
  <2>1. dpc \in {"request", "lock", "tell"} => i \in Entries
    BY DEF IInv, RequestInv, Entries
  <2> QED BY <1>1, <2>1 DEF Requesting, Fresh, IInv, RequestInv, Children, Records
<1> QED BY <1>11, <1>12, <1>13, <1>14, <1>15, <1>16

-----------------------------------------------------------------------------
(* Nobody has called.                                                      *)
LEMMA InitLines == Init => LInv
<1> SUFFICES ASSUME Init PROVE LInv
  OBVIOUS
<1>1. Entries = {} /\ Children = {}
  BY DEF Init, Entries, Children
<1>2. /\ \A c \in Clients : /\ conn[c].st = "out" /\ ~conn[c].unread /\ ~conn[c].closed
                            /\ asked[c] = NoReq /\ got[c] = << >>
      /\ \A l \in Lines : lock[l] = 0
      /\ dpc = "top"
  BY DEF Init
<1> USE <1>1, <1>2
<1>3. OneEntry /\ OwnPid /\ FreshInv /\ ReadInv /\ Recorded /\ LockedFor /\ DialLocked
  BY DEF OneEntry, OwnPid, FreshInv, ReadInv, Recorded, LockedFor, DialLocked, Fresh
<1>4. ClosedSettled /\ DoneInv /\ Unanswered /\ LineRight /\ AnswersMatch /\ Session /\ Requesting
  BY DEF ClosedSettled, DoneInv, Unanswered, LineRight, AnswersMatch, Session, Requesting
<1> QED BY <1>3, <1>4 DEF LInv

LEMMA NextLines ==
  ASSUME Hangup = "settled", IInv, LInv, [Next]_vars
  PROVE  LInv'
<1>1. CASE \E c \in Clients : Caller(c)
  BY <1>1, ConnectLines, SendLines, CloseLines DEF Caller
<1>2. CASE Daemon
  BY <1>2, WalkLines, AcceptLines, ScanRequestLines, ScanEofLines, GiveUpLines, ForkLines,
     LockSetLines, TellChildLines, ChildDoneOkLines, ChildDoneRetryLines DEF Daemon
<1>3. CASE \E p \in DOMAIN child : Child(p) \/ sig_chld(p)
  BY <1>3, SendFdLines, DiesLines, sig_chldLines DEF Child, Children
<1>4. CASE UNCHANGED vars
  <2> USE <1>4 DEF vars, daemon, LInv, Entries, Children, Records, Fresh
  <2>1. OneEntry' /\ OwnPid' /\ FreshInv' /\ ReadInv'
    BY DEF OneEntry, OwnPid, FreshInv, ReadInv
  <2>2. Recorded' /\ LockedFor' /\ DialLocked' /\ Unanswered' /\ LineRight'
    BY DEF Recorded, LockedFor, DialLocked, Unanswered, LineRight
  <2>3. ClosedSettled' /\ DoneInv' /\ AnswersMatch' /\ Session' /\ Requesting'
    BY DEF ClosedSettled, DoneInv, Settled, AnswersMatch, Session, Requesting
  <2> QED BY <2>1, <2>2, <2>3
<1> QED BY <1>1, <1>2, <1>3, <1>4 DEF Next

LEMMA LinesInvariant ==
  ASSUME Hangup = "settled"
  PROVE  Spec => [](IInv /\ LInv)
<1>1. IInv /\ LInv /\ [Next]_vars => LInv'
  BY NextLines
<1> QED BY <1>1, InitLines, Invariant, PTL DEF Spec

(* A set whose members are all the same.                                   *)
LEMMA AtMostOne ==
  ASSUME NEW T, \A x, y \in T : x = y
  PROVE  Cardinality(T) <= 1
<1>1. CASE T = {}
  BY <1>1, FS_EmptySet
<1>2. CASE T # {}
  <2>1. PICK x \in T : TRUE
    BY <1>2
  <2>2. T = {x}
    BY <2>1
  <2>3. Cardinality({x}) = 1
    BY FS_Singleton, Zenon
  <2> QED BY <2>2, <2>3
<1> QED BY <1>1, <1>2

(* When clients hang up only once their call is settled, a line is dialed  *)
(* by one child at a time, used by one client at a time, and not dialed    *)
(* for anyone else meanwhile: the locks of lock.c do what they are for.    *)
THEOREM LinesExclusive ==
  ASSUME Hangup = "settled"
  PROVE  Spec => []LineExclusive
<1>1. IInv /\ LInv => LineExclusive
  <2> SUFFICES ASSUME IInv, LInv, NEW l \in Lines
               PROVE  /\ Cardinality(Dialers(l)) <= 1 /\ Cardinality(Sessions(l)) <= 1
                      /\ \A p \in Dialers(l), c \in Sessions(l) : child[p].fd = c
    BY DEF LineExclusive
  <2>1. \A p \in Dialers(l) : lock[l] = p
    BY DEF Dialers, LInv, DialLocked, Children
  <2>2. \A c \in Sessions(l) : child[lock[l]].fd = c
    <3> SUFFICES ASSUME NEW c \in Sessions(l) PROVE child[lock[l]].fd = c
      OBVIOUS
    <3>1. c \in Clients /\ ~conn[c].closed /\ got[c] # << >>
      BY DEF Sessions
    <3>2. PICK n \in DOMAIN got[c] : got[c][n] = l
      BY DEF Sessions
    <3>3. Len(got[c]) = 1 /\ got[c] \in Seq(Lines \cup {"err"})
      BY <3>1 DEF LInv, AnswersMatch, IInv, TypeOK
    <3>4. got[c][1] = l
      BY <3>2, <3>3, LenProperties
    <3>5. got[c] # <<"err">>
      BY <3>4, LinesAssumption
    <3> QED BY <3>1, <3>4, <3>5 DEF LInv, Session, Records
  <2>3. Cardinality(Dialers(l)) <= 1
    BY <2>1, AtMostOne
  <2>4. Cardinality(Sessions(l)) <= 1
    BY <2>2, AtMostOne
  <2> QED BY <2>1, <2>2, <2>3, <2>4
<1> QED BY <1>1, LinesInvariant, PTL

(* With such clients no line stays locked for a client that has gone: each *)
(* exit from an entry of client[] releases the lock that goes with it.     *)
THEOREM LocksReleased ==
  ASSUME Hangup = "settled"
  PROVE  Spec => []LocksOwned
<1>1. IInv /\ LInv => LocksOwned
  BY CalldAssumption DEF LInv, LockedFor, LocksOwned, FreshInv, Records, Entries, Children
<1> QED BY <1>1, LinesInvariant, PTL

(* With such clients a child that dials keeps its lock: neither the end of *)
(* another client nor a retry for one releases it.                         *)
THEOREM LocksLast ==
  ASSUME Hangup = "settled"
  PROVE  Spec => []DialsUnderLock
<1>1. LInv => DialsUnderLock
  BY DEF LInv, DialLocked, DialsUnderLock, Dialers, Children
<1> QED BY <1>1, LinesInvariant, PTL

(* With such clients every client gets at most one final reply, after it   *)
(* has asked, and a line it gets is one the files name for its request,    *)
(* whatever entries and process ids earlier clients left behind.           *)
THEOREM RepliesMatch ==
  ASSUME Hangup = "settled"
  PROVE  Spec => []AnswersMatch
<1>1. LInv => AnswersMatch
  BY DEF LInv
<1> QED BY <1>1, LinesInvariant, PTL

-----------------------------------------------------------------------------

(* The children ch forked for c, the lines of the Systems file that match *)
(* a request, and those of them up to line n.                                *)
Tried(ch, c) == {p \in DOMAIN ch : ch[p].fd = c}
Matches(r)   == {m \in DOMAIN Systems : Match(r, Systems[m])}
Upto(r, n)   == {m \in Matches(r) : m <= n}

(* For each child forked for a client a matching line has been passed.     *)
TryInv ==
  \A e \in Entries : client[e].fd # NoFd /\ ~Fresh(client[e].fd) =>
    Cardinality(Tried(child, client[e].fd))
      <= Cardinality(Upto(asked[client[e].fd], client[e].sysftell))

LEMMA MatchesFinite ==
  ASSUME NEW r
  PROVE  /\ IsFiniteSet(Matches(r)) /\ Cardinality(Matches(r)) \in Nat
         /\ \A n : /\ IsFiniteSet(Upto(r, n)) /\ Cardinality(Upto(r, n)) \in Nat
                   /\ Cardinality(Upto(r, n)) <= Cardinality(Matches(r))
<1>1. IsFiniteSet(DOMAIN Systems)
  BY CalldAssumption, FS_Interval
<1>2. IsFiniteSet(Matches(r)) /\ Cardinality(Matches(r)) \in Nat
  BY <1>1, FS_Subset, FS_CardinalityType DEF Matches
<1>3. \A n : Upto(r, n) \in SUBSET Matches(r)
  BY DEF Upto
<1> QED BY <1>2, <1>3, FS_Subset, FS_CardinalityType

LEMMA TriedFinite ==
  ASSUME IInv, NEW c
  PROVE  IsFiniteSet(Tried(child, c)) /\ Cardinality(Tried(child, c)) \in Nat
<1>1. Len(child) \in Int /\ 1 \in Int /\ Children = 1 .. Len(child)
  BY Types
<1>2. IsFiniteSet(1 .. Len(child))
  BY <1>1, FS_Interval
<1>3. Tried(child, c) \in SUBSET Children
  BY DEF Tried, Children
<1> QED BY <1>1, <1>2, <1>3, FS_Subset, FS_CardinalityType

(* A step that forks nobody, changes no request that was read and moves no *)
(* position of an entry.                                                   *)
LEMMA SameTries ==
  ASSUME IInv, LInv, TryInv, RetriesAdvance, Children' = Children,
         \A p \in Children : child'[p].fd = child[p].fd,
         \A c \in Clients : ~Fresh(c) => asked'[c] = asked[c],
         \A e \in Entries' : client'[e].fd # NoFd =>
           \/ /\ e \in Entries /\ client'[e].fd = client[e].fd
              /\ client'[e].sysftell = client[e].sysftell
           \/ Fresh(client'[e].fd) /\ client'[e].fd \in Clients
  PROVE  TryInv' /\ RetriesAdvance'
<1>1. \A c : Tried(child', c) = Tried(child, c)
  BY DEF Tried, Children
<1>2. \A c \in Clients : Fresh(c) => Cardinality(Tried(child', c)) = 0
  BY <1>1, FS_EmptySet DEF LInv, FreshInv, Tried, Children
<1>3. TryInv'
  <2> SUFFICES ASSUME NEW e \in Entries', client'[e].fd # NoFd, ~Fresh(client[e].fd)'
               PROVE  Cardinality(Tried(child', client'[e].fd))
                        <= Cardinality(Upto(asked'[client'[e].fd], client'[e].sysftell))
    BY DEF TryInv
  <2>1. CASE Fresh(client'[e].fd) /\ client'[e].fd \in Clients
    BY <1>2, <2>1, MatchesFinite
  <2>2. CASE ~(Fresh(client'[e].fd) /\ client'[e].fd \in Clients)
    <3>1. /\ e \in Entries /\ client'[e].fd = client[e].fd /\ ~Fresh(client[e].fd)
          /\ client'[e].sysftell = client[e].sysftell
      BY <2>2, Types
    <3>2. asked'[client[e].fd] = asked[client[e].fd]
      BY <3>1, Types
    <3> QED BY <1>1, <3>1, <3>2 DEF TryInv
  <2> QED BY <2>1, <2>2
<1>4. RetriesAdvance'
  <2> SUFFICES ASSUME NEW c \in Clients
               PROVE  Cardinality(Tried(child', c)) <=
                        IF asked'[c] = NoReq THEN 0 ELSE Cardinality(Matches(asked'[c]))
    BY DEF RetriesAdvance, Tried, Matches
  <2>1. CASE Fresh(c)
    BY <1>2, <2>1, MatchesFinite
  <2>2. CASE ~Fresh(c)
    BY <1>1, <2>2 DEF RetriesAdvance, Tried, Matches
  <2> QED BY <2>1, <2>2
<1> QED BY <1>3, <1>4

(* The fork: the matching line at which the search stopped had not been    *)
(* passed before.                                                          *)
LEMMA ForkTries ==
  ASSUME IInv, LInv, TryInv, RetriesAdvance, Fork, child' # child
  PROVE  TryInv' /\ RetriesAdvance'
<1> DEFINE c == client[i].fd
           q == Len(child) + 1
           new == [st |-> "waiting", fd |-> c, line |-> Line(Found), stat |-> 0]
           v == [client[i] EXCEPT !.sysftell = Found, !.pid = q]
<1>1. /\ dpc = "request" /\ client[i].sysftell # -1 /\ Callable(Found)
      /\ child' = Append(child, new)
      /\ client' = [client EXCEPT ![i].sysftell = Found, ![i].pid = q]
      /\ UNCHANGED <<conn, asked>>
  BY DEF Fork
<1>2. i \in Entries /\ c # NoFd /\ ~Fresh(c)
  BY <1>1 DEF LInv, Requesting, IInv, RequestInv, Entries
<1>3. client[i] \in EntryType
  BY <1>2, EntryTyped DEF Entries
<1>4. c \in Clients /\ client[i].sysftell \in Nat /\ Asked = asked[c] /\ asked[c] # NoReq
  BY <1>1, <1>2, <1>3 DEF EntryType, LInv, ReadInv, Asked, Fresh
<1>5. /\ Found \in Matches(asked[c]) /\ Found > client[i].sysftell /\ Found \in Nat
      /\ Line(Found) \in Lines
  BY <1>1, <1>4, FoundRight, FoundTyped, CalldAssumption DEF Found, Matches
<1>6. /\ Entries' = Entries /\ client'[i].fd = c /\ client'[i].sysftell = Found
      /\ \A e \in Entries : e # i => client'[e] = client[e]
  <2>1. client' = [client EXCEPT ![i] = v]
    <3> HIDE DEF q
    <3> QED BY <1>1, <1>2, <1>3 DEF EntryType
  <2>2. v.fd = c /\ v.sysftell = Found
    <3> HIDE DEF q
    <3> QED BY <1>3 DEF EntryType
  <2> HIDE DEF v
  <2> QED BY <1>2, <2>1, <2>2, EntrySet
<1>7. /\ Len(child) \in Nat /\ DOMAIN child = 1 .. Len(child)
      /\ DOMAIN child' = DOMAIN child \cup {q} /\ q \notin DOMAIN child
      /\ \A p \in DOMAIN child : child'[p] = child[p]
      /\ child'[q].fd = c
  <2>1. child \in Seq(ChildType) /\ new \in ChildType /\ new.fd = c
    BY <1>4, <1>5 DEF IInv, TypeOK, ChildType
  <2> HIDE DEF new
  <2> QED BY <1>1, <2>1, AppendProperties, LenProperties
<1> HIDE DEF q, new, v, c
<1>8. \A d : Tried(child', d) = IF d = c THEN Tried(child, d) \cup {q} ELSE Tried(child, d)
  BY <1>7 DEF Tried
<1>9. Cardinality(Tried(child', c)) = Cardinality(Tried(child, c)) + 1
  <2>1. q \notin Tried(child, c)
    BY <1>7 DEF Tried
  <2> QED BY <1>8, <2>1, TriedFinite, FS_AddElement
<1>10. Cardinality(Tried(child, c)) <= Cardinality(Upto(asked[c], client[i].sysftell))
  BY <1>2 DEF TryInv, c
<1>11. Cardinality(Upto(asked[c], client[i].sysftell)) + 1 <= Cardinality(Upto(asked[c], Found))
  <2> DEFINE before == Upto(asked[c], client[i].sysftell)
  <2>1. before \cup {Found} \in SUBSET Upto(asked[c], Found)
    BY <1>4, <1>5, CalldAssumption DEF Upto, Matches
  <2>2. Found \notin before
    BY <1>4, <1>5 DEF Upto
  <2>3. IsFiniteSet(before) /\ Cardinality(before) \in Nat /\ IsFiniteSet(Upto(asked[c], Found))
    BY MatchesFinite
  <2> HIDE DEF before
  <2>4. Cardinality(before \cup {Found}) = Cardinality(before) + 1
    BY <2>2, <2>3, FS_AddElement
  <2>5. Cardinality(before \cup {Found}) <= Cardinality(Upto(asked[c], Found))
    BY <2>1, <2>3, FS_Subset
  <2> QED BY <2>4, <2>5 DEF before
<1>12. /\ Cardinality(Tried(child, c)) \in Nat
       /\ Cardinality(Upto(asked[c], client[i].sysftell)) \in Nat
       /\ Cardinality(Upto(asked[c], Found)) \in Nat /\ Cardinality(Matches(asked[c])) \in Nat
       /\ Cardinality(Upto(asked[c], Found)) <= Cardinality(Matches(asked[c]))
  BY TriedFinite, MatchesFinite
<1>13. /\ Cardinality(Tried(child', c)) <= Cardinality(Upto(asked[c], Found))
       /\ Cardinality(Tried(child', c)) <= Cardinality(Matches(asked[c]))
  BY <1>9, <1>10, <1>11, <1>12
<1>14. TryInv'
  <2> SUFFICES ASSUME NEW e \in Entries', client'[e].fd # NoFd, ~Fresh(client[e].fd)'
               PROVE  Cardinality(Tried(child', client'[e].fd))
                        <= Cardinality(Upto(asked'[client'[e].fd], client'[e].sysftell))
    BY DEF TryInv
  <2>1. CASE e = i
    BY <1>1, <1>6, <1>13, <2>1
  <2>2. CASE e # i
    <3>1. e \in Entries /\ client'[e] = client[e] /\ client[e].fd # c
      BY <1>2, <1>6, <2>2 DEF LInv, OneEntry, c
    <3>2. ~Fresh(client[e].fd) /\ asked' = asked
      BY <1>1, <3>1 DEF Fresh
    <3> QED BY <1>8, <3>1, <3>2 DEF TryInv
  <2> QED BY <2>1, <2>2
<1>15. RetriesAdvance'
  <2> SUFFICES ASSUME NEW d \in Clients
               PROVE  Cardinality(Tried(child', d)) <=
                        IF asked'[d] = NoReq THEN 0 ELSE Cardinality(Matches(asked'[d]))
    BY DEF RetriesAdvance, Tried, Matches
  <2>1. asked' = asked
    BY <1>1
  <2>2. CASE d = c
    BY <1>4, <1>13, <2>1, <2>2
  <2>3. CASE d # c
    BY <1>8, <2>1, <2>3 DEF RetriesAdvance, Tried, Matches
  <2> QED BY <2>2, <2>3
<1> QED BY <1>14, <1>15

(* Every other step of the daemon, its clients and its children.           *)
LEMMA NextTries ==
  ASSUME IInv, LInv, TryInv, RetriesAdvance, [Next]_vars
  PROVE  TryInv' /\ RetriesAdvance'
<1>1. CASE UNCHANGED <<client, child>>
  <2>1. \A c \in Clients : ~Fresh(c) => asked'[c] = asked[c]
    <3>1. CASE \E c \in Clients, r \in Requests : Send(c, r)
      BY <3>1 DEF Send, Fresh, IInv, TypeOK
    <3>2. CASE ~\E c \in Clients, r \in Requests : Send(c, r)
      <4>1. UNCHANGED asked
        BY <3>2 DEF Next, Caller, Connect, Close, Daemon, Top, Enter, Listen, Accept, Select, ScanSkip,
           ScanRequest, ScanEof, PosnFails, GiveUp, Fork, LockSet, TellChild, ChildDone,
           ChildDoneSkip, ChildDoneOk, ChildDoneRetry, Child, SendFd, ExitOk, DialFails, DialPipe,
           Dies, sig_chld, vars
      <4> QED BY <4>1
    <3> QED BY <3>1, <3>2
  <2> QED BY <1>1, <2>1, SameTries DEF Entries, Children
<1>2. ASSUME NEW k \in Entries, NEW v, client' = [client EXCEPT ![k] = v],
             \/ v.fd = NoFd
             \/ v.fd = client[k].fd /\ v.sysftell = client[k].sysftell
             \/ v.fd \in Clients /\ Fresh(v.fd),
             UNCHANGED asked, Children' = Children,
             \A p \in Children : child'[p].fd = child[p].fd
      PROVE  TryInv' /\ RetriesAdvance'
  <2>1. /\ Entries' = Entries /\ client'[k] = v
        /\ \A e \in Entries : e # k => client'[e] = client[e]
    BY <1>2, EntrySet
  <2> QED BY <1>2, <2>1, SameTries
<1>3. ASSUME NEW q \in Children, NEW w, child' = [child EXCEPT ![q] = w], w.fd = child[q].fd
      PROVE  Children' = Children /\ \A p \in Children : child'[p].fd = child[p].fd
  BY <1>3, ChildSet
<1>4. ASSUME NEW c \in Clients, Accept(c), client' # client PROVE TryInv' /\ RetriesAdvance'
  <2>1. client_add(c) /\ UNCHANGED <<child, asked>> /\ conn[c].st = "queued"
    BY <1>4 DEF Accept, Queued
  <2>2. PICK k \in Entries' : /\ client'[k].fd = c
                              /\ \A e \in Entries : e # k => client'[e] = client[e]
                              /\ \A e \in Entries' \ Entries : e # k => client'[e].fd = NoFd
    BY <2>1, client_addShape
  <2>3. Fresh(c)
    BY <2>1 DEF LInv, FreshInv
  <2> QED BY <2>1, <2>2, <2>3, SameTries DEF Children
<1>5. CASE ScanRequest
  <2> DEFINE v == [client[i] EXCEPT !.req = asked[client[i].fd], !.childdone = 0, !.sysftell = 0]
  <2>1. client[i].fd \in Clients /\ i \in Entries /\ conn[client[i].fd].unread
    BY <1>5, LenProperties DEF IInv, TypeOK, ScanRequest, Scanning, Entries
  <2>2. client[i] \in EntryType
    BY <2>1, EntryTyped DEF Entries
  <2>3. client' = [client EXCEPT ![i] = v] /\ v.fd = client[i].fd
    BY <1>5, <2>1, <2>2 DEF ScanRequest, EntryType
  <2>4. UNCHANGED <<asked, child>>
    BY <1>5 DEF ScanRequest
  <2> HIDE DEF v
  <2> QED BY <1>2, <2>1, <2>3, <2>4 DEF Fresh, Children
<1>6. CASE ScanEof
  <2> DEFINE v == [client[i] EXCEPT !.fd = NoFd]
  <2>1. i \in Entries
    BY <1>6, LenProperties DEF IInv, TypeOK, ScanEof, Scanning, Entries
  <2>2. client[i] \in EntryType
    BY <2>1, EntryTyped DEF Entries
  <2>3. client' = [client EXCEPT ![i] = v] /\ v.fd = NoFd
    BY <1>6, <2>1, <2>2 DEF ScanEof, EntryType
  <2>4. UNCHANGED <<asked, child>>
    BY <1>6 DEF ScanEof
  <2> HIDE DEF v
  <2> QED BY <1>2, <2>1, <2>3, <2>4 DEF Children
<1>7. CASE GiveUp /\ client' # client
  <2> DEFINE v == [client[i] EXCEPT !.sysftell = Found, !.fd = NoFd]
  <2>1. i \in Entries
    BY <1>7 DEF IInv, RequestInv, GiveUp, Entries
  <2>2. client[i] \in EntryType
    BY <2>1, EntryTyped DEF Entries
  <2>3. Found \in Nat \cup {-1}
    BY <1>7, <2>2, FoundTyped DEF Found, GiveUp, EntryType
  <2>4. client' = [client EXCEPT ![i] = v] /\ v.fd = NoFd
    BY <1>7, <2>1, <2>2, <2>3 DEF GiveUp, EntryType
  <2>5. UNCHANGED <<asked, child>>
    BY <1>7 DEF GiveUp
  <2> HIDE DEF v
  <2> QED BY <1>2, <2>1, <2>4, <2>5 DEF Children
<1>8. CASE ChildDoneOk \/ ChildDoneRetry
  <2> DEFINE v == [client[i] EXCEPT !.childdone = 0]
  <2>1. i \in Entries
    BY <1>8, LenProperties DEF IInv, TypeOK, ChildDoneOk, ChildDoneRetry, Finished, Entries
  <2>2. client[i] \in EntryType
    BY <2>1, EntryTyped DEF Entries
  <2>3. /\ v.fd = client[i].fd /\ v.sysftell = client[i].sysftell
        /\ client' = [client EXCEPT ![i] = v]
    BY <1>8, <2>1, <2>2 DEF ChildDoneOk, ChildDoneRetry, EntryType
  <2>4. UNCHANGED <<asked, child>>
    BY <1>8 DEF ChildDoneOk, ChildDoneRetry
  <2> HIDE DEF v
  <2> QED BY <1>2, <2>1, <2>3, <2>4 DEF Children
<1>9. CASE TellChild
  <2> DEFINE q == client[i].pid
             w == [child[q] EXCEPT !.st = "dialing"]
  <2>1. q \in Children /\ child' = [child EXCEPT ![q] = w] /\ UNCHANGED <<client, asked>>
    BY <1>9 DEF TellChild, IInv, RequestInv, Children
  <2>2. child[q] \in ChildType
    BY <2>1, ElementOfSeq DEF IInv, TypeOK, Children
  <2>3. w.fd = child[q].fd
    BY <2>2 DEF ChildType
  <2> HIDE DEF q, w
  <2> QED BY <1>3, <2>1, <2>3, SameTries DEF Entries
<1>10. ASSUME NEW q \in Children, Child(q) PROVE TryInv' /\ RetriesAdvance'
  <2>1. child[q] \in ChildType
    BY ElementOfSeq DEF IInv, TypeOK, Children
  <2>2. PICK w : child' = [child EXCEPT ![q] = w] /\ w.fd = child[q].fd
    <3>1. CASE SendFd(q)
      <4> DEFINE w == [child[q] EXCEPT !.st = "sent"]
      <4>1. child' = [child EXCEPT ![q] = w] /\ w.fd = child[q].fd
        BY <2>1, <3>1 DEF SendFd, ChildType
      <4> QED BY <4>1
    <3>2. CASE \E x : Dies(q, x)
      <4>1. PICK x : Dies(q, x)
        BY <3>2
      <4> DEFINE w == [child[q] EXCEPT !.st = "zombie", !.stat = x]
      <4>2. child' = [child EXCEPT ![q] = w] /\ w.fd = child[q].fd
        BY <2>1, <4>1 DEF Dies, ChildType
      <4> QED BY <4>2
    <3> QED BY <1>10, <3>1, <3>2 DEF Child, ExitOk, DialFails, DialPipe
  <2>3. UNCHANGED <<client, asked>>
    BY <1>10 DEF Child, SendFd, ExitOk, DialFails, DialPipe, Dies
  <2> QED BY <1>3, <2>2, <2>3, SameTries DEF Entries
<1>11. ASSUME NEW q \in Children, sig_chld(q) PROVE TryInv' /\ RetriesAdvance'
  <2>1. PICK k \in Entries : client' = [client EXCEPT ![k].childdone = child[q].stat]
    BY <1>11, sig_chldShape
  <2>2. child' = [child EXCEPT ![q].st = "reaped"] /\ UNCHANGED asked
    BY <1>11, sig_chldShape
  <2>3. child[q] \in ChildType /\ client[k] \in EntryType
    BY ElementOfSeq, LenProperties DEF IInv, TypeOK, Children, Entries
  <2> DEFINE v == [client[k] EXCEPT !.childdone = child[q].stat]
             w == [child[q] EXCEPT !.st = "reaped"]
  <2>4. /\ v.fd = client[k].fd /\ v.sysftell = client[k].sysftell
        /\ w.fd = child[q].fd
    BY <2>3 DEF EntryType, ChildType
  <2>5. client' = [client EXCEPT ![k] = v] /\ child' = [child EXCEPT ![q] = w]
    BY <2>1, <2>2
  <2> HIDE DEF v, w
  <2>6. Children' = Children /\ \A p \in Children : child'[p].fd = child[p].fd
    BY <1>3, <2>4, <2>5
  <2> QED BY <1>2, <2>2, <2>4, <2>5, <2>6
<1>12. CASE Daemon /\ ~UNCHANGED <<client, child>>
  <2>1. \/ \E c \in Clients : Accept(c) /\ client' # client
        \/ ScanRequest \/ ScanEof \/ (GiveUp /\ client' # client)
        \/ (Fork /\ child' # child) \/ TellChild \/ ChildDoneOk \/ ChildDoneRetry
    BY <1>12 DEF Daemon, Top, Enter, Listen, Accept, Select, ScanSkip, PosnFails, GiveUp, Fork, LockSet,
       ChildDone, ChildDoneSkip
  <2> QED BY <1>4, <1>5, <1>6, <1>7, <1>8, <1>9, <2>1, ForkTries
<1>13. CASE (\E c \in Clients : Caller(c)) \/ UNCHANGED vars
  BY <1>1, <1>13 DEF Caller, Connect, Send, Close, vars
<1> QED BY <1>1, <1>10, <1>11, <1>12, <1>13 DEF Next, Children

(* With such clients a retry goes on "from where we left off": no line of  *)
(* the Systems file that matches is tried twice for one request.           *)
THEOREM RetriesGoOn ==
  ASSUME Hangup = "settled"
  PROVE  Spec => []RetriesAdvance
<1>1. Init => TryInv /\ RetriesAdvance
  <2> SUFFICES ASSUME Init PROVE TryInv /\ RetriesAdvance
    OBVIOUS
  <2>1. Entries = {} /\ \A c : Tried(child, c) = {}
    BY DEF Init, Entries, Tried
  <2>2. TryInv
    BY <2>1 DEF TryInv
  <2>3. \A c \in Clients : Cardinality(Tried(child, c)) = 0 /\ asked[c] = NoReq
    BY <2>1, FS_EmptySet DEF Init
  <2> QED BY <2>2, <2>3 DEF RetriesAdvance, Tried
<1>2. IInv /\ LInv /\ (TryInv /\ RetriesAdvance) /\ [Next]_vars => (TryInv /\ RetriesAdvance)'
  BY NextTries
<1> QED BY <1>1, <1>2, LinesInvariant, PTL DEF Spec

-----------------------------------------------------------------------------
(* The daemon has at most a connection for every client and four           *)
(* descriptors for every child it has forked.                              *)
LEMMA DescriptorsBounded ==
  ASSUME IInv, LInv, IsFiniteSet(Clients)
  PROVE  /\ Descriptors \in Nat
         /\ Descriptors <= Cardinality(Clients) + 4 * Len(child)
<1> DEFINE used == {e \in DOMAIN client : client[e].fd # NoFd}
           f == [e \in used |-> client[e].fd]
<1>1. /\ Len(child) \in Nat
      /\ \A e \in Entries : client[e].fd \in Clients \cup {NoFd}
  BY Types
<1>2. f \in Injection(used, Clients)
  BY <1>1 DEF Injection, IsInjective, LInv, OneEntry, Entries
<1> HIDE DEF used, f
<1>3. IsFiniteSet(used) /\ Cardinality(used) <= Cardinality(Clients)
  BY <1>2, FS_Injection
<1>4. Cardinality(used) \in Nat /\ Cardinality(Clients) \in Nat
  BY <1>3, FS_CardinalityType
<1>5. Descriptors = Cardinality(used) + 4 * Len(child)
  BY DEF Descriptors, used
<1> QED BY <1>1, <1>3, <1>4, <1>5

(* The number of children is bounded by MaxPid, and no step other than a   *)
(* failing serv_accept ends the daemon while it has descriptors for one    *)
(* child more.                                                             *)
LEMMA NextLives ==
  ASSUME Hangup = "settled", IsFiniteSet(Clients),
         OPEN_MAX >= Cardinality(Clients) + 4 * MaxPid + 4,
         IInv, LInv, Len(child) <= MaxPid, EndsAtAccept, [Next]_vars
  PROVE  Len(child') <= MaxPid /\ EndsAtAccept'
<1>1. /\ Len(child) \in Nat /\ OPEN_MAX \in Nat /\ MaxPid \in Nat
      /\ Cardinality(Clients) \in Nat
      /\ Descriptors + 4 <= OPEN_MAX /\ Descriptors + 1 <= OPEN_MAX
  <2>1. Len(child) \in Nat /\ OPEN_MAX \in Nat /\ MaxPid \in Nat
    BY Types, CalldAssumption
  <2>2. Cardinality(Clients) \in Nat
    BY FS_CardinalityType
  <2> QED BY <2>1, <2>2, DescriptorsBounded
<1>2. child \in Seq(ChildType) /\ caller \in {"scan", "cd"} /\ resume \in {"presel", "top"}
  BY DEF IInv, TypeOK
<1>3. Len(child') <= MaxPid
  <2>1. CASE Fork
    <3>1. CASE UNCHANGED child
      BY <3>1
    <3>2. CASE child' # child
      <4>1. PICK x : child' = Append(child, x) /\ Len(child) < MaxPid
        BY <2>1, <3>2 DEF Fork
      <4>2. Len(child') = Len(child) + 1
        BY <1>2, <4>1
      <4> QED BY <1>1, <4>1, <4>2
    <3> QED BY <3>1, <3>2
  <2>2. CASE ~Fork
    <3>1. child' = child \/ \E q, x : child' = [child EXCEPT ![q] = x]
      <4>1. CASE \E q \in Children : Child(q) \/ sig_chld(q)
        <5>1. PICK q \in Children : Child(q) \/ sig_chld(q)
          BY <4>1
        <5>2. child[q] \in ChildType
          BY ElementOfSeq DEF IInv, TypeOK, Children
        <5>3. CASE SendFd(q) \/ sig_chld(q)
          BY <5>3 DEF SendFd, sig_chld
        <5>4. CASE \E x : Dies(q, x)
          <6>1. PICK x : Dies(q, x)
            BY <5>4
          <6>2. child' = [child EXCEPT ![q] = [child[q] EXCEPT !.st = "zombie", !.stat = x]]
            BY <5>2, <6>1 DEF Dies, ChildType
          <6> QED BY <6>2
        <5> QED BY <5>1, <5>3, <5>4 DEF Child, ExitOk, DialFails, DialPipe
      <4>2. CASE TellChild
        BY <4>2 DEF TellChild
      <4>3. CASE ~(\E q \in Children : Child(q) \/ sig_chld(q)) /\ ~TellChild
        BY <2>2, <4>3 DEF Next, Children, vars, Caller, Connect, Send, Close, Daemon, Top, Enter,
           Listen, Accept, Select, ScanSkip, ScanRequest, ScanEof, PosnFails, GiveUp, LockSet, ChildDone,
           ChildDoneSkip, ChildDoneOk, ChildDoneRetry
      <4> QED BY <4>1, <4>2, <4>3
    <3>2. Len(child') = Len(child)
      BY <1>2, <3>1
    <3> QED BY <3>2
  <2> QED BY <2>1, <2>2
<1>4. dpc = "request" => /\ client[i].sysftell # -1
                         /\ ~conn[client[i].fd].closed
  <2> SUFFICES ASSUME dpc = "request"
               PROVE  client[i].sysftell # -1 /\ ~conn[client[i].fd].closed
    OBVIOUS
  <2>1. /\ i \in Entries /\ client[i].fd # NoFd /\ ~Fresh(client[i].fd)
        /\ got[client[i].fd] = << >>
    BY DEF LInv, Requesting, IInv, RequestInv, Entries
  <2>2. client[i].fd \in Clients
    BY <2>1, Types
  <2>3. client[i].sysftell \in Nat
    BY <2>1 DEF LInv, ReadInv
  <2> QED BY <2>1, <2>2, <2>3 DEF LInv, ClosedSettled
<1>5. EndsAtAccept'
  <2>1. CASE \E q \in Children : sig_chld(q)
    <3>1. dpc' \in {dpc, "child_done", "no_accept"}
      BY <2>1, sig_chldShape
    <3> QED BY <3>1 DEF EndsAtAccept
  <2>2. CASE (\E c \in Clients : Caller(c)) \/ (\E q \in Children : Child(q)) \/ UNCHANGED vars
    BY <2>2 DEF EndsAtAccept, Caller, Connect, Send, Close, Child, SendFd, ExitOk, DialFails,
       DialPipe, Dies, daemon, vars
  <2>3. CASE Daemon
    <3>1. CASE (\E c \in Clients : Accept(c)) \/ Fork
      <4>1. ~(Descriptors + 1 > OPEN_MAX) /\ ~(Descriptors + 4 > OPEN_MAX)
        <5>1. Descriptors \in Nat
          BY DescriptorsBounded
        <5> QED BY <1>1, <5>1
      <4> QED BY <3>1, <4>1 DEF Accept, AcceptFails, Fork, EndsAtAccept
    <3>2. CASE PosnFails \/ GiveUp
      BY <1>2, <1>4, <3>2 DEF PosnFails, GiveUp, EndsAtAccept, Continue
    <3>3. CASE ~((\E c \in Clients : Accept(c)) \/ Fork) /\ ~(PosnFails \/ GiveUp)
      BY <1>2, <2>3, <3>3 DEF Daemon, EndsAtAccept, Top, Enter, Listen, Select, ScanSkip, ScanRequest,
         ScanEof, LockSet, TellChild, ChildDone, ChildDoneSkip, ChildDoneOk, ChildDoneRetry,
         Continue, CallRequest
    <3> QED BY <3>1, <3>2, <3>3
  <2> QED BY <2>1, <2>2, <2>3 DEF Next, Children
<1> QED BY <1>3, <1>5

(* With such clients, and while it has descriptors for one child more, the *)
(* daemon ends only where serv_accept fails (loop.c:49-50), by a signal or *)
(* by what it finds of a client: once a client is accepted, sys_posn is    *)
(* not called with a bad position for it, no write meets a closed socket,  *)
(* and the handler finds the entry of every child (request.c, client.c,    *)
(* sigchld.c).                                                             *)
THEOREM DaemonEndsAtAccept ==
  ASSUME Hangup = "settled", IsFiniteSet(Clients),
         OPEN_MAX >= Cardinality(Clients) + 4 * MaxPid + 4
  PROVE  Spec => []EndsAtAccept
<1> DEFINE Lives == Len(child) <= MaxPid /\ EndsAtAccept
<1>1. Init => Lives
  BY CalldAssumption DEF Init, EndsAtAccept
<1>2. IInv /\ LInv /\ Lives /\ [Next]_vars => Lives'
  BY NextLives
<1> QED BY <1>1, <1>2, LinesInvariant, PTL DEF Spec
===============================================================================
