------------------------------- MODULE Calld --------------------------------
(***************************************************************************)
(* The modem dialing daemon of AP_UNIX/chapter18: one select loop serves   *)
(* the connected clients (loop.c, client.c), looks up the system to call   *)
(* and locks a line for it (request.c, sysfile.c, devfile.c, lock.c),      *)
(* forks a child that dials and passes the open line to the client         *)
(* (childdial.c), and is told of the child's end by a SIGCHLD handler that *)
(* may run between any two of its steps (sigchld.c).                       *)
(*                                                                         *)
(* A client is a "call" process: one connection, one well-formed request.  *)
(* Clients name their connections, so fd fields hold a client or NoFd.     *)
(* The contents of messages, the Dialers file and the terminal are         *)
(* abstracted: a child's dialing succeeds or fails.                        *)
(***************************************************************************)
EXTENDS Integers, Sequences, FiniteSetsExt

CONSTANTS
  Clients,   \* client processes
  Systems,   \* the Systems file: a sequence of [name, type, class]
  Devices,   \* the Devices file: a sequence of [type, class, line]
  Requests,  \* what clients ask for: a set of [sysname, speed]
  AnySpeed,  \* the speed of a request without the -s option
  NALLOC,    \* entries by which client[] grows
  OPEN_MAX,  \* descriptors the daemon has for connections and pipes
  MaxPid,    \* bound on the children forked
  Hangup,    \* when a client closes: "any" time, once it is "answered", or
             \* once its child's end is "settled" as well
  NoFd, NoReq

ASSUME CalldAssumption ==
  /\ Len(Systems) \in Nat /\ DOMAIN Systems = 1 .. Len(Systems)
  /\ Len(Devices) \in Nat /\ DOMAIN Devices = 1 .. Len(Devices)
  /\ NALLOC \in Nat \ {0} /\ OPEN_MAX \in Nat /\ MaxPid \in Nat
  /\ Hangup \in {"any", "answered", "settled"}
  /\ NoFd \notin Clients /\ NoReq \notin Requests

VARIABLES
  dpc,        \* the daemon's next step
  i,          \* the entry of client[] that its loop is at
  caller,     \* the loop that called request(): "scan" or "cd"
  resume,     \* where child_done() returns to: "presel" or "top"
  rset,       \* connections that select() found readable
  chld_flag,  \* set by the handler
  client,     \* client[]
  lock,       \* lock[]: the process that has locked each line, or 0
  sigchld,    \* SIGCHLD is pending
  child,      \* child[pid]: the children forked so far
  conn,       \* conn[c]: the connection of client c
  asked,      \* asked[c]: the request that c has sent
  got         \* got[c]: the final replies that c's socket has received

daemon == <<dpc, i, caller, resume, rset>>
vars   == <<daemon, chld_flag, client, lock, sigchld, child, conn, asked, got>>

Lines == {Devices[n].line : n \in DOMAIN Devices}

(* An error message is not the name of a line.                             *)
ASSUME LinesAssumption == "err" \notin Lines

(* The fields of a Client that matter; client_alloc sets fd only, and      *)
(* fresh memory is zero.                                                   *)
NewEntry == [fd |-> NoFd, pid |-> 0, childdone |-> 0, sysftell |-> 0, req |-> NoReq]

Init ==
  /\ dpc = "top" /\ i = 1 /\ caller = "scan" /\ resume = "top" /\ rset = {}
  /\ chld_flag = FALSE
  /\ client = << >>
  /\ lock = [l \in Lines |-> 0]
  /\ sigchld = FALSE
  /\ child = << >>
  /\ conn = [c \in Clients |-> [st |-> "out", unread |-> FALSE, closed |-> FALSE]]
  /\ asked = [c \in Clients |-> NoReq]
  /\ got = [c \in Clients |-> << >>]

-----------------------------------------------------------------------------
(* Clients (call.c, client-main.c).                                        *)

(* cli_conn: the connection is in the listen queue.                        *)
Connect(c) ==
  /\ conn[c].st = "out"
  /\ conn' = [conn EXCEPT ![c].st = "queued"]
  /\ UNCHANGED <<daemon, chld_flag, client, lock, sigchld, child, asked, got>>

(* call: one writev of the request.                                        *)
Send(c, r) ==
  /\ conn[c].st \in {"queued", "open"} /\ ~conn[c].closed
  /\ asked[c] = NoReq
  /\ asked' = [asked EXCEPT ![c] = r]
  /\ conn' = [conn EXCEPT ![c].unread = TRUE]
  /\ UNCHANGED <<daemon, chld_flag, client, lock, sigchld, child, got>>

(* Every child forked for c has been reaped and child_done has seen it.    *)
Settled(c) ==
  /\ \A p \in DOMAIN child : child[p].fd = c => child[p].st = "reaped"
  /\ \A e \in DOMAIN client : client[e].fd = c => client[e].childdone = 0

(* The process ends: recv_fd returned an error, the session is over, or,   *)
(* when Hangup is "any", the user interrupted it.                          *)
Close(c) ==
  /\ conn[c].st # "out" /\ ~conn[c].closed
  /\ Hangup # "any" => got[c] # << >>
  /\ Hangup = "settled" => Settled(c)
  /\ conn' = [conn EXCEPT ![c].closed = TRUE]
  /\ UNCHANGED <<daemon, chld_flag, client, lock, sigchld, child, asked, got>>

-----------------------------------------------------------------------------
(* The lookup.                                                             *)

(* dev_find: the first device of that type and class, or 0.                *)
dev_find(s) ==
  LET hits == {n \in DOMAIN Devices : Devices[n].type = s.type /\ Devices[n].class = s.class}
  IN  IF hits = {} THEN 0 ELSE Min(hits)

Line(n) == Devices[dev_find(Systems[n])].line

Match(r, s) == r.sysname = s.name /\ r.speed \in {AnySpeed, s.class}

(* Mutant of sys_next: the search starts over.                             *)
sys_nextRewinds(r, from, lk) ==
  LET stops == {n \in DOMAIN Systems :
                  /\ Match(r, Systems[n])
                  /\ dev_find(Systems[n]) = 0 \/ lk[Line(n)] = 0}
  IN  IF stops = {} THEN -1 ELSE Min(stops)

(* Mutant of sys_next: is_locked is not called.                            *)
sys_nextLocked(r, from, lk) ==
  LET stops == {n \in from + 1 .. Len(Systems) : Match(r, Systems[n])}
  IN  IF stops = {} THEN -1 ELSE Min(stops)

(* The while loop of request(): the next line of the Systems file, after   *)
(* line from, that matches and whose device is missing or not locked; the  *)
(* position is -1 when there is none.                                      *)
sys_next(r, from, lk) ==
  LET stops == {n \in from + 1 .. Len(Systems) :
                  /\ Match(r, Systems[n])
                  /\ dev_find(Systems[n]) = 0 \/ lk[Line(n)] = 0}
  IN  IF stops = {} THEN -1 ELSE Min(stops)

(* The search stopped at a line that has a device.                         *)
Callable(n) == IF n = -1 THEN FALSE ELSE dev_find(Systems[n]) # 0

(* Mutant of lock_rel: nothing is released.                                *)
lock_relNothing(lk, pid) == lk

(* Mutant of lock_rel: every line is released.                             *)
lock_relAll(lk, pid) == [l \in Lines |-> 0]

(* lock_rel; the available entries have pid 0 already.                     *)
lock_rel(lk, pid) == [l \in Lines |-> IF lk[l] = pid THEN 0 ELSE lk[l]]

(* Descriptors in use: a connection each, and the two pipes of every       *)
(* TELL_WAIT, which nothing closes.                                        *)
Descriptors ==
  Cardinality({e \in DOMAIN client : client[e].fd # NoFd}) + 4 * Len(child)

(* exit(): log_sys, log_quit, err_sys, or death by SIGPIPE.                *)
Exit == dpc' = "exit" /\ UNCHANGED <<i, caller, resume, rset>>

(* The exit() of loop() itself, when serv_accept has returned an error.    *)
AcceptFails == dpc' = "no_accept" /\ UNCHANGED <<i, caller, resume, rset>>

Ended == dpc \in {"exit", "no_accept"}

Continue(label) ==
  /\ dpc' = label /\ i' = i + 1
  /\ UNCHANGED <<caller, resume, rset>>

-----------------------------------------------------------------------------
(* request(), called for entry i by loop() ("scan") or child_done() ("cd"),*)
(* and what the caller does with its result.                               *)

Asked == client[i].req
Found == sys_next(Asked, client[i].sysftell, lock)

(* sys_posn(-1): fseek error, log_sys.                                     *)
PosnFails ==
  /\ dpc = "request" /\ client[i].sysftell = -1
  /\ Exit
  /\ UNCHANGED <<chld_flag, client, lock, sigchld, child, conn, asked, got>>

(* No line, or no device for it: send_err and cli_done.                    *)
GiveUp ==
  LET c == client[i].fd
  IN  /\ dpc = "request" /\ client[i].sysftell # -1
      /\ ~Callable(Found)
      /\ \/ /\ conn[c].closed       \* the write raises SIGPIPE
            /\ Exit
            /\ UNCHANGED <<client, conn, got>>
         \/ /\ ~conn[c].closed
            /\ got' = [got EXCEPT ![c] = Append(@, "err")]
            /\ client' = [client EXCEPT ![i].sysftell = Found, ![i].fd = NoFd]
            /\ conn' = [conn EXCEPT ![c].st = "dropped"]
            /\ Continue(caller)
      /\ UNCHANGED <<chld_flag, lock, sigchld, child, asked>>

(* TELL_WAIT and fork; the child waits for TELL_CHILD.                     *)
Fork ==
  /\ dpc = "request" /\ client[i].sysftell # -1
  /\ Callable(Found)
  /\ \/ /\ Descriptors + 4 > OPEN_MAX      \* pipe fails, err_sys
        /\ Exit
        /\ UNCHANGED <<client, child>>
     \/ /\ Descriptors + 4 <= OPEN_MAX
        /\ Len(child) < MaxPid
        /\ child' = Append(child, [st |-> "waiting", fd |-> client[i].fd,
                                   line |-> Line(Found), stat |-> 0])
        /\ client' = [client EXCEPT ![i].sysftell = Found, ![i].pid = Len(child) + 1]
        /\ dpc' = "lock"
        /\ UNCHANGED <<i, caller, resume, rset>>
  /\ UNCHANGED <<chld_flag, lock, sigchld, conn, asked, got>>

(* A loop calls request().                                                 *)
CallRequest(label) ==
  /\ dpc' = "request" /\ caller' = label
  /\ UNCHANGED <<i, resume, rset>>

(* Mutant of LockSet: the line is not locked.                              *)
LockSetSkipped ==
  /\ dpc = "lock"
  /\ dpc' = "tell"
  /\ UNCHANGED <<i, caller, resume, rset, chld_flag, client, lock, sigchld, child, conn, asked, got>>

LockSet ==
  /\ dpc = "lock"
  /\ lock' = [lock EXCEPT ![child[client[i].pid].line] = client[i].pid]
  /\ dpc' = "tell"
  /\ UNCHANGED <<i, caller, resume, rset, chld_flag, client, sigchld, child, conn, asked, got>>

(* TELL_CHILD; request() returns 0 and the caller's loop goes on.          *)
TellChild ==
  /\ dpc = "tell"
  /\ child' = [child EXCEPT ![client[i].pid].st = "dialing"]
  /\ Continue(caller)
  /\ UNCHANGED <<chld_flag, client, lock, sigchld, conn, asked, got>>

-----------------------------------------------------------------------------
(* loop().                                                                 *)

Top ==
  /\ dpc = "top"
  /\ IF chld_flag THEN dpc' = "child_done" /\ resume' = "presel"
                  ELSE dpc' = "presel" /\ UNCHANGED resume
  /\ UNCHANGED <<i, caller, rset, chld_flag, client, lock, sigchld, child, conn, asked, got>>

(* The daemon enters select().                                             *)
Enter ==
  /\ dpc = "presel" /\ dpc' = "select"
  /\ UNCHANGED <<i, caller, resume, rset, chld_flag, client, lock, sigchld, child, conn, asked, got>>

Queued   == {c \in Clients : conn[c].st = "queued"}
Readable == {c \in Clients : conn[c].st = "open" /\ (conn[c].unread \/ conn[c].closed)}

(* select() reports a connection request: nothing else is served.          *)
Listen ==
  /\ dpc = "select" /\ Queued # {}
  /\ dpc' = "accept"
  /\ UNCHANGED <<i, caller, resume, rset, chld_flag, client, lock, sigchld, child, conn, asked, got>>

(* What serv_accept may return for a client: -1 when there is no           *)
(* descriptor for accept() (and when a signal interrupts it, see           *)
(* Interrupted); with one, 0 for the new descriptor, or an error when the  *)
(* client's name cannot be examined (-2), is not a socket (-3), has the    *)
(* wrong mode (-4) or is older than STALE seconds (-5).                    *)
serv_accept == IF Descriptors + 1 > OPEN_MAX THEN {-1} ELSE {0, -2, -3, -4, -5}

(* client_add: the first available entry, whose other fields keep what the *)
(* previous client left there.                                             *)
client_add(c) ==
  LET free == {e \in DOMAIN client : client[e].fd = NoFd}
      cs   == IF free # {} THEN client ELSE client \o [n \in 1 .. NALLOC |-> NewEntry]
      e    == IF free # {} THEN Min(free) ELSE Len(client) + 1
  IN  client' = [cs EXCEPT ![e].fd = c]

(* loop() adds the client, or gives up: every error of serv_accept is one  *)
(* of log_sys.                                                             *)
Accept(c) ==
  /\ dpc = "accept" /\ c \in Queued
  /\ \E r \in serv_accept :
       \/ /\ r < 0 /\ AcceptFails
          /\ UNCHANGED <<client, conn>>
       \/ /\ r = 0 /\ client_add(c)
          /\ conn' = [conn EXCEPT ![c].st = "open"]
          /\ dpc' = "top" /\ UNCHANGED <<i, caller, resume, rset>>
  /\ UNCHANGED <<chld_flag, lock, sigchld, child, asked, got>>

Select ==
  /\ dpc = "select" /\ Queued = {} /\ Readable # {}
  /\ rset' = Readable /\ i' = 1 /\ dpc' = "scan"
  /\ UNCHANGED <<caller, resume, chld_flag, client, lock, sigchld, child, conn, asked, got>>

(* The for loop over client[].                                             *)
ScanSkip ==
  /\ dpc = "scan"
  /\ IF i > Len(client)
     THEN dpc' = "top" /\ rset' = {} /\ UNCHANGED <<i, caller, resume>>
     ELSE client[i].fd \notin rset /\ Continue("scan")
  /\ UNCHANGED <<chld_flag, client, lock, sigchld, child, conn, asked, got>>

Scanning == dpc = "scan" /\ i <= Len(client) /\ client[i].fd \in rset

(* The request is read, its options are saved, and request() is called.    *)
ScanRequest ==
  LET c == client[i].fd
  IN  /\ Scanning /\ conn[c].unread
      /\ client' = [client EXCEPT ![i].req = asked[c], ![i].childdone = 0, ![i].sysftell = 0]
      /\ conn' = [conn EXCEPT ![c].unread = FALSE]
      /\ CallRequest("scan")
      /\ UNCHANGED <<chld_flag, lock, sigchld, child, asked, got>>

(* End of file: the device lock is released and the entry freed.           *)
ScanEof ==
  LET c == client[i].fd
  IN  /\ Scanning /\ ~conn[c].unread /\ conn[c].closed
      /\ lock' = lock_rel(lock, client[i].pid)
      /\ client' = [client EXCEPT ![i].fd = NoFd]
      /\ conn' = [conn EXCEPT ![c].st = "dropped"]
      /\ Continue("scan")
      /\ UNCHANGED <<chld_flag, sigchld, child, asked, got>>

-----------------------------------------------------------------------------
(* child_done().                                                           *)

ChildDone ==
  /\ dpc = "child_done"
  /\ chld_flag' = FALSE /\ i' = 1 /\ dpc' = "cd"
  /\ UNCHANGED <<caller, resume, rset, client, lock, sigchld, child, conn, asked, got>>

(* At the end, more SIGCHLDs may have been caught.                         *)
ChildDoneSkip ==
  /\ dpc = "cd"
  /\ IF i > Len(client)
     THEN /\ dpc' = IF chld_flag THEN "child_done" ELSE resume
          /\ UNCHANGED <<i, caller, resume, rset>>
     ELSE /\ client[i].fd = NoFd \/ client[i].childdone = 0
          /\ Continue("cd")
  /\ UNCHANGED <<chld_flag, client, lock, sigchld, child, conn, asked, got>>

Finished == dpc = "cd" /\ i <= Len(client) /\ client[i].fd # NoFd

ChildDoneOk ==
  /\ Finished /\ client[i].childdone = 1
  /\ client' = [client EXCEPT ![i].childdone = 0]
  /\ Continue("cd")
  /\ UNCHANGED <<chld_flag, lock, sigchld, child, conn, asked, got>>

(* The child failed: unlock the line and try the next one.                 *)
ChildDoneRetry ==
  /\ Finished /\ client[i].childdone > 1
  /\ client' = [client EXCEPT ![i].childdone = 0]
  /\ lock' = lock_rel(lock, client[i].pid)
  /\ CallRequest("cd")
  /\ UNCHANGED <<chld_flag, sigchld, child, conn, asked, got>>

-----------------------------------------------------------------------------
(* sig_chld interrupts the daemon, reaps one child and looks for its       *)
(* client.                                                                 *)

Zombies == {p \in DOMAIN child : child[p].st = "zombie"}

(* The handler returns to where the daemon was; select() gives EINTR, and  *)
(* so may accept(), which serv_accept returns as -1.                       *)
Interrupted ==
  IF dpc = "select"
  THEN dpc' = "child_done" /\ resume' = "top" /\ UNCHANGED <<i, caller, rset>>
  ELSE \/ UNCHANGED daemon
       \/ dpc = "accept" /\ AcceptFails

(* Mutant of client_sigchld: the last entry is not searched.               *)
client_sigchldShort(p) ==
  LET hits == {e \in DOMAIN client : client[e].pid = p /\ e < Len(client)}
  IN  \/ /\ hits # {}
         /\ client' = [client EXCEPT ![Min(hits)].childdone = child[p].stat]
         /\ Interrupted
      \/ hits = {} /\ Exit /\ UNCHANGED client

(* client_sigchld: the first entry with that pid, connected or not.        *)
client_sigchld(p) ==
  LET hits == {e \in DOMAIN client : client[e].pid = p}
  IN  \/ /\ hits # {}
         /\ client' = [client EXCEPT ![Min(hits)].childdone = child[p].stat]
         /\ Interrupted
      \/ hits = {} /\ Exit /\ UNCHANGED client      \* log_quit

(* Mutant of sig_chld: it loops over waitpid, and the signal of the last   *)
(* child that it reaped is still pending when it returns.                  *)
sig_chldAll(p) ==
  /\ ~Ended /\ sigchld
  /\ p \in Zombies
  /\ sigchld' = (Cardinality(Zombies) > 1) /\ chld_flag' = TRUE
  /\ child' = [q \in DOMAIN child |->
                 IF q \in Zombies THEN [child[q] EXCEPT !.st = "reaped"] ELSE child[q]]
  /\ UNCHANGED <<daemon, client, lock, conn, asked, got>>

sig_chld(p) ==
  /\ ~Ended /\ sigchld
  /\ p \in Zombies
  /\ sigchld' = FALSE /\ chld_flag' = TRUE
  /\ child' = [child EXCEPT ![p].st = "reaped"]
  /\ \/ /\ child[p].stat # 0 /\ client_sigchld(p)
     \/ /\ child[p].stat = 0 /\ UNCHANGED client       \* killed by a signal
        /\ Interrupted
  /\ UNCHANGED <<lock, conn, asked, got>>

-----------------------------------------------------------------------------
(* child_dial().                                                           *)

Dies(p, stat) ==
  /\ child' = [child EXCEPT ![p].st = "zombie", ![p].stat = stat]
  /\ sigchld' = TRUE
  /\ UNCHANGED <<daemon, chld_flag, client, lock, conn, asked>>

Gone(p) == conn[child[p].fd].closed

(* send_fd passes the line to the client; exit(0) follows.                 *)
SendFd(p) ==
  /\ child[p].st = "dialing" /\ ~Gone(p)
  /\ child' = [child EXCEPT ![p].st = "sent"]
  /\ got' = [got EXCEPT ![child[p].fd] = Append(@, child[p].line)]
  /\ UNCHANGED <<daemon, chld_flag, client, lock, sigchld, conn, asked>>

ExitOk(p) == child[p].st = "sent" /\ Dies(p, 1) /\ UNCHANGED got

(* Mutant of DialFails: the child calls send_err.                          *)
DialFailsSendErr(p) ==
  /\ child[p].st = "dialing" /\ ~Gone(p) /\ Dies(p, 2)
  /\ got' = [got EXCEPT ![child[p].fd] = Append(@, "err")]

(* The message is written to the client and exit(1) called, or log_sys     *)
(* calls exit(2), which needs no client.                                   *)
DialFails(p) == child[p].st = "dialing" /\ Dies(p, 2) /\ UNCHANGED got

(* The client has closed: writen or sendmsg raises SIGPIPE.                *)
DialPipe(p) == child[p].st = "dialing" /\ Gone(p) /\ Dies(p, 0) /\ UNCHANGED got

-----------------------------------------------------------------------------
Caller(c) == Connect(c) \/ (\E r \in Requests : Send(c, r)) \/ Close(c)

Daemon ==
  \/ Top \/ Enter \/ Listen \/ (\E c \in Clients : Accept(c)) \/ Select
  \/ ScanSkip \/ ScanRequest \/ ScanEof
  \/ PosnFails \/ GiveUp \/ Fork \/ LockSet \/ TellChild
  \/ ChildDone \/ ChildDoneSkip \/ ChildDoneOk \/ ChildDoneRetry

Child(p) == SendFd(p) \/ ExitOk(p) \/ DialFails(p) \/ DialPipe(p)

Next ==
  \/ \E c \in Clients : Caller(c)
  \/ Daemon
  \/ \E p \in DOMAIN child : Child(p) \/ sig_chld(p)

Spec == Init /\ [][Next]_vars

(* The daemon runs, a pending signal is delivered, and, by assumption on   *)
(* the modem, dialing ends.                                                *)
FairSpec ==
  /\ Spec /\ WF_vars(Daemon)
  /\ \A p \in 1 .. MaxPid : /\ WF_vars(p \in DOMAIN child /\ Child(p))
                            /\ WF_vars(p \in DOMAIN child /\ sig_chld(p))
-----------------------------------------------------------------------------
(* Properties.                                                             *)

Labels == {"top", "presel", "select", "accept", "scan", "request", "lock", "tell",
           "child_done", "cd", "exit", "no_accept"}

EntryType == [fd : Clients \cup {NoFd}, pid : Nat, childdone : 0 .. 2,
              sysftell : Nat \cup {-1}, req : Requests \cup {NoReq}]

ChildType == [st : {"waiting", "dialing", "sent", "zombie", "reaped"},
              fd : Clients \cup {NoFd}, line : Lines, stat : 0 .. 2]

ConnType == [st : {"out", "queued", "open", "dropped"}, unread : BOOLEAN, closed : BOOLEAN]

(* The variables have their types.                                         *)
TypeOK ==
  /\ dpc \in Labels /\ i \in Nat \ {0} /\ caller \in {"scan", "cd"} /\ resume \in {"presel", "top"}
  /\ rset \subseteq Clients
  /\ chld_flag \in BOOLEAN /\ sigchld \in BOOLEAN
  /\ client \in Seq(EntryType)
  /\ child \in Seq(ChildType)
  /\ lock \in [Lines -> Nat]
  /\ conn \in [Clients -> ConnType]
  /\ asked \in [Clients -> Requests \cup {NoReq}]
  /\ got \in [Clients -> Seq(Lines \cup {"err"})]

(* request() works on an entry of client[]; from fork to TELL_CHILD the    *)
(* child it has recorded there waits, and lock_set has locked its line.    *)
RequestInv ==
  /\ dpc \in {"request", "lock", "tell"} => i \in DOMAIN client
  /\ dpc \in {"lock", "tell"} => /\ client[i].pid \in DOMAIN child
                                /\ child[client[i].pid].st = "waiting"
  /\ dpc = "tell" => lock[child[client[i].pid].line] = client[i].pid

(* Processes that have, or may have, line l open.                          *)
Dialers(l)  == {p \in DOMAIN child : child[p].st \in {"dialing", "sent"} /\ child[p].line = l}
Sessions(l) == {c \in Clients : ~conn[c].closed /\ \E n \in DOMAIN got[c] : got[c][n] = l}

(* "We lock by line": a line is dialed by one child at a time, used by one *)
(* client at a time, and not dialed for anyone else while it is in use.    *)
LineExclusive ==
  \A l \in Lines :
    /\ Cardinality(Dialers(l)) <= 1 /\ Cardinality(Sessions(l)) <= 1
    /\ \A p \in Dialers(l), c \in Sessions(l) : child[p].fd = c

(* What ends the daemon is a failing serv_accept (loop.c:49-50), and that  *)
(* only: once a client has been accepted, no request, retry, hangup within *)
(* Hangup or child of it does, whatever the handler finds in client[].     *)
EndsAtAccept == dpc # "exit"

(* A client gets at most one final reply, only after it has asked, and a   *)
(* line it gets is one that the files name for the system it asked for.    *)
AnswersMatch ==
  \A c \in Clients : got[c] # << >> =>
    /\ Len(got[c]) = 1 /\ asked[c] # NoReq
    /\ \/ got[c][1] = "err"
       \/ \E n \in DOMAIN Systems : /\ Match(asked[c], Systems[n])
                                   /\ dev_find(Systems[n]) # 0
                                   /\ Line(n) = got[c][1]

(* No line stays locked for a client that has gone: the process in lock[]  *)
(* is the one recorded for a connected client.                             *)
LocksOwned ==
  \A l \in Lines : lock[l] # 0 =>
    \E e \in DOMAIN client : client[e].fd # NoFd /\ client[e].pid = lock[l]

(* A retry goes on "from where we left off": no matching line of the       *)
(* Systems file is tried twice for a request.                              *)
RetriesAdvance ==
  \A c \in Clients :
    Cardinality({p \in DOMAIN child : child[p].fd = c}) <=
      IF asked[c] = NoReq THEN 0
      ELSE Cardinality({n \in DOMAIN Systems : Match(asked[c], Systems[n])})

(* Although fork comes before lock_set, a child starts to dial only when   *)
(* its line is locked in its name.                                         *)
DialStarts ==
  [][\A p \in DOMAIN child :
       child[p].st = "waiting" /\ child'[p].st # "waiting" => lock[child[p].line] = p]_child

(* The lock lasts while the child dials for a client that is connected:    *)
(* neither another client's end nor a retry for one releases it.           *)
DialsUnderLock ==
  \A l \in Lines : \A p \in Dialers(l) :
    (\E e \in DOMAIN client : client[e].fd = child[p].fd /\ client[e].pid = p) => lock[l] = p

(* The waitpid in sig_chld finds a child to reap and does not block the    *)
(* daemon, whatever the children do while earlier ones are reaped.         *)
HandlerReturns == sigchld /\ ~Ended => Zombies # {}

(* A child that has terminated is reaped, unless the daemon ends.          *)
Reaped == \A p \in 1 .. MaxPid : (p \in Zombies) ~> (p \notin Zombies \/ Ended)
=============================================================================
