----------------------------- MODULE OpenServer -----------------------------
(***************************************************************************)
(* The open daemon of AP_UNIX: opend-daemonServ.c with the select loop of  *)
(* opend-select.c or the poll loop of opend-poll.c, the client[] array of  *)
(* opend-daemon.c, request of opend-request.c and the connections of       *)
(* cs_43pbsd.c; its clients run open-cli.c with csopen of open-daemon.c.   *)
(* A request and a reply are one item each (module FdPass has the bytes);  *)
(* names are shorter than MAXLINE less the rest of the request.            *)
(***************************************************************************)
EXTENDS Integers, Sequences, FiniteSets, FiniteSetsExt, SequencesExt

CONSTANTS
  Clients, Names,   \* client processes, and names they ask for
  Openable,         \* the names open() succeeds for
  NALLOC,           \* entries client_alloc adds
  MaxAsks           \* bound: requests of one client

VARIABLES
  mux,      \* which loop the daemon was built with: "select" or "poll"
  spc,      \* the daemon: "wait", "accept", "scan", "dead"
  client,   \* client[]: sequence of descriptors, Free where available
  maxi,     \* index of the last entry looked at (entries count from 1)
  allset,   \* descriptors select or poll watches
  rset,     \* descriptors found readable
  scan,     \* entry the scan is at
  backlog,  \* clients that connected and were not accepted yet
  fdOf,     \* fdOf[c]: the daemon's descriptor for c, or Free
  cpc,      \* cpc[c]: "start", "conn", "asked", "gone"
  toServ, toCli,  \* toServ[c], toCli[c]: requests and replies under way
  asks,     \* asks[c]: names c has asked for, in order
  got       \* got[c]: replies c has read, in order

osVars == <<mux, spc, client, maxi, allset, rset, scan, backlog, fdOf, cpc,
            toServ, toCli, asks, got>>

Free     == -1
listenfd == 3
table    == <<client, maxi, allset, fdOf>>
clients  == <<cpc, asks, got>>
wires    == <<toServ, toCli>>

Holder(fd) == CHOOSE c \in Clients : fdOf[c] = fd
(* accept and open return the lowest descriptor that is not in use.        *)
NewFd == Min((listenfd + 1 .. listenfd + 1 + Cardinality(Clients)) \ {fdOf[c] : c \in Clients})

(* loop, up to its first wait; the poll loop keeps listenfd in client[0].  *)
osInit ==
  /\ mux \in {"select", "poll"}
  /\ spc = "wait" /\ rset = {} /\ scan = 1 /\ backlog = << >>
  /\ client = IF mux = "poll" THEN <<listenfd>> \o [i \in 1..(NALLOC - 1) |-> Free] ELSE << >>
  /\ maxi = IF mux = "poll" THEN 1 ELSE 0
  /\ allset = {listenfd}
  /\ fdOf = [c \in Clients |-> Free]
  /\ cpc = [c \in Clients |-> "start"]
  /\ toServ = [c \in Clients |-> << >>] /\ toCli = [c \in Clients |-> << >>]
  /\ asks = [c \in Clients |-> << >>] /\ got = [c \in Clients |-> << >>]

-----------------------------------------------------------------------------
(* cli_conn: connect returns once the kernel has queued the connection.    *)
cli_conn(c) ==
  /\ cpc[c] = "start" /\ spc /= "dead"
  /\ cpc' = [cpc EXCEPT ![c] = "conn"]
  /\ backlog' = Append(backlog, c)
  /\ UNCHANGED <<mux, spc, table, rset, scan, wires, asks, got>>

csopen(c, n) ==
  /\ cpc[c] = "conn" /\ Len(asks[c]) < MaxAsks /\ spc /= "dead"
  /\ cpc' = [cpc EXCEPT ![c] = "asked"]
  /\ asks' = [asks EXCEPT ![c] = Append(@, n)]
  /\ toServ' = [toServ EXCEPT ![c] = Append(@, n)]
  /\ UNCHANGED <<mux, spc, table, rset, scan, backlog, toCli, got>>

(* recv_fd returns in csopen.                                              *)
recv_fd(c) ==
  /\ cpc[c] = "asked" /\ toCli[c] /= << >>
  /\ cpc' = [cpc EXCEPT ![c] = "conn"]
  /\ got' = [got EXCEPT ![c] = Append(@, Head(toCli[c]))]
  /\ toCli' = [toCli EXCEPT ![c] = Tail(@)]
  /\ UNCHANGED <<mux, spc, table, rset, scan, backlog, toServ, asks>>

(* The client ends, at the end of its input or because it is killed.       *)
Leave(c) ==
  /\ cpc[c] \in {"conn", "asked"}
  /\ cpc' = [cpc EXCEPT ![c] = "gone"]
  /\ UNCHANGED <<mux, spc, table, rset, scan, backlog, wires, asks, got>>

(* Another run of the client program, once the daemon has closed its end.  *)
Again(c) ==
  /\ cpc[c] = "gone" /\ fdOf[c] = Free /\ c \notin Range(backlog)
  /\ cpc' = [cpc EXCEPT ![c] = "start"]
  /\ asks' = [asks EXCEPT ![c] = << >>] /\ got' = [got EXCEPT ![c] = << >>]
  /\ toCli' = [toCli EXCEPT ![c] = << >>]
  /\ UNCHANGED <<mux, spc, table, rset, scan, backlog, toServ>>

-----------------------------------------------------------------------------
Readable ==
  {fd \in allset : \/ fd = listenfd /\ backlog /= << >>
                   \/ \E c \in Clients : fdOf[c] = fd /\ (toServ[c] /= << >> \/ cpc[c] = "gone")}

(* select or poll.                                                         *)
Wait ==
  /\ spc = "wait" /\ Readable /= {}
  /\ rset' = Readable
  /\ spc' = IF listenfd \in Readable THEN "accept" ELSE "scan"
  /\ scan' = IF mux = "poll" THEN 2 ELSE 1
  /\ UNCHANGED <<mux, table, backlog, clients, wires>>

(* client_add: the first free entry, after client_alloc if there is none.  *)
client_add(fd) ==
  LET a == IF Free \in Range(client) THEN client
           ELSE client \o [i \in 1..NALLOC |-> Free]
  IN  [a EXCEPT ![Min({i \in DOMAIN a : a[i] = Free})] = fd]

(* A new entry.  select goes around again, poll scans, and there revents   *)
(* of an entry used for the first time is not initialised.                 *)
NewClient ==
  LET fd == NewFd
      a  == client_add(fd)
      i  == Min({j \in DOMAIN a : a[j] = fd})
  IN  /\ client' = a
      /\ fdOf' = [fdOf EXCEPT ![Head(backlog)] = fd]
      /\ allset' = allset \cup {fd}
      /\ maxi' = Max({maxi, i})
      /\ \/ mux = "select" /\ spc' = "wait" /\ UNCHANGED rset
         \/ mux = "poll" /\ spc' = "scan" /\ UNCHANGED rset
         \/ mux = "poll" /\ i > maxi /\ spc' = "scan" /\ rset' = rset \cup {fd}

(* serv_accept fails, and log_sys ends the daemon, when the client's name  *)
(* is stale.                                                               *)
serv_accept ==
  /\ spc = "accept"
  /\ backlog' = Tail(backlog)
  /\ NewClient \/ (spc' = "dead" /\ UNCHANGED <<table, rset>>)
  /\ UNCHANGED <<mux, scan, clients, wires>>

(* Mutant of ScanOn: the scan ends with the first entry.                   *)
ScanOnEnds == spc' = "wait" /\ UNCHANGED scan
(* The scan goes on to the next entry, or around the loop.                 *)
ScanOn == IF scan < maxi THEN spc' = "scan" /\ scan' = scan + 1
                         ELSE spc' = "wait" /\ UNCHANGED scan

(* An entry that is free, or whose descriptor was not found readable.      *)
Skip ==
  /\ spc = "scan" /\ (scan > maxi \/ client[scan] \notin rset)
  /\ ScanOn
  /\ UNCHANGED <<mux, table, rset, backlog, clients, wires>>

(* request: the descriptor or an error.                                    *)
request(c, n) ==
  toCli' = [toCli EXCEPT ![c] = Append(@, IF n \in Openable THEN n ELSE "error")]

(* A request is read and answered; SIGPIPE kills the daemon when the       *)
(* client is gone.                                                         *)
Serve ==
  /\ spc = "scan" /\ scan <= maxi /\ client[scan] \in rset
  /\ LET c == Holder(client[scan])
     IN  /\ toServ[c] /= << >>
         /\ toServ' = [toServ EXCEPT ![c] = Tail(@)]
         /\ IF cpc[c] = "gone"
            THEN spc' = "dead" /\ UNCHANGED <<scan, toCli>>
            ELSE ScanOn /\ request(c, Head(toServ[c]))
  /\ UNCHANGED <<mux, table, rset, backlog, clients>>

(* Mutant of client_del: the entry stays taken.                            *)
client_delKeeps(fd) == UNCHANGED client
(* client_del: the first entry with the descriptor; log_quit if none.      *)
client_del(fd) ==
  client' = [client EXCEPT ![Min({i \in DOMAIN client : client[i] = fd})] = Free]

(* read returns 0: the client has closed its end.                          *)
Hangup ==
  /\ spc = "scan" /\ scan <= maxi /\ client[scan] \in rset
  /\ LET fd == client[scan]
         c  == Holder(fd)
     IN  /\ toServ[c] = << >> /\ cpc[c] = "gone"
         /\ client_del(fd)
         /\ allset' = allset \ {fd}
         /\ fdOf' = [fdOf EXCEPT ![c] = Free]
  /\ ScanOn
  /\ UNCHANGED <<mux, maxi, rset, backlog, clients, wires>>

Daemon == Wait \/ serv_accept \/ Skip \/ Serve \/ Hangup
Goes(c) == (\E n \in Names : csopen(c, n)) \/ recv_fd(c)
osNext == Daemon \/ \E c \in Clients : cli_conn(c) \/ Goes(c) \/ Leave(c) \/ Again(c)

-----------------------------------------------------------------------------
(* Each client reads the answers to its own requests, one each and in the  *)
(* order it asked, also when descriptors and entries of clients that left  *)
(* are used again.                                                         *)
AnswersInOrder ==
  \A c \in Clients :
    LET right == [i \in DOMAIN asks[c] |-> IF asks[c][i] \in Openable THEN asks[c][i] ELSE "error"]
    IN  /\ IsPrefix(got[c] \o toCli[c], right)
        /\ cpc[c] = "conn" => got[c] = right

(* client[], the watched set and the open connections agree: every         *)
(* connection has exactly one entry within reach of the scan, so that none *)
(* is forgotten and client_del always finds its entry.                     *)
TableAgrees ==
  LET conns == {fdOf[c] : c \in Clients} \ {Free}
      used  == {i \in DOMAIN client : client[i] \notin {Free, listenfd}}
  IN  /\ {client[i] : i \in used} = conns /\ Cardinality(used) = Cardinality(conns)
      /\ allset = conns \cup {listenfd}
      /\ \A i \in used : i <= maxi

(* The table does not grow beyond the clients that are connected at once:  *)
(* entries are used again (client_add, client_del).                        *)
TableBounded == Len(client) < Cardinality(Clients) + 1 + NALLOC

(* A client that waits for its answer gets it, unless the daemon has been  *)
(* ended by a stale name or by a client that left too early.               *)
Answered ==
  \A c \in Clients : cpc[c] = "asked" ~> (cpc[c] /= "asked" \/ spc = "dead")
=============================================================================
