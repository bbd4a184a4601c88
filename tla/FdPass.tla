------------------------------- MODULE FdPass -------------------------------
(***************************************************************************)
(* The open server over a stream pipe: open-cli.c and csopen of open.c are *)
(* the client, open-server.c and request of opend.c the server, which      *)
(* passes the descriptor back with send_fd, or an error with send_err, and *)
(* the client takes it with recv_fd (proc_com_43pbds.c).  The pipe carries *)
(* bytes: an error text of nonzero bytes, then a zero byte and a status.   *)
(***************************************************************************)
EXTENDS Integers, Sequences

CONSTANTS
  MAXLINE,   \* size of recv_fd's and the server's buffers
  Good, Bad, \* names that can and that cannot be opened; among the latter the
             \* ones with a blank, which buf_args or cli_args refuse
  ErrCodes,  \* error codes given to send_err
  MaxOpens   \* bound: calls of csopen

VARIABLES
  cli,      \* the client: "idle", "wait"ing in recv_fd, "dump"ed core, "closed"
  srv,      \* the server: "read", "text", "fd", "err", "exit"
  request,  \* names written to the pipe and not yet read by the server
  wire,     \* bytes on their way to the client
  rights,   \* names whose descriptors travel with the bytes
  name,     \* what csopen was last called with
  err,      \* [code, len]: errcode and length of the text of the last error
  shown,    \* bytes recv_fd has given to userfunc during this call
  answer,   \* what recv_fd returned: the descriptor of a name, or a status
  opens

fdVars == <<cli, srv, request, wire, rights, name, err, shown, answer, opens>>

NoError == [code |-> 0, len |-> 0]
NoAnswer == [fd |-> "none", status |-> 0]
Letter  == 7                          \* any byte of a text

(* send_fd, fd < 0: one unsigned byte that is never zero.                  *)
StatusByte(errcode) ==
  LET b == (-errcode) % 256 IN IF b = 0 THEN 1 ELSE b

fdInit ==
  /\ cli = "idle" /\ srv = "read" /\ request = << >> /\ wire = << >>
  /\ rights = << >> /\ name = "none" /\ err = NoError /\ shown = 0
  /\ answer = NoAnswer /\ opens = 0

(* csopen: the server is started by the first call; one writev.            *)
csopen(n) ==
  /\ cli = "idle" /\ opens < MaxOpens
  /\ cli' = "wait" /\ name' = n /\ request' = Append(request, n)
  /\ shown' = 0 /\ answer' = NoAnswer /\ opens' = opens + 1
  /\ UNCHANGED <<srv, wire, rights, err>>

(* The client ends; its descriptors are closed.                            *)
Close ==
  /\ cli = "idle" /\ cli' = "closed"
  /\ UNCHANGED <<srv, request, wire, rights, name, err, shown, answer, opens>>

(* The server's read and open; send_err compares n, which it never set, to *)
(* the length of the text: the text is sent whole or, as a rule, not sent. *)
Serve ==
  /\ srv = "read" /\ request /= << >>
  /\ request' = Tail(request)
  /\ \/ /\ Head(request) \in Good
        /\ srv' = "fd" /\ err' = NoError
     \/ /\ Head(request) \in Bad
        /\ \E code \in ErrCodes, len \in 0..(MAXLINE - 1) :
             err' = [code |-> IF code >= 0 THEN -1 ELSE code, len |-> len]
        /\ srv' \in {"text", "err"}
  /\ UNCHANGED <<cli, wire, rights, name, shown, answer, opens>>

(* send_err's write of the text, when there is one.                        *)
send_err ==
  /\ srv = "text" /\ srv' = "err"
  /\ wire' = wire \o [i \in 1..err.len |-> Letter]
  /\ UNCHANGED <<cli, request, rights, name, err, shown, answer, opens>>

send_fd ==
  /\ srv \in {"fd", "err"} /\ srv' = "read"
  /\ IF srv = "fd"
     THEN wire' = wire \o <<0, 0>> /\ rights' = Append(rights, name)
     ELSE wire' = wire \o <<0, StatusByte(err.code)>> /\ UNCHANGED rights
  /\ UNCHANGED <<cli, request, name, err, shown, answer, opens>>

(* The server reads 0 when the client has closed the pipe.                 *)
ServerExit ==
  /\ srv = "read" /\ request = << >> /\ cli \in {"closed", "dump"} /\ srv' = "exit"
  /\ UNCHANGED <<cli, request, wire, rights, name, err, shown, answer, opens>>

(* One pass of recv_fd's loop: the first zero byte of what was read must   *)
(* be the last but one, and these two are kept from userfunc; a read       *)
(* without a zero byte leads to state next.                                *)
RecvPass(next) ==
  /\ cli = "wait" /\ wire /= << >>
  /\ LET nread == IF Len(wire) > MAXLINE THEN MAXLINE ELSE Len(wire)
         nul   == {i \in 1..nread : wire[i] = 0}
         first == CHOOSE i \in nul : \A j \in nul : i <= j
     IN  /\ wire' = SubSeq(wire, nread + 1, Len(wire))
         /\ \/ /\ nul = {} /\ shown' = shown + nread /\ cli' = next
               /\ UNCHANGED <<answer, rights>>
            \/ /\ nul /= {}
               /\ \/ first /= nread - 1
                  \/ wire[nread] = 0 /\ rights = << >>
               /\ cli' = "dump" /\ UNCHANGED <<shown, answer, rights>>
            \/ /\ nul /= {} /\ first = nread - 1
               /\ cli' = "idle" /\ shown' = shown + nread - 2
               /\ \/ /\ wire[nread] = 0 /\ rights /= << >>
                     /\ answer' = [fd |-> Head(rights), status |-> 0]
                     /\ rights' = Tail(rights)
                  \/ /\ wire[nread] /= 0
                     /\ answer' = [fd |-> "none", status |-> wire[nread]]
                     /\ UNCHANGED rights
  /\ UNCHANGED <<srv, request, name, err, opens>>

(* Mutant of recv_fd: the call returns after its first read.             *)
recv_fdOnce == RecvPass("idle")
recv_fd     == RecvPass("wait")

fdNext == \/ \E n \in Good \cup Bad : csopen(n)
          \/ Close \/ Serve \/ send_err \/ send_fd \/ ServerExit \/ recv_fd

-----------------------------------------------------------------------------
(* csopen returns the descriptor of the file it was asked for, and an      *)
(* error only, but always, when the server could not open it, however the  *)
(* error code wraps around in its byte; nothing is left over for the next  *)
(* call.                                                                   *)
AnswerRight ==
  cli = "idle" /\ opens > 0 =>
    /\ answer.fd = IF name \in Good THEN name ELSE "none"
    /\ answer.status \in IF name \in Good THEN {0} ELSE 1..255
    /\ wire = << >> /\ rights = << >> /\ request = << >>

(* The whole text of an error reaches the user and none of the protocol's  *)
(* bytes do, however text and status are cut into reads.                   *)
TextWhole == cli = "idle" /\ opens > 0 => shown \in {0, err.len}

(* The client's "message format error" dump is only met when the text ends *)
(* one byte before recv_fd's buffer does.                                  *)
DumpsOnlyAtEdge == cli = "dump" => err.len = MAXLINE - 1
=============================================================================
