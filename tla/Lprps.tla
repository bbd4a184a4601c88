------------------------------- MODULE Lprps --------------------------------
(***************************************************************************)
(* The PostScript printer filter of AP_UNIX (lprps.c and the files it is   *)
(* built from).  One process talks to a printer over a serial line: it     *)
(* asks for the status and the page count, copies the job, asks for the    *)
(* page count again, charges the user and exits with a status that tells   *)
(* lpd to forget, to reprint or to throw away the job.  SIGALRM and SIGINT *)
(* may arrive between any two steps; the printer may say anything at any   *)
(* time, except that it sends an EOF only in answer to one.                *)
(*                                                                         *)
(* What the printer sends is abstracted to complete items: a message by    *)
(* its key, an EOF, or a character for the user (module PsInput has the    *)
(* characters).  proc_msg never assigns val (message.c:37), so the value   *)
(* of a message is any value, or the process dies reading it.              *)
(***************************************************************************)
EXTENDS Integers, Sequences

CONSTANTS
  File,       \* the job, a sequence of distinct characters
  OBSIZE,     \* size of outbuf
  Pages,      \* page counts a message may show
  MaxItems,   \* bound: unsolicited items the printer sends
  MaxInt      \* bound: SIGINTs sent to the process

VARIABLES
  lpc,         \* the statement the process is at
  ptr,         \* the count get_page was called for: "start" or "end"
  sel,         \* "in" select past the tests of the flags, "wr" out_buf's write follows
  ibuf,        \* items read and not yet given to proc_input_char
  eof,         \* eof_count has moved since proc_upto_eof noted it
  ignore_input, in_job, status,
  page,        \* page["start"] is start_page, page["end"] is end_page
  intr_flag, sigint, alrm_flag,
  armed,       \* an alarm() is running
  file,        \* what getchar has still to return
  getc,        \* what made send_file's getchar return EOF, "ok" before it has
  outbuf,      \* what out_char has stored and out_buf not yet written
  line,        \* items on their way from the printer
  owed,        \* EOFs the printer has still to answer
  printed,     \* what the printer has been sent of the job
  charged,     \* lines of the accounting file
  mailfp,      \* the mail file is open
  exit,        \* exit status
  items, ints  \* how much of the bounds is left

lprpsVars == <<lpc, ptr, sel, ibuf, eof, ignore_input, in_job, status,
               page, intr_flag, sigint, alrm_flag, armed, file, getc, outbuf, line,
               owed, printed, charged, mailfp, exit, items, ints>>

-----------------------------------------------------------------------------
(* The groups of variables a step leaves alone together.                   *)
signals == <<intr_flag, sigint, alrm_flag, armed>>
input   == <<ignore_input, in_job, eof>>
serial  == <<line, owed>>
output  == <<file, getc, outbuf, printed>>
results == <<status, page, charged, mailfp, exit>>
bounds  == <<items, ints>>

MessageKeys   == {"Flushing", "status", "Error", "pagecount"}
Status == {"IDLE", "BUSY", "WAITING", "UNKNOWN"}

(* Places where the process loops around proc_some_input.                  *)
Reading == {"gs_read", "gp_read", "gp_upto", "send_upto", "hi_upto", "fl_upto"}
(* Places where it is in block_write, and where it goes from there.        *)
AfterWrite ==
  [gs_write |-> "gs_read",   gs_eof |-> "reprint", gp_write |-> "gp_read",
   gp_eof   |-> "gp_upto",   send_eof |-> "send_upto",
   hi_write |-> "hi_eof",    hi_eof |-> "hi_upto", fl_write |-> "fl_upto"]
WritesEof  == {"gs_eof", "gp_eof", "send_eof", "hi_eof", "fl_write"}

lprpsInit ==
  /\ lpc = "main" /\ ptr = "start" /\ sel = "no" /\ ibuf = << >>
  /\ eof = FALSE /\ ignore_input = FALSE /\ in_job = FALSE
  /\ status = "INVALID" /\ page = [p \in {"start", "end"} |-> -1]
  /\ intr_flag = FALSE /\ sigint = "default" /\ alrm_flag = FALSE
  /\ armed = FALSE /\ file = File /\ getc = "ok" /\ outbuf = << >> /\ line = << >>
  /\ owed = 0 /\ printed = << >> /\ charged = << >> /\ mailfp = FALSE
  /\ exit = "none" /\ items = MaxItems /\ ints = MaxInt

init_input(job) == in_job' = job /\ ignore_input' = FALSE
set_alrm        == armed' = TRUE /\ alrm_flag' = FALSE
(* Mutant of clear_alrm: the flag of an alarm that has gone off stays set. *)
clear_alrmKeepsFlag == armed' = FALSE /\ UNCHANGED alrm_flag
clear_alrm      == armed' = FALSE /\ alrm_flag' = FALSE
(* SIGINT is caught with a handler that interrupts, or ignored.            *)
set_intr        == sigint' = "catch"
clear_intr      == sigint' = "ignore"
(* mail_char and mail_line open the mail file during a job.                *)
mail_line       == mailfp' = (mailfp \/ in_job)
(* Both queues are emptied; of the EOFs written any number has been sent.  *)
tty_flush       == line' = << >> /\ owed' \in 0..owed

(* exit(): log_sys and usage use EXIT_THROW_AWAY.                          *)
Exit(code) == lpc' = "exit" /\ exit' = code /\ UNCHANGED <<status, page, charged, mailfp>>

(* main up to get_status: bad arguments end the filter.                    *)
Main ==
  /\ lpc = "main"
  /\ \/ Exit("THROW_AWAY") /\ UNCHANGED <<signals, serial>>
     \/ set_alrm /\ tty_flush /\ lpc' = "gs_write"
        /\ UNCHANGED <<results, intr_flag, sigint>>
  /\ UNCHANGED <<ptr, sel, ibuf, input, output, bounds>>

(* send_file, up to its first getchar.                                     *)
send_file == init_input(TRUE) /\ set_intr /\ lpc' = "send"

(* get_page, up to the write of the query.                                 *)
get_page(p) == ptr' = p /\ set_alrm /\ tty_flush /\ lpc' = "gp_write"

(* handle_intr, up to the write of the Control-C.                          *)
handle_intr ==
  /\ intr_flag' = FALSE /\ set_alrm /\ tty_flush /\ lpc' = "hi_write" /\ sel' = "no"
  /\ UNCHANGED <<sigint, results>>

(* block_write, and what its caller does before it reads again.            *)
block_write ==
  /\ lpc \in DOMAIN AfterWrite
  /\ owed' = IF lpc \in WritesEof THEN owed + 1 ELSE owed
  /\ IF lpc = "gs_eof" THEN Exit("REPRINT")
     ELSE /\ lpc' = AfterWrite[lpc]
          /\ page' = IF lpc = "gp_write" THEN [page EXCEPT ![ptr] = -1] ELSE page
          /\ UNCHANGED <<status, charged, mailfp, exit>>
  /\ IF AfterWrite[lpc] \in {"gs_read", "gp_read"}
     THEN init_input(FALSE) /\ UNCHANGED eof
     ELSE IF AfterWrite[lpc] \in {"gp_upto", "send_upto", "hi_upto", "fl_upto"}
     THEN /\ ignore_input' = (AfterWrite[lpc] \in {"hi_upto", "fl_upto"})
          /\ eof' = FALSE /\ UNCHANGED in_job
     ELSE UNCHANGED input
  /\ UNCHANGED <<ptr, sel, ibuf, signals, line, output, bounds>>

(* A signal that is caught while the write sleeps makes it return short.   *)
WriteInterrupted ==
  /\ lpc \in DOMAIN AfterWrite
  /\ \/ armed /\ armed' = FALSE /\ alrm_flag' = TRUE /\ UNCHANGED <<intr_flag, ints>>
     \/ sigint = "catch" /\ ints > 0 /\ ints' = ints - 1
        /\ intr_flag' = TRUE /\ UNCHANGED <<armed, alrm_flag>>
  /\ Exit("THROW_AWAY")
  /\ UNCHANGED <<ptr, sel, ibuf, input, sigint, serial, output, items>>

-----------------------------------------------------------------------------
(* Mutant of LoopOver: get_page does not wait for the printer's EOF.       *)
LoopOverNoWait ==
  CASE lpc = "gs_read" -> status /= "INVALID"
    [] lpc = "gp_read" -> page[ptr] >= 0
    [] lpc = "gp_upto" -> TRUE
    [] OTHER          -> eof
(* The condition of the loop the process reads in.                         *)
LoopOver ==
  CASE lpc = "gs_read" -> status /= "INVALID"
    [] lpc = "gp_read" -> page[ptr] >= 0
    [] OTHER          -> eof

(* proc_some_input up to select.                                           *)
proc_some_input ==
  /\ lpc \in Reading /\ sel = "no" /\ ibuf = << >> /\ ~LoopOver
  /\ \/ intr_flag /\ handle_intr
     \/ /\ ~intr_flag /\ alrm_flag /\ Exit("REPRINT")
        /\ UNCHANGED <<sel, signals, serial>>
     \/ /\ ~intr_flag /\ ~alrm_flag /\ sel' = "in"
        /\ UNCHANGED <<lpc, signals, serial, results>>
  /\ UNCHANGED <<ptr, ibuf, input, output, bounds>>

(* select finds the printer readable and some of what it sent is read; in  *)
(* out_buf the printer may be found writeable too.                         *)
Read ==
  /\ lpc \in Reading \cup {"out"} /\ sel = "in" /\ line /= << >>
  /\ \E n \in 1..Len(line) :
       /\ ibuf' = SubSeq(line, 1, n)
       /\ line' = SubSeq(line, n + 1, Len(line))
  /\ sel' \in IF lpc = "out" THEN {"no", "wr"} ELSE {"no"}
  /\ UNCHANGED <<lpc, ptr, input, signals, owed, output, results, bounds>>

(* printer_flushing, up to its write; the rest of the batch is dropped.    *)
printer_flushing ==
  /\ clear_intr /\ tty_flush /\ lpc' = "fl_write" /\ ibuf' = << >>
  /\ sel' = "no"
  /\ UNCHANGED <<intr_flag, alrm_flag, armed, input, results>>

(* proc_msg with key and an arbitrary val; "Error" stands also for         *)
(* "OffendingCommand", and several pairs in a message are several items.   *)
proc_msg(key) ==
  /\ CASE key = "status"    -> status' \in Status /\ UNCHANGED <<page, mailfp>>
       [] key = "Error"     -> mail_line /\ UNCHANGED <<status, page>>
       [] key = "pagecount" ->
            /\ \/ UNCHANGED page      \* val does not parse as a number
               \/ \E n \in Pages : LET p == IF page["start"] < 0 THEN "start" ELSE "end"
                                   IN  page' = [page EXCEPT ![p] = n]
            /\ UNCHANGED <<status, mailfp>>
  /\ ibuf' = Tail(ibuf)
  /\ UNCHANGED <<lpc, input, signals, serial, charged, exit>>

proc_input_char ==
  /\ lpc \in Reading \cup {"out"} /\ ibuf /= << >>
  /\ LET c == Head(ibuf)
     IN  \/ /\ c = "eof" /\ eof' = TRUE /\ ibuf' = Tail(ibuf)
            /\ UNCHANGED <<lpc, ignore_input, in_job, signals, serial, results>>
         \/ /\ c /= "eof" /\ ignore_input /\ ibuf' = Tail(ibuf)
            /\ UNCHANGED <<lpc, input, signals, serial, results>>
         \/ /\ c = "char" /\ ~ignore_input /\ ibuf' = Tail(ibuf)
            /\ mail_line
            /\ UNCHANGED <<lpc, input, signals, serial, status, page, charged, exit>>
         \/ /\ c \in MessageKeys /\ ~ignore_input        \* the stray val is read
            /\ lpc' = "exit" /\ exit' = "killed" /\ ibuf' = << >>
            /\ UNCHANGED <<input, signals, serial, status, page, charged, mailfp>>
         \/ c \in MessageKeys \ {"Flushing"} /\ ~ignore_input /\ proc_msg(c)
  /\ UNCHANGED <<ptr, sel, output, bounds>>

Flushing ==
  /\ lpc \in Reading \cup {"out"} /\ ibuf /= << >> /\ Head(ibuf) = "Flushing"
  /\ ~ignore_input /\ printer_flushing
  /\ UNCHANGED <<ptr, output, bounds>>

(* The loop ends and its caller goes on: get_status, get_page,             *)
(* proc_upto_eof and through them main, send_file, handle_intr and         *)
(* printer_flushing.                                                       *)
LoopEnds ==
  /\ lpc \in Reading /\ sel = "no" /\ ibuf = << >> /\ LoopOver
  /\ \/ /\ \/ lpc = "gs_read" /\ status = "IDLE" /\ get_page("start")
           \/ lpc \in {"send_upto", "fl_upto", "hi_upto"} /\ get_page("end")
        /\ UNCHANGED <<in_job, ignore_input, intr_flag, sigint, results>>
     \/ /\ lpc = "gs_read" /\ status = "WAITING" /\ lpc' = "gs_eof"
        /\ UNCHANGED <<in_job, ignore_input, ptr, signals, serial, results>>
     \/ /\ lpc = "gs_read" /\ status \in {"BUSY", "UNKNOWN"} /\ Exit("REPRINT")
        /\ UNCHANGED <<in_job, ignore_input, ptr, signals, serial>>
     \/ /\ lpc = "gp_read" /\ lpc' = "gp_eof"
        /\ UNCHANGED <<in_job, ignore_input, ptr, signals, serial, results>>
     \/ /\ lpc = "gp_upto" /\ clear_alrm
        /\ IF ptr = "start"
           THEN send_file
           ELSE lpc' = "acct" /\ UNCHANGED <<in_job, ignore_input, sigint>>
        /\ UNCHANGED <<ptr, intr_flag, serial, results>>
  /\ UNCHANGED <<sel, ibuf, eof, output, bounds>>

(* do_acct (the accounting file may be missing), then exit.  When fclose   *)
(* fails the line may or may not have been written, and log_sys ends the   *)
(* filter.                                                                 *)
do_acct ==
  /\ lpc = "acct"
  /\ \/ /\ page["end"] > page["start"]
        /\ \/ charged' = Append(charged, page["end"] - page["start"])
           \/ UNCHANGED charged
        /\ exit' \in {"SUCCESS", "THROW_AWAY"}
     \/ UNCHANGED charged /\ exit' = "SUCCESS"
  /\ lpc' = "exit"
  /\ UNCHANGED <<ptr, sel, ibuf, input, signals, serial, output, bounds, status, page, mailfp>>

-----------------------------------------------------------------------------
(* send_file: getchar and out_char.  The loop is over when getchar returns *)
(* EOF, for the end of the file or for a read error (and for a SIGINT, see *)
(* sig_int); then the last buffer goes out before the printer's EOF.       *)
out_char ==
  /\ lpc = "send"
  /\ \/ /\ getc' = IF file = << >> THEN "eof" ELSE "error"
        /\ lpc' = "out" /\ UNCHANGED <<file, outbuf>>
     \/ /\ file # << >> /\ Len(outbuf) = OBSIZE        \* the buffer is full
        /\ lpc' = "out" /\ UNCHANGED <<file, getc, outbuf>>
     \/ /\ file # << >> /\ Len(outbuf) < OBSIZE
        /\ outbuf' = Append(outbuf, Head(file)) /\ file' = Tail(file)
        /\ UNCHANGED <<lpc, getc>>
  /\ UNCHANGED <<ptr, sel, ibuf, input, signals, serial, printed, results, bounds>>

(* out_buf up to select.                                                   *)
out_buf ==
  /\ lpc = "out" /\ sel = "no" /\ ibuf = << >> /\ outbuf /= << >>
  /\ \/ intr_flag /\ handle_intr
     \/ /\ ~intr_flag /\ sel' = "in"
        /\ UNCHANGED <<lpc, signals, serial, results>>
  /\ UNCHANGED <<ptr, ibuf, input, output, bounds>>

(* out_buf returns: out_char stores the character it has in hand, or the   *)
(* printer's EOF follows.                                                  *)
OutBufDone ==
  /\ lpc = "out" /\ sel = "no" /\ ibuf = << >> /\ outbuf = << >>
  /\ IF getc = "ok"
     THEN lpc' = "send" /\ outbuf' = <<Head(file)>> /\ file' = Tail(file)
     ELSE lpc' = "send_eof" /\ UNCHANGED <<file, outbuf>>
  /\ UNCHANGED <<ptr, sel, ibuf, input, signals, serial, getc, printed, results, bounds>>

(* Mutant of OutWrite: wptr is not moved after a short write.              *)
OutWriteStays ==
  /\ lpc = "out" /\ sel /= "no" /\ ibuf = << >>
  /\ \E n \in 1..Len(outbuf) :
       /\ printed' = printed \o SubSeq(outbuf, 1, n)
       /\ outbuf' = SubSeq(outbuf, 1, Len(outbuf) - n)
  /\ sel' = "no"
  /\ UNCHANGED <<lpc, ptr, ibuf, input, signals, serial, file, getc, results, bounds>>
(* The printer is writeable: it takes some of the buffer.                  *)
OutWrite ==
  /\ lpc = "out" /\ sel /= "no" /\ ibuf = << >>
  /\ \E n \in 1..Len(outbuf) :
       /\ printed' = printed \o SubSeq(outbuf, 1, n)
       /\ outbuf' = SubSeq(outbuf, n + 1, Len(outbuf))
  /\ sel' = "no"
  /\ UNCHANGED <<lpc, ptr, ibuf, input, signals, serial, file, getc, results, bounds>>

-----------------------------------------------------------------------------
(* SIGALRM: the handler sets the flag.  When proc_some_input sleeps in     *)
(* select the call returns EINTR and handle_alrm follows; just before the  *)
(* call, or just after it, the flag is all there is.                       *)
sig_alrm ==
  /\ armed /\ lpc /= "exit"
  /\ armed' = FALSE /\ alrm_flag' = TRUE
  /\ \/ UNCHANGED <<lpc, results>>
     \/ sel = "in" /\ lpc \in Reading /\ Exit("REPRINT")
  /\ UNCHANGED <<ptr, sel, ibuf, input, intr_flag, sigint, serial, output, bounds>>

(* A system call on the printer's descriptor fails: log_sys.               *)
IoFails ==
  /\ lpc \in Reading \cup {"out"} \cup DOMAIN AfterWrite /\ ibuf = << >>
  /\ Exit("THROW_AWAY")
  /\ UNCHANGED <<ptr, sel, ibuf, input, signals, serial, output, bounds>>

(* SIGINT, by the disposition in force; select as for SIGALRM.             *)
Delivered ==
  \/ /\ sigint = "default" /\ lpc' = "exit" /\ exit' = "killed"
     /\ UNCHANGED <<sel, signals, serial, status, page, charged, mailfp>>
  \/ /\ sigint = "ignore"
     /\ UNCHANGED <<lpc, sel, signals, serial, results>>
  \/ /\ sigint = "catch" /\ intr_flag' = TRUE
     /\ UNCHANGED <<lpc, sel, alrm_flag, armed, sigint, serial, results>>
  \/ /\ sigint = "catch" /\ sel = "in" /\ lpc \in Reading /\ alrm_flag
     /\ intr_flag' = TRUE /\ Exit("REPRINT")
     /\ UNCHANGED <<sel, alrm_flag, armed, sigint, serial>>
  \/ /\ sigint = "catch" /\ sel = "in" /\ (lpc = "out" \/ ~alrm_flag)
     /\ handle_intr

(* A read of the job that sleeps is interrupted, and getchar returns EOF.  *)
sig_int ==
  /\ ints > 0 /\ lpc /= "exit" /\ ints' = ints - 1
  /\ \/ /\ sigint = "catch" /\ lpc = "send" /\ intr_flag' = TRUE
        /\ getc' = "intr" /\ lpc' = "out"
        /\ UNCHANGED <<sel, alrm_flag, armed, sigint, serial, results>>
     \/ UNCHANGED getc /\ Delivered
  /\ UNCHANGED <<ptr, ibuf, input, file, outbuf, printed, items>>

(* The printer speaks up by itself, or answers an EOF.                     *)
PrinterSays ==
  /\ lpc /= "exit"
  /\ \/ /\ items > 0 /\ items' = items - 1 /\ UNCHANGED owed
        /\ \E i \in MessageKeys \cup {"char"} : line' = Append(line, i)
     \/ /\ owed > 0 /\ owed' = owed - 1 /\ line' = Append(line, "eof")
        /\ UNCHANGED items
  /\ UNCHANGED <<lpc, ptr, sel, ibuf, input, signals, output, results, ints>>

lprpsStep == \/ Main \/ block_write \/ proc_some_input \/ Read \/ proc_input_char \/ Flushing
             \/ LoopEnds \/ do_acct \/ out_char \/ out_buf \/ OutBufDone \/ OutWrite

lprpsNext == lprpsStep \/ WriteInterrupted \/ IoFails \/ sig_alrm \/ sig_int \/ PrinterSays

lprpsSpec == lprpsInit /\ [][lprpsNext]_lprpsVars

-----------------------------------------------------------------------------
(* Every character of the job is written to the printer once and in order, *)
(* whatever short writes, printer output and signals come between, and     *)
(* nothing of the buffer is left behind when the printer's EOF is sent     *)
(* (out_char, out_buf).  When the loop of send_file ended at the end of    *)
(* the file that EOF follows the whole job.  It follows a part of the job  *)
(* only after a read error, and nothing at all after a SIGINT, which then  *)
(* is still to be handled (sendfile.c:10-14).                              *)
WholeJob ==
  /\ printed \o outbuf \o file = File
  /\ lpc \in {"send_eof", "send_upto"} =>
       /\ outbuf = << >> /\ getc # "ok"
       /\ getc = "eof" => printed = File
       /\ getc = "intr" => printed = << >> /\ intr_flag

(* send_file returns only when the printer has answered the EOF of the     *)
(* job: an answer to an earlier EOF cannot be taken for it, and a job that *)
(* SIGINT cut off is not taken for a finished one.                         *)
JobDone ==
  [][lpc = "send_upto" /\ lpc' = "gp_write"
       => /\ owed = 0 /\ \A i \in 1..Len(line) : line[i] /= "eof"
          /\ getc # "intr"]_lprpsVars

(* The job is charged at most once, and then the filter ends with success  *)
(* or, when the accounting file cannot be closed, throws the job away: a   *)
(* job that lpd will print again is never charged (do_acct and exit).      *)
ChargedOnce ==
  /\ Len(charged) <= 1
  /\ charged /= << >> => exit \in {"SUCCESS", "THROW_AWAY"}

(* Success is reported only when both page counts are known, also when the *)
(* printer flushed the job before the first count had been read.           *)
SuccessCounted == exit = "SUCCESS" => page["start"] >= 0 /\ page["end"] >= 0

(* No timeout of a query reaches into the copying of the job, which may    *)
(* take as long as the printer needs.                                      *)
JobNotTimed ==
  lpc \in {"send", "out", "send_eof", "send_upto"} => ~armed /\ ~alrm_flag

(* A job is charged at most once and never one that lpd will print again,  *)
(* success means that both page counts are known, and no timeout of a      *)
(* query reaches into the copying of the job (do_acct, exit, clear_alrm).  *)
JobAccounted == ChargedOnce /\ SuccessCounted /\ JobNotTimed
=============================================================================
