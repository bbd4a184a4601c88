------------------------------ MODULE Session -------------------------------
(***************************************************************************)
(* A session of the call client: main of client-main.c, call of call.c,    *)
(* the copying loop of cli_loop.c, the escapes of doescape.c, and take and *)
(* put with prompt_read of cli_assist.c.  The descriptor of the modem line *)
(* comes from calld (module Calld).  Characters are model values: "esc" is *)
(* escapec, "susp" the suspend character, "cr" a return or a newline that  *)
(* is typed, "nul" a zero byte, "high" a key above 127; "x8" and others of *)
(* that form are characters with the eighth bit set.                       *)
(***************************************************************************)
EXTENDS Integers, Sequences, SequencesExt, TtyModes

CONSTANTS
  Keys,      \* what the user types: "esc", "dot", "susp", "hash", "t", "p", "cr", "nul",
             \* "high", others
  Bodies,    \* contents of the files on the remote host, as its terminal sends them
  MaxKeys,   \* bound: keys typed
  MaxNoise   \* bound: characters the remote sends of its own accord

VARIABLES
  st,        \* the statement the client is at
  bol,       \* beginning of line; automatic and not initialised
  bol0,      \* what bol started as
  typed,     \* every key read
  sent,      \* what was written to the line
  remote,    \* what the line has for us
  hup,       \* the line has dropped
  noise,
  buf,       \* rem_buf from rem_ptr on, rem_cnt characters
  fpout,     \* the local file of take
  body,      \* what the remote file held when take asked for it
  clean,     \* nothing else was under way when take asked
  revents    \* what poll found: a subset of {"stdin", "rem"}

sesVars == <<termios, tty, st, bol, bol0, typed, sent, remote, hup, noise, buf,
             fpout, body, clean, revents>>

terminal == <<termios, tty>>
line     == <<sent, remote, hup, noise>>
taking   == <<buf, fpout, body, clean>>

sesInit ==
  /\ termios = "user" /\ tty = [p \in {"call"} |-> NotSaved]
  /\ st = "call" /\ bol0 \in 0..1 /\ bol = bol0
  /\ typed = << >> /\ sent = << >> /\ remote = << >> /\ hup = FALSE /\ noise = 0
  /\ buf = << >> /\ fpout = << >> /\ body = << >> /\ clean = TRUE /\ revents = {}

(* call: recv_fd returns the descriptor, or -1 and main exits.             *)
call ==
  /\ st = "call"
  /\ \/ tty_raw("call") /\ st' = "poll"
     \/ st' = "done" /\ UNCHANGED terminal
  /\ UNCHANGED <<bol, bol0, typed, line, taking, revents>>

(* exit(0) after the loop, or exit(1) in err_sys: tty_atexit runs.         *)
Exit ==
  /\ st = "exit"
  /\ tty_atexit("call")
  /\ st' = "done"
  /\ UNCHANGED <<bol, bol0, typed, line, taking, revents>>

-----------------------------------------------------------------------------
RemReady == remote # << >> \/ hup

(* poll; whether the user has typed something is left open.                *)
Poll ==
  /\ st = "poll"
  /\ \E u \in (IF Len(typed) < MaxKeys THEN BOOLEAN ELSE {FALSE}) :
       /\ u \/ RemReady
       /\ revents' = (IF u THEN {"stdin"} ELSE {}) \cup (IF RemReady THEN {"rem"} ELSE {})
       /\ st' = IF u THEN "key" ELSE "rem"
  /\ UNCHANGED <<terminal, bol, bol0, typed, line, taking>>

(* Poll again, or go on to the remote's events.                            *)
AfterKey == st' = IF "rem" \in revents THEN "rem" ELSE "poll"

(* write of one character; err_sys if the line has dropped.                *)
Send(c) ==
  /\ bol' = IF c = "cr" THEN 1 ELSE 0
  /\ IF hup THEN st' = "exit" /\ UNCHANGED sent
            ELSE AfterKey /\ sent' = Append(sent, c)

(* Mutant of ReadKey: the escape character counts anywhere in a line.      *)
ReadKeyAnywhere(c) ==
  /\ st = "key"
  /\ typed' = Append(typed, c)
  /\ IF c = "esc" THEN st' = "escape" /\ UNCHANGED <<bol, sent>> ELSE Send(c)
  /\ UNCHANGED <<terminal, bol0, remote, hup, noise, taking, revents>>
ReadKey(c) ==
  /\ st = "key"
  /\ typed' = Append(typed, c)
  /\ IF c = "esc" /\ bol = 1
     THEN st' = "escape" /\ UNCHANGED <<bol, sent>>
     ELSE Send(c)
  /\ UNCHANGED <<terminal, bol0, remote, hup, noise, taking, revents>>

(* Standard input ends: read returns 0, or POLLHUP.                        *)
InputEnds ==
  /\ st \in {"key", "escape"}
  /\ st' = "exit"
  /\ UNCHANGED <<terminal, bol, bol0, typed, line, taking, revents>>

Suspend == st' = "suspended" /\ tty_reset("call") /\ UNCHANGED <<sent, bol>>

(* take and put begin with prompt_read, which gives the user's mode back   *)
(* while it reads a line; the line and what follows are steps of their own.*)
prompt_read(c) == tty_reset("call") /\ st' = c

(* What loop() does with the result of doescape.  The key is a signed      *)
(* char: one above 127 is returned as a negative number, like the -1 of    *)
(* ".", and a NUL as 0, like a command that has been processed.            *)
Terminates == {"dot", "high"}
Processed  == {"susp", "hash", "t", "p", "nul"}

(* doescape: a processed escape goes around the loop, past the events of   *)
(* the remote that poll has found.                                         *)
doescape(c) ==
  /\ st = "escape" /\ Len(typed) < MaxKeys
  /\ typed' = Append(typed, c)
  /\ \/ c \in Terminates /\ st' = "exit" /\ UNCHANGED <<terminal, sent, bol>>
     \/ c \in {"hash", "nul"} /\ st' = "poll" /\ UNCHANGED <<terminal, sent, bol>>
     \/ c = "susp" /\ Suspend
     \/ c \in {"t", "p"} /\ prompt_read(c) /\ UNCHANGED <<sent, bol>>
     \/ c \notin Terminates \cup Processed /\ Send(c) /\ UNCHANGED terminal
  /\ UNCHANGED <<bol0, remote, hup, noise, taking, revents>>

(* The user continues the client: tty_raw.                                 *)
Resume ==
  /\ st = "suspended"
  /\ tty_raw("call") /\ st' = "poll"
  /\ UNCHANGED <<bol, bol0, typed, line, taking, revents>>

(* One read from the remote; then the loop ends, as revents is not 0.      *)
ReadRemote ==
  /\ st = "rem" /\ revents # {}
  /\ remote' = << >>
  /\ st' = "exit"
  /\ UNCHANGED <<terminal, bol, bol0, typed, sent, hup, noise, taking, revents>>

-----------------------------------------------------------------------------
(* prompt_read, and take up to its command: the user's line may be no good,*)
(* the file may not open; else the remote echoes the command, CTRLA in it, *)
(* and sends the file and CTRLA.                                           *)
take ==
  /\ st = "t" /\ tty_raw("call")
  /\ \/ st' = "poll" /\ UNCHANGED <<line, taking>>
     \/ hup /\ st' = "exit" /\ UNCHANGED <<line, taking>>      \* "write error"
     \/ \E b \in Bodies :
          /\ ~hup /\ sent' = Append(sent, "cat")
          /\ remote' = remote \o <<"ctrlA", "lf">> \o b \o <<"ctrlA">>
          /\ body' = b /\ clean' = (remote = << >>)
          /\ buf' = << >> /\ fpout' = << >> /\ st' = "echo"
          /\ UNCHANGED <<hup, noise>>
  /\ UNCHANGED <<bol, bol0, typed, revents>>

(* rem_read fills rem_buf, or finds that the line has dropped.             *)
rem_read ==
  /\ st \in {"echo", "take"} /\ buf = << >>
  /\ \/ \E n \in 1..Len(remote) :
          /\ buf' = SubSeq(remote, 1, n) /\ remote' = SubSeq(remote, n + 1, Len(remote))
          /\ UNCHANGED <<st, sent>>
     \/ /\ remote = << >> /\ hup
        /\ st' \in {"poll", "exit"}      \* end of file, or "read error"
        /\ UNCHANGED <<buf, remote, sent>>
  /\ UNCHANGED <<terminal, bol, bol0, typed, hup, noise, fpout, body, clean, revents>>

(* rem_read returns the character & 0177: without its eighth bit.          *)
EighthBit == [nul8 |-> "nul", ctrlA8 |-> "ctrlA", cr8 |-> "cr", lf8 |-> "lf", x8 |-> "x"]
Low(c)    == IF c \in DOMAIN EighthBit THEN EighthBit[c] ELSE c

(* The echo ends with its newline; a zero byte looks like a dropped line.  *)
SkipEcho(c) == st' = IF c = "nul" THEN "poll" ELSE IF c = "lf" THEN "take" ELSE "echo"

TakeChar ==
  /\ st \in {"echo", "take"} /\ buf # << >>
  /\ LET c == Low(Head(buf))
     IN  \/ st = "echo" /\ SkipEcho(c) /\ UNCHANGED <<sent, fpout>>
         \/ /\ st = "take" /\ c \in {"nul", "ctrlA"}
            /\ sent' = Append(sent, "lf")
            /\ st' = (IF c = "ctrlA" THEN "taken" ELSE "poll") /\ UNCHANGED fpout
         \/ /\ st = "take" /\ c \notin {"nul", "ctrlA"}
            /\ fpout' = IF c = "cr" THEN fpout ELSE Append(fpout, c)
            /\ UNCHANGED <<st, sent>>
         \/ /\ st = "take" /\ c \notin {"nul", "ctrlA", "cr"}     \* putc fails
            /\ sent' = Append(sent, "lf") /\ st' = "poll" /\ UNCHANGED fpout
  /\ buf' = Tail(buf)
  /\ UNCHANGED <<terminal, bol, bol0, typed, remote, hup, noise, body, clean, revents>>

(* take returns; what is left in rem_buf is given up.                      *)
TakeReturns ==
  /\ st = "taken"
  /\ st' = "poll" /\ buf' = << >>
  /\ UNCHANGED <<terminal, bol, bol0, typed, line, fpout, body, clean, revents>>

(* put: command, file, EOF character; then what the line has for us is     *)
(* flushed, and a newline is sent.                                         *)
put ==
  /\ st = "p" /\ tty_raw("call")
  /\ \/ st' = "poll" /\ UNCHANGED line
     \/ hup /\ st' = "exit" /\ UNCHANGED line      \* "write error"
     \/ /\ st' = "poll" /\ sent' = sent \o <<"cat>", "file", "eof", "lf">> /\ remote' = << >>
        /\ ~hup /\ UNCHANGED <<hup, noise>>
  /\ UNCHANGED <<bol, bol0, typed, taking, revents>>

-----------------------------------------------------------------------------
(* The remote host.                                                        *)
RemoteSays(c) ==
  /\ ~hup /\ noise < MaxNoise /\ st \notin {"call", "done"}
  /\ remote' = Append(remote, c) /\ noise' = noise + 1 /\ clean' = FALSE
  /\ UNCHANGED <<terminal, st, bol, bol0, typed, sent, hup, buf, fpout, body, revents>>
Drops ==
  /\ ~hup /\ hup' = TRUE /\ st \notin {"call", "done"}
  /\ UNCHANGED <<terminal, st, bol, bol0, typed, sent, remote, noise, taking, revents>>

Client == \/ call \/ Exit \/ Poll \/ (\E c \in Keys : ReadKey(c) \/ doescape(c)) \/ InputEnds
          \/ Resume \/ ReadRemote \/ take \/ rem_read \/ TakeChar \/ TakeReturns \/ put
sesNext == Client \/ (\E c \in {"x", "lf"} : RemoteSays(c)) \/ Drops
sesSpec == sesInit /\ [][sesNext]_sesVars

-----------------------------------------------------------------------------
(* The user's terminal: raw while the line is copied and while a file is   *)
(* transferred, the user's own mode while the client is suspended, prompts *)
(* for a file name, or has ended in any way.                               *)
ModeRight ==
  termios = IF st \in {"call", "suspended", "t", "p", "done"} THEN "user" ELSE "raw"

(* What the remote host is to be sent for some keys: an escape at the      *)
(* beginning of a line is a command with the next key, which ends the      *)
(* session or not, or stands for that key itself.  A key above 127 after   *)
(* an escape ends the session as "." does, and a NUL is dropped like a     *)
(* command, against doescape.c:5-8.                                        *)
Meant ==
  LET M[keys \in Seq(Keys), b \in {0, 1}] ==
        IF keys = << >> THEN << >>
        ELSE IF Head(keys) # "esc" \/ b = 0
             THEN <<Head(keys)>> \o M[Tail(keys), IF Head(keys) = "cr" THEN 1 ELSE 0]
        ELSE IF Len(keys) = 1 \/ keys[2] \in {"dot", "high"} THEN << >>
        ELSE IF keys[2] \in {"susp", "hash", "t", "p", "nul"}
             THEN M[SubSeq(keys, 3, Len(keys)), 1]
        ELSE <<keys[2]>> \o M[SubSeq(keys, 3, Len(keys)), IF keys[2] = "cr" THEN 1 ELSE 0]
  IN  M[typed, bol0]

(* Between the commands of take and put, loop() and doescape() send the    *)
(* remote host exactly the keys meant for it, in order; only a dropped     *)
(* line cuts them short.                                                   *)
KeysSent ==
  LET keys == SelectSeq(sent, LAMBDA c : c \in Keys)
  IN  IsPrefix(keys, Meant) /\ (hup \/ keys = Meant)

(* A take that saw its CTRLA, on a line that carried nothing else, has     *)
(* written the remote file to the local one, without the eighth bits and   *)
(* the returns; a character that is CTRLA without its eighth bit ends the  *)
(* file, and a NUL before the end never passes for a finished take.        *)
TakeExact ==
  st = "taken" /\ clean =>
    LET seen == [k \in DOMAIN body |-> Low(body[k])] \o <<"ctrlA">>
        last == CHOOSE k \in DOMAIN seen :
                  seen[k] = "ctrlA" /\ \A j \in 1..(k - 1) : seen[j] # "ctrlA"
        file == SubSeq(seen, 1, last - 1)
    IN  fpout = SelectSeq(file, LAMBDA c : c # "cr") /\ \A k \in DOMAIN file : file[k] # "nul"

(* cli_loop.c:61, "modem hangup -> done": the remote's events end the loop *)
(* only when the line has dropped.  The code tests revents && POLLHUP, so  *)
(* that the first data from the remote end it.                             *)
EndsOnHangup == [][st = "rem" /\ st' = "exit" => hup]_sesVars
=============================================================================
