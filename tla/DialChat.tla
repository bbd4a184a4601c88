------------------------------ MODULE DialChat ------------------------------
(***************************************************************************)
(* What calld's child does with its line: child_dial of childdial.c,       *)
(* dial_find of dialfile.c, tty_open of ttyopen.c, and the expect/send     *)
(* conversation of ttydial.c, expectstr.c and sendstr.c.  An expect string *)
(* is a sequence of characters, a send string a sequence of characters and *)
(* escapes; << >> as an expect string is the "" that expects nothing.      *)
(***************************************************************************)
EXTENDS Integers, Sequences, SequencesExt

CONSTANTS
  Expsends,   \* the conversations of the Dialers file: expect, send, expect, ...
  Phones,     \* the phone numbers of the Systems file, send strings
  Heard,      \* characters the modem sends
  MaxHeard    \* bound: characters the modem sends of its own accord

VARIABLES
  dpc,        \* the statement the child is at
  dialer,     \* the device's dialer: "direct", "found" or "missing" in Dialers
  expsend, phone,   \* its conversation, and the number
  word,       \* index of the string strtok has returned
  stack,      \* calls of send_str: what each has still to send, its echocheck
  inbuf,      \* what expect_str has compared or will compare, from cmpptr on
  read,       \* every character this expect_str has read
  caught_alrm, alarmed,   \* alarmed: alarm(expalarm) is running
  modem,      \* characters on their way to us
  heard,      \* how many the modem has sent
  written,    \* what was written to the line
  result      \* "none", "fd" or "errmsg": what the client has been sent

chatVars == <<dpc, dialer, expsend, phone, word, stack, inbuf, read, caught_alrm, alarmed, modem,
              heard, written, result>>

Escapes == {"\\c", "\\d", "\\p", "\\e", "\\E", "\\T", "\\r", "\\s", "\\", "\\?"}

chatInit ==
  /\ dpc = "dial_find" /\ dialer \in {"direct", "found", "missing"}
  /\ expsend \in Expsends /\ phone \in Phones
  /\ word = 1 /\ stack = << >> /\ inbuf = << >> /\ read = << >>
  /\ caught_alrm = 0 /\ alarmed = FALSE
  /\ modem = << >> /\ heard = 0 /\ written = << >> /\ result = "none"

Entry    == <<dialer, expsend, phone>>
Reading  == <<inbuf, read, caught_alrm, alarmed>>
Line     == <<modem, heard, written>>

-----------------------------------------------------------------------------
(* child_dial: a direct line needs no dialer.                              *)
dial_find ==
  /\ dpc = "dial_find"
  /\ dpc' = IF dialer = "missing" THEN "die" ELSE "tty_open"
  /\ UNCHANGED <<Entry, word, stack, Reading, Line, result>>

(* tty_open: no such device, not a terminal, an invalid speed, or open.    *)
tty_open ==
  /\ dpc = "tty_open"
  /\ dpc' \in {"die", IF dialer = "direct" THEN "send_fd" ELSE "expect"}
  /\ UNCHANGED <<Entry, word, stack, Reading, Line, result>>

SendFd ==
  /\ dpc = "send_fd"
  /\ result' = "fd" /\ dpc' = "exit0"
  /\ UNCHANGED <<Entry, word, stack, Reading, Line>>

die ==
  /\ dpc = "die"
  /\ result' = "errmsg" /\ dpc' = "exit1"
  /\ UNCHANGED <<Entry, word, stack, Reading, Line>>

(* tty_dial: strtok returns the next string, or the chat is over.          *)
NextWord(kind) ==
  IF word < Len(expsend) THEN dpc' = kind /\ word' = word + 1
                         ELSE dpc' = "send_fd" /\ UNCHANGED word

-----------------------------------------------------------------------------
(* \r and \s stand for a return and a space.                              *)
Char(c) == CASE c = "\\r" -> "cr" [] c = "\\s" -> "sp" [] OTHER -> c
Exp == [i \in DOMAIN expsend[word] |-> Char(expsend[word][i])]

(* expect_str: the string is copied, or refused; the alarm is set.         *)
expect_str ==
  /\ dpc = "expect"
  /\ inbuf' = << >> /\ read' = << >>
  /\ IF expsend[word] = << >>
     THEN NextWord("send") /\ alarmed' = FALSE /\ UNCHANGED caught_alrm
     ELSE IF \E i \in DOMAIN expsend[word] : expsend[word][i] \in Escapes \ {"\\r", "\\s"}
     THEN dpc' = "die" /\ UNCHANGED <<word, caught_alrm, alarmed>>
     ELSE dpc' = "skip" /\ caught_alrm' = 0 /\ alarmed' = TRUE /\ UNCHANGED word
  /\ UNCHANGED <<Entry, stack, Line, result>>

(* SIGALRM, 45 seconds after expect_str was called.                        *)
AlarmRings == alarmed /\ alarmed' = FALSE /\ caught_alrm' = 1

(* exp_read takes a character.  Its result is never < 0, so that no caller *)
(* notices a timeout; it reads nothing once it has found caught_alrm set,  *)
(* but a signal between that test and the read does not stop the read.     *)
exp_read ==
  /\ caught_alrm = 0 /\ modem # << >>
  /\ modem' = Tail(modem) /\ read' = Append(read, Head(modem))
  /\ AlarmRings \/ UNCHANGED <<caught_alrm, alarmed>>

(* Skip until the first characters are equal.  After the alarm c keeps its *)
(* value and this loop spins: there is no step.                            *)
Skip ==
  /\ dpc = "skip" /\ exp_read
  /\ IF Head(modem) = Exp[1] THEN dpc' = "fill" /\ inbuf' = <<Head(modem)>>
                             ELSE UNCHANGED <<dpc, inbuf>>
  /\ UNCHANGED <<Entry, word, stack, heard, written, result>>

(* Read matchlen characters.                                               *)
Fill ==
  /\ dpc = "fill"
  /\ IF Len(inbuf) < Len(Exp)
     THEN exp_read /\ inbuf' = Append(inbuf, Head(modem)) /\ UNCHANGED dpc
     ELSE dpc' = "match" /\ UNCHANGED <<Reading, modem>>
  /\ UNCHANGED <<Entry, word, stack, heard, written, result>>

(* Mutant of Slide: the window starts anew when it does not match.         *)
SlideAnew == dpc' = "skip" /\ inbuf' = << >> /\ UNCHANGED <<modem, read, caught_alrm, alarmed>>
(* No match: one more character, and the window moves on.                  *)
Slide == exp_read /\ inbuf' = Append(Tail(inbuf), Head(modem)) /\ UNCHANGED dpc

Match ==
  /\ dpc = "match"
  /\ \/ /\ inbuf = Exp /\ alarmed' = FALSE /\ NextWord("send")
        /\ UNCHANGED <<inbuf, modem, read, caught_alrm>>
     \/ inbuf # Exp /\ Slide /\ UNCHANGED word
  /\ UNCHANGED <<Entry, stack, heard, written, result>>

(* After the alarm inptr and cmpptr run on over bytes nobody has read: the *)
(* child crashes, or finds the expected string (expstr is on the stack).   *)
RunsOn ==
  /\ dpc \in {"fill", "match"} /\ caught_alrm = 1 /\ inbuf # Exp
  /\ \/ dpc' = "crash" /\ UNCHANGED <<word, alarmed>>
     \/ NextWord("send") /\ alarmed' = FALSE
  /\ UNCHANGED <<Entry, stack, inbuf, read, caught_alrm, Line, result>>

sig_alrm ==
  /\ AlarmRings
  /\ UNCHANGED <<dpc, Entry, word, stack, inbuf, read, Line, result>>

-----------------------------------------------------------------------------
(* send_str: the innermost call and what it has left.                      *)
Top     == stack[Len(stack)]
Rest    == [stack EXCEPT ![Len(stack)].toks = Tail(@)]
Popped  == SubSeq(stack, 1, Len(stack) - 1)
SendEnv == <<Entry, Reading, heard, result>>

(* It returns: from a \T the result is not looked at.                      *)
SendReturns(rc) ==
  /\ stack' = Popped
  /\ IF Len(stack) > 1 THEN dpc' = "send_str" /\ UNCHANGED word
     ELSE IF rc < 0 THEN dpc' = "die" /\ UNCHANGED word
     ELSE NextWord("expect")

SendStart ==
  /\ dpc = "send"
  /\ stack' = <<[toks |-> expsend[word], echo |-> FALSE]>>
  /\ dpc' = "send_str"
  /\ UNCHANGED <<word, modem, written, SendEnv>>

(* At the end of the string, a carriage return.                            *)
SendEnd ==
  /\ dpc = "send_str" /\ Top.toks = << >>
  /\ written' = Append(written, "cr")
  /\ SendReturns(0)
  /\ UNCHANGED <<modem, SendEnv>>

(* Characters, \r and \s.                                                  *)
SendChar ==
  /\ dpc = "send_str" /\ Top.toks # << >>
  /\ Head(Top.toks) \notin Escapes \ {"\\r", "\\s"}
  /\ written' = Append(written, Char(Head(Top.toks)))
  /\ dpc' = IF Top.echo THEN "echo" ELSE "send_str"
  /\ stack' = IF Top.echo THEN stack ELSE Rest
  /\ modem' = IF Top.echo THEN Append(modem, Char(Head(Top.toks))) ELSE modem
  /\ UNCHANGED <<word, SendEnv>>

(* Echo check: read until the character comes back, with no time limit.    *)
Echo ==
  /\ dpc = "echo" /\ modem # << >>
  /\ modem' = Tail(modem)
  /\ IF Head(modem) = Char(Head(Top.toks)) THEN dpc' = "send_str" /\ stack' = Rest
                                          ELSE UNCHANGED <<dpc, stack>>
  /\ UNCHANGED <<word, written, SendEnv>>

(* Mutant of PhoneCall: the rest of the string is forgotten.               *)
PhoneCallForgets == <<[toks |-> phone, echo |-> Top.echo]>>
(* \T: a call of send_str for the phone number.                            *)
PhoneCall == Append(Rest, [toks |-> phone, echo |-> Top.echo])

SendEscape ==
  /\ dpc = "send_str" /\ Top.toks # << >>
  /\ LET c == Head(Top.toks)
     IN  \/ c = "\\c" /\ Len(Top.toks) = 1 /\ SendReturns(0)
         \/ /\ \/ c \in {"\\d", "\\p"} \/ (c = "\\c" /\ Len(Top.toks) > 1)
            /\ stack' = Rest /\ UNCHANGED <<dpc, word>>
         \/ /\ c \in {"\\e", "\\E"}
            /\ stack' = [Rest EXCEPT ![Len(stack)].echo = (c = "\\E")] /\ UNCHANGED <<dpc, word>>
         \/ c = "\\T" /\ stack' = PhoneCall /\ UNCHANGED <<dpc, word>>
         \/ c \in {"\\", "\\?"} /\ SendReturns(-1)
  /\ UNCHANGED <<modem, written, SendEnv>>

(* log_sys("read error"): the line has failed, and the child ends without  *)
(* a word to the client.                                                   *)
LineFails ==
  /\ dpc \in {"skip", "fill", "match", "echo"} /\ caught_alrm = 0 /\ modem = << >>
  /\ dpc' = "log_sys"
  /\ UNCHANGED <<Entry, word, stack, Reading, Line, result>>

-----------------------------------------------------------------------------
(* The modem says something.                                               *)
ModemSays(c) ==
  /\ heard < MaxHeard /\ dpc \notin {"exit0", "exit1", "log_sys", "crash", "dial_find", "tty_open"}
  /\ heard' = heard + 1 /\ modem' = Append(modem, c)
  /\ UNCHANGED <<dpc, Entry, word, stack, Reading, written, result>>

Dialer == \/ dial_find \/ tty_open \/ SendFd \/ die \/ expect_str \/ Skip \/ Fill \/ Match \/ RunsOn
          \/ SendStart \/ SendEnd \/ SendChar \/ Echo \/ SendEscape
chatNext == Dialer \/ LineFails \/ sig_alrm \/ \E c \in Heard : ModemSays(c)

-----------------------------------------------------------------------------
Ends(s, e) == Len(e) <= Len(s) /\ SubSeq(s, Len(s) - Len(e) + 1, Len(s)) = e

(* expect_str goes on at the first place where what was read ends in the   *)
(* expected string: it has not read past it, and overlapping beginnings do *)
(* not make it miss one.                                                   *)
ExpectFound ==
  dpc \in {"skip", "fill", "match"} /\ caught_alrm = 0 =>
    /\ \A n \in 1..(Len(read) - 1) : ~Ends(SubSeq(read, 1, n), Exp)
    /\ Ends(read, Exp) => dpc \in {"fill", "match"} /\ inbuf = Exp

(* What the send strings stand for: escapes replaced, the phone number     *)
(* with the return that ends it, a return at the end unless \c is last.    *)
Sends[toks \in Seq(STRING)] ==
  IF toks = << >> THEN <<"cr">>
  ELSE IF Head(toks) = "\\c" /\ Len(toks) = 1 THEN << >>
  ELSE IF Head(toks) \in {"\\", "\\?"} THEN << >>
  ELSE (CASE Head(toks) = "\\T" -> Sends[phone]
          [] Head(toks) \in {"\\c", "\\d", "\\p", "\\e", "\\E"} -> << >>
          [] OTHER -> <<Char(Head(toks))>>) \o Sends[Tail(toks)]
Spoken == FlattenSeq([i \in 1..(Len(expsend) \div 2) |-> Sends[expsend[2 * i]]])

(* The modem is sent the conversation's own characters, in order and each  *)
(* once, whatever it echoes or says meanwhile; the client gets the         *)
(* descriptor only when all of them have been sent.                        *)
SaysAll ==
  dialer = "found" =>
    /\ IsPrefix(written, Spoken)
    /\ result = "fd" => written = Spoken
=============================================================================
