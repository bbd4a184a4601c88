------------------------------ MODULE PsInput -------------------------------
(***************************************************************************)
(* The input machine of lprps (input.c, message.c, mail.c) on the          *)
(* characters that matter to it: the printer's messages are "%%[ ... ]%%", *)
(* everything else during a job is mailed to the user, except newlines     *)
(* before the first other character.                                       *)
(***************************************************************************)
EXTENDS Integers, Sequences, SequencesExt

CONSTANTS
  MBSIZE,     \* size of msgbuf
  MaxSeen     \* bound: characters received

VARIABLES
  parse_state,
  msgbuf,      \* the first msgcnt characters of msgbuf
  found,       \* the messages given to proc_msg
  mail,        \* what is in the mail file after the intro
  seen         \* every character received since init_input(1)

psVars == <<parse_state, msgbuf, found, mail, seen>>

InputChars == {"%", "[", "]", "n"}      \* "n" stands for a newline

(* The character that takes each state to the next one.                    *)
Expected ==
  [NORMAL |-> "%", HAD_ONE_PERCENT |-> "%", HAD_TWO_PERCENT |-> "[",
   IN_MESSAGE |-> "]", HAD_RIGHT_BRACKET |-> "%",
   HAD_RIGHT_BRACKET_AND_PERCENT |-> "%"]
NextState ==
  [NORMAL |-> "HAD_ONE_PERCENT", HAD_ONE_PERCENT |-> "HAD_TWO_PERCENT",
   HAD_TWO_PERCENT |-> "IN_MESSAGE", IN_MESSAGE |-> "HAD_RIGHT_BRACKET",
   HAD_RIGHT_BRACKET |-> "HAD_RIGHT_BRACKET_AND_PERCENT",
   HAD_RIGHT_BRACKET_AND_PERCENT |-> "NORMAL"]
(* Mutant of Held: the first of two percent signs is forgotten.            *)
HeldDropsOne ==
  [NORMAL |-> << >>, HAD_ONE_PERCENT |-> <<"%">>, HAD_TWO_PERCENT |-> <<"%">>,
   IN_MESSAGE |-> << >>, HAD_RIGHT_BRACKET |-> <<"]">>,
   HAD_RIGHT_BRACKET_AND_PERCENT |-> <<"]", "%">>]
(* What each state has read and not passed on.                             *)
Held ==
  [NORMAL |-> << >>, HAD_ONE_PERCENT |-> <<"%">>, HAD_TWO_PERCENT |-> <<"%", "%">>,
   IN_MESSAGE |-> << >>, HAD_RIGHT_BRACKET |-> <<"]">>,
   HAD_RIGHT_BRACKET_AND_PERCENT |-> <<"]", "%">>]
InMessage == {"IN_MESSAGE", "HAD_RIGHT_BRACKET", "HAD_RIGHT_BRACKET_AND_PERCENT"}

psInit ==
  /\ parse_state = "NORMAL" /\ msgbuf = << >> /\ found = << >>
  /\ mail = << >> /\ seen = << >>

(* mail_char for each of s: done_intro is set by the first character kept. *)
mail_char(s) == FoldLeft(LAMBDA m, c : IF m = << >> /\ c = "n" THEN m ELSE Append(m, c),
                         mail, s)
(* msg_char for each of s: one place is left for the null byte.            *)
msg_char(s)  == FoldLeft(LAMBDA m, c : IF Len(m) < MBSIZE - 1 THEN Append(m, c) ELSE m,
                         msgbuf, s)

(* The last percent sign: proc_msg.                                        *)
MsgEnd ==
  /\ parse_state = "HAD_RIGHT_BRACKET_AND_PERCENT"
  /\ found' = Append(found, msgbuf) /\ parse_state' = "NORMAL" /\ UNCHANGED <<msgbuf, mail>>

proc_input_char(c) ==
  /\ Len(seen) < MaxSeen
  /\ seen' = Append(seen, c)
  /\ \/ /\ c = Expected[parse_state]
        /\ \/ MsgEnd
           \/ /\ parse_state /= "HAD_RIGHT_BRACKET_AND_PERCENT"
              /\ parse_state' = NextState[parse_state]
              /\ msgbuf' = IF parse_state = "HAD_TWO_PERCENT" THEN << >> ELSE msgbuf
              /\ UNCHANGED <<found, mail>>
     \/ /\ c /= Expected[parse_state]
        /\ LET s == Append(Held[parse_state], c)
           IN  IF parse_state \in InMessage
               THEN msgbuf' = msg_char(s) /\ parse_state' = "IN_MESSAGE" /\ UNCHANGED mail
               ELSE mail' = mail_char(s) /\ parse_state' = "NORMAL" /\ UNCHANGED msgbuf
        /\ UNCHANGED found

psNext == \E c \in InputChars : proc_input_char(c)

-----------------------------------------------------------------------------
(* The same, said of the whole input at once: the first "%%[" starts a     *)
(* message, the first "]%%" after it ends it.                              *)
At(s, i, w)  == i + Len(w) - 1 <= Len(s) /\ SubSeq(s, i, i + Len(w) - 1) = w
FirstAt(s, w) == IF \E i \in 1..Len(s) : At(s, i, w)
                 THEN CHOOSE i \in 1..Len(s) : At(s, i, w) /\ \A j \in 1..(i-1) : ~At(s, j, w)
                 ELSE 0
Split[s \in Seq(InputChars)] ==
  LET b == FirstAt(s, <<"%", "%", "[">>)
      t == SubSeq(s, b + 3, Len(s))
      e == FirstAt(t, <<"]", "%", "%">>)
  IN  IF b = 0 THEN [mail |-> s, msgs |-> << >>]
      ELSE IF e = 0 THEN [mail |-> SubSeq(s, 1, b - 1), msgs |-> << >>]
      ELSE LET r == Split[SubSeq(t, e + 3, Len(t))]
           IN  [mail |-> SubSeq(s, 1, b - 1) \o r.mail,
                msgs |-> <<SubSeq(t, 1, e - 1)>> \o r.msgs]

Clear(s) == \A w \in {<<"%", "%", "%">>, <<"]", "]">>, <<"]", "%", "]">>} : FirstAt(s, w) = 0
Strip(s) == FoldLeft(LAMBDA m, c : IF m = << >> /\ c = "n" THEN m ELSE Append(m, c), << >>, s)
Cut(s)   == SubSeq(s, 1, IF Len(s) < MBSIZE THEN Len(s) ELSE MBSIZE - 1)

(* On input without "%%%", "]]" and "]%]", where the machine does not look *)
(* back far enough, the six states of proc_input_char find exactly the     *)
(* messages, and mail exactly the rest once nothing is held back.          *)
ParsesRight ==
  Clear(seen) =>
    LET r == Split[seen]
    IN  /\ [i \in DOMAIN r.msgs |-> Cut(r.msgs[i])] = found
        /\ parse_state = "NORMAL" => Strip(r.mail) = mail
        /\ parse_state \notin InMessage => Strip(r.mail) = mail_char(Held[parse_state])

(* msgbuf[msgcnt] = 0 in proc_msg stays inside the buffer, whatever the    *)
(* printer sends between the brackets (message.c:39).                      *)
MsgFits == Len(msgbuf) <= MBSIZE - 1
=============================================================================
