# Verification of the AP_UNIX programs

The repository collects exercises: several CMake tutorial trees (`t1` to `t6`,
`testfoobar`, `Tests`, `Gromit`, `HelloWorld`, `makefiledemo`, `gdb`, `shdemo`)
and, under `AP_UNIX/`, the multi-process programs that carry real logic: a
database library, a modem dialer (daemon and client), a descriptor-passing
layer with the open servers built on it, a PostScript printer daemon, a
pseudo-terminal driver, and the process synchronisation, signal, terminal and
lock routines they share.  This directory models those programs in TLA+, checks
the models with TLC on small instances and proves theorems about them with
TLAPS.

## Inventory

| Component (source) | State | Operations | What is hard | Module |
|---|---|---|---|---|
| Database library (`db.c`, `lock-func.c`) | index and data file, hash table, free list, record locks, one `DB` per process | fetch, store, delete, nextrec, rewind | locks held over several system calls, order of the writes, reuse of deleted records, death of a process | `Db`, `DbMap` |
| Dialing daemon (`chapter18/server-main.c`, `loop.c`, `client.c`, `request.c`, `lock.c`, `sigchld.c`, `childdial.c`, `sysfile.c`, `devfile.c`) | `client[]`, `lock[]`, `chld_flag`, children | select loop, request, retry, SIGCHLD handler, end of a client | handler between any two steps, coalesced signals, reused entries, a client that leaves early | `Calld` |
| call client (`chapter18/client-main.c`, `call.c`, `cli_loop.c`, `doescape.c`, `take.c`, `put.c`, `cli_assist.c`) | connection, line, `bol`, terminal mode | connect, ask, copy, escapes, take, put, suspend | two input sources, mode at every exit, echoes in pieces | connecting in `Calld`, the session in `Session` |
| Dialing chat (`chapter18/childdial.c`, `dialfile.c`, `ttyopen.c`, `ttydial.c`, `expectstr.c`, `sendstr.c`) | match window, send position, alarm | find the dialer, expect, send, escapes, echo check | overlapping matches, alarm at any time, recursion for the phone number | `DialChat` |
| TELL/WAIT (`signal-sync.c`) and its users (`ipc_dev.c`, `ipc_anonymous.c`, `race-fork.c`, `deadlock-demo.c`, `chk-lck.c`) | signal mask, `sigflag`, shared counter, byte locks | TELL, WAIT, update, lock | lost wakeups, two waiters, turns | `SignalSync`, `IpcDev`, `SyncDemos` |
| Descriptor passing (`proc_com_43pbds.c`, `spipe_func.c`) | stream pipe | send_fd, send_err, recv_fd | two-byte trailer split over reads, status in one byte | `FdPass` |
| Open servers (`open*.c`, `opend*.c`, `cs_43pbsd.c`) | `client[]`, watched descriptors, queued connections | connect, accept, request, reply, hangup | entries and descriptors reused, client gone, select and poll loops | `FdPass`, `OpenServer` |
| Printer daemon (`lprps.c`, `input.c`, `message.c`, `output.c`, `interrupt.c`, `alarm.c`, `tty.c`, ...) | signal flags, line buffers, parser state, page counts | status and page queries, copying, interrupt, accounting | two signals at any point, short writes, unsolicited output, unset values | `Lprps`, `PsInput` |
| pty (`ptymain.c`, `ptyloop.c`, `ptyfork.c`, `ptyopen_43bsd.c`, `dodriver.c`) | two copying processes, terminal mode | open, fork, copy, SIGTERM handshake | which side ends first, SIGTERM before the handler | `Pty`, `TtyModes` |
| Sleep and alarm programs (`sleep1-demo.c`, `sleep2-demo.c`, `my-sleep.c`, `do-sleep2.c`, `read-time.c`, `read-demo.c`, `sigsuspend-global.c`) | alarm, mask, action, jump buffer | sleep, read with timeout | alarm before pause, longjmp over another handler | `Sleeps` |
| Single-instance daemon (`daemon-lock.c`) | pid file, lock | start, end | starts and kills at any step | `DaemonLock` |
| popen, system (`pipe-func.c`, `file2popen.c`, `system-func.c`, `ystem.c`, `system-ed.c`) | child table, dispositions, mask | popen, pclose, fclose, system | inherited descriptors, stale entries, SIGCHLD and SIGINT around the wait | `Popen`, `System` |
| Terminal modes (`term-func.c`) | saved mode, state | raw, reset, exit handler | state is per process, the terminal is shared | `TtyModes` in `Pty` and `Session` |
| Error and I/O routines (`ourhdr.c`, `io-func.c`) | none | err_*, writen | short writes | in the modules of their callers |

How they interact: `db.c` processes share the two files and the kernel's record
locks and nothing else.  Clients of the dialer connect over a stream socket; the
daemon forks a child for each attempt, synchronises with it over a pipe
(`TELL_WAIT` in `chapter18/pipe-func.c`), and learns of its end from SIGCHLD;
the child answers the client directly with `send_fd`.  Parent and child in the
TELL/WAIT programs share a mapped counter or a locked file and signal each other
with SIGUSR1 and SIGUSR2.  The client of the dialer then copies between its
terminal and the line whose descriptor the child sent it.  lprps and the child
that dials talk to a device that may say anything at any time.  pty's two
processes share the terminal and the master, and tell each other of the end with
SIGTERM.  The remaining programs do not interact with each other.

PROJECT.json lists the hazards line by line, with the properties that cover
each.

## Modules and the code

### Db: the database library

A state of `Db` is the hash table and free list head (`tbl`), the index and data
files, each process's read and write locks (`rd`, `wr`), its program counter, the
fields of its `DB` structure that matter (`d`), the descriptor offset that
`db_nextrec` relies on (`pos`), and the call in progress.  Each action is one
system call of `db.c` together with the code up to the next one: `FindLock` is
`_db_find` up to its lock, `FindHead` and `FindNext` the chain walk,
`AppDatLock`, `AppDat`, `AppDatUnlock` the three steps of `_db_writedat` in
append mode, `DelLock` ... `DelUnlock` the order of writes in `_db_dodelete`,
`FreeHead` ... `FreeUnlock` the walk of `_db_findfree`, which takes no lock.
`LinkFails` is the `err_quit` of `_db_writeptr` once the file has outgrown
`PTR_MAX`; `NextIdxFails` the `err_dump` of `_db_readidx`.  A data
value stands for its text and has a length (`DatLen`), because lengths decide
between overwriting in place, deleting and reinserting, and reuse.

`map` is a history variable: the abstract content, updated at the step where a
call takes effect.  It appears in no guard.

`DbMap` is the abstract specification: an atomic map with a call, an effect and
a return for each operation.  `DbRefine` gives the mapping (`absSt`, `absReq`,
`absRes`) and states `ImplementsMap`: scans are not calls of the map, and a call
has taken effect once its result is known.

Assumptions.  `SerialInserts`: since `_db_findfree` never locks the free list,
two stores that insert at the same time are not safe (run `db_findfree`); the
other runs let a call that may insert run only while no other process stores or
deletes.  Deletions, replacements, reads and scans overlap freely.  Processes in
`Killable` may end at any system call; the kernel releases their locks.
`Init` is the empty database that `db_open` writes and the `DB` structure as it
leaves it; the steps of `db_open` itself (open, truncate, lock, write) are not
modelled (it truncates before it locks; listed as a hazard).

### Calld: the dialing daemon

The daemon's program counter `dpc` goes through the steps of `loop()`,
`child_done()` and `request()`: `Top` (the test of `chld_flag`), `Enter` and
`Select` (so that SIGCHLD may fall between the test and the call), `Listen` and
`Accept`, the scan of `client[]`, and, in `request()`, `Fork`, `LockSet`, `TellChild` as
three steps.  `sig_chld` may run between any two of them.  `client` keeps the
fields `fd`, `pid`, `childdone`, `sysftell` and the saved request; a freed entry
keeps the others, as in the code.  `childdone` is 0, 1 (exit(0)) or 2 (any
failure); a child killed by a signal is reaped with the flag left at 0, which is
what `sig_chld` does.

`serv_accept` is the set of its results for a client: the new descriptor, -1
without a free descriptor or, in `Interrupted`, when SIGCHLD falls into `accept`
(the handler is installed without restart), and -2 to -5 for a name that cannot be
examined, is no socket, has the wrong mode or is stale.  `loop()` answers each
error with `log_sys`, so each of them ends the daemon; the label "no_accept" is that
end, "exit" is every other one (`log_quit` of the handler, `sys_posn`, SIGPIPE,
`pipe`).  The user id is left out.

`Hangup` says when a client may close: at "any" time, once it is "answered", or
once its child's end has been "settled" by the daemon too.  The code relies on
the last one without enforcing it; the runs show what holds under each.

Assumptions.  Clients are the repository's `call`: one well-formed request per
connection.  `fork`, `malloc` and `realloc` succeed, fresh memory is zero, pids
are not reused.  Writing to a closed connection raises SIGPIPE with its default
action, as the daemon does not ignore it.  Several queued connections are
accepted in any order.  The loop bound `maxi` is replaced by the length of
`client[]`: the entries beyond it are free and are skipped.  The two tests of
`childdone` in `child_done` are one step.  The dialing itself (`ttyopen`,
`tty_dial`) succeeds or fails.

### SignalSync, IpcDev, SyncDemos: TELL/WAIT

`SignalSync` has the state of `signal-sync.c`: blocked and pending signals and
`sigflag` of parent and child.  `WaitTest`, `WaitSuspend`, `WaitReset` and
`WaitUnmask` are the steps of WAIT_PARENT and WAIT_CHILD; `sig_usr` is the
handler, which runs when its signal is pending and not blocked.  `IpcDev`
composes it with the loops of `ipc_dev.c` and `ipc_anonymous.c`, where `update`
is a load and a store.  `SyncDemos` composes it with the three programs that use
it once; `Script` gives each program's statements, and Init picks the program.

### Lprps and PsInput: the printer filter

`Lprps` is the whole filter at the grain of its system calls.  `lpc` names the
place in the call chain (`gs_`, `gp_`, `send_`, `hi_`, `fl_` for `get_status`,
`get_page`, `send_file`, `handle_intr` and `printer_flushing`; `_write` and `_eof`
are `block_write`, `_read` and `_upto` the loops around `proc_some_input`), and
`sel` says that the process is past the tests of the flags, so that a signal
between test and `select` is a step of its own.  What the printer sends is a
sequence of complete items; an EOF comes only in answer to one.  `getc` says why
`getchar` returned EOF to `send_file`: the end of the file, a read error, or a
SIGINT while the read of the job slept (SIGINT is caught without restart); the
code cannot tell them apart and goes on to `out_char(EOF)` and the printer's EOF.
`IoFails` is the `log_sys` after any failing call on the printer's descriptor, and
`do_acct` may fail in `fclose`.  `handle_intr` and `printer_flushing` never
return, as in the code: they lead to `get_page`, the accounting and the exit.
`proc_msg` reads `val`, which is never assigned: it is any value, or the process
dies.  `PsInput` is `proc_input_char` on characters with its six states,
`msg_char`, `mail_char` and the buffer of messages, against a definition of what a
message is (`Split`).

### FdPass and OpenServer: passing descriptors

`FdPass` has the bytes: `csopen` of the forked open server, `send_err`, `send_fd`
and one pass of `recv_fd`'s loop per action.  Rights travel with the last byte.
`StatusByte` is the code in one unsigned byte, never 0; `send_err` compares a
variable it never set, so its text is sent or not.  `OpenServer` is the daemon
with requests and replies as whole items: `mux` picks the select or the poll
loop, `client` is the array, `rset` what the call found readable, `scan` where
the loop over the array is.  A client may leave at any time and come again, and
descriptors are the lowest free ones, so that entries and numbers are used again.
An entry poll sees for the first time has uninitialised `revents`, which makes
the daemon read from a client that has not asked yet.

### Pty, Session and TtyModes: programs on a terminal

`TtyModes` is the static data of `term-func.c` per process and the mode of the
terminal they share; `fork` copies the former.  `Pty` has main, `pty_fork` with
the search for a device, the parent that copies out, the child that copies in,
the handler and the exit functions of both, for all combinations of the options
that matter.  `Session` is `call` from the moment it has the line: `Poll`,
`ReadKey`, `doescape`, `take` with `rem_read`, `put`, suspension and exits.
`bol` starts as either value because the code does not set it.  `Terminates` and
`Processed` are the keys after an escape for which `doescape` returns a negative
number and 0; since it returns a signed char, a key above 127 is among the former
and a NUL among the latter.  The escape character itself is a 7-bit one.  `Low` is
the mask of `rem_read`, which drops the eighth bit before `take` looks at a
character.

### DialChat: the modem conversation

`child_dial`, `dial_find`, `tty_open` and `tty_dial` over a conversation given as
a sequence of expect and send strings whose escapes are single tokens.  `Skip`,
`Fill`, `Slide` and `Match` are the loops of `expect_str`; `stack` holds the
calls of `send_str`, more than one while the phone number is sent.  `RunsOn` is
`expect_str` after a timeout it does not notice; a signal between `exp_read`'s test
of `caught_alrm` and its `read` lets one more character in.  The length of `inbuf`
is not modelled.

### Popen, System, Sleeps, DaemonLock

`Popen` numbers the calls of popen; a child holds the caller's ends of the pipes
that were open at fork until it closes those it finds in `childpid[]`.  `System`
has both versions, with SIGINT and SIGCHLD delivered between any two steps and a
caller whose SIGCHLD handler may wait itself.  `Sleeps` writes each program as
the sequence of its system calls; `Deliver` is SIGALRM (or SIGQUIT) with what the
program's handler does.  `DaemonLock` has a run of the program per process id; a
run may end at any step, and the kernel then drops its lock.

### Programs, MCPrograms and MCSession

The programs of the last five sections and of TELL/WAIT are small and do not
interact, so `Programs` puts them into one specification: `chosen` says which
program a behaviour is about and the variables of the others keep their initial
values.  Each property is about one program (or, for the terminal and for waiting
on children, about two that use the same routines) and is stated in that program's
module; a wrapper with several conjuncts joins the parts of one contract.
`MCPrograms` adds the values of the constants that a cfg cannot write; `MCSession`
is `Session` on its own, for what a comment of `cli_loop.c` says.

## Runs

| Run | Instance | Shows |
|---|---|---|
| `db_scan` | 3 processes, 2 keys on 1 chain, 3 data values of 2 lengths | `ChainsAgree`, `NoLeak`, `NextrecPair`, `OverwriteFits` |
| `db_writers` | 2 writers and a reader, 2 chains, `PTR_MAX` = 4 | `TypeOK`, `ReuseExclusive`, `SectionsExclusive`, `ImplementsMap`, `ChangesUnderLock` |
| `db_faults` | an inserter killed anywhere, a writer, a reader that fetches or scans; with fairness | `ChainsAgree`, `CallsReturn` |
| `db_findfree` | two inserters without the caller's contract | violation of `ReuseExclusive` |
| `calld_settled` | 3 clients, 2 hosts, 2 lines, 3 children | `LineExclusive`, `EndsAtAccept`, `LocksOwned`, `AnswersMatch`, `RetriesAdvance`, `DialsUnderLock` |
| `calld_any` | 3 clients that leave at any time, descriptors run out | `HandlerReturns`, `DialStarts` |
| `calld_lines` | a client leaves while its child dials | violation of `LineExclusive` |
| `calld_exits` | a client leaves with its answer, its entry is reused | violation of `EndsAtAccept` |
| `calld_reap` | two children end before the handler runs | violation of `Reaped` |
| `ipc_stuck` | 4 rounds, with fairness | violation of `Terminates` |
| `programs` | see below, with fairness | 15 invariants and 6 temporal or action properties of `MCPrograms.cfg` |
| `session_hangup` | 3 keys, 1 character from the remote | violation of `EndsOnHangup` |

What `programs` shows, program by program:

| Program | Properties |
|---|---|
| ipc_dev | `TurnsAlternate`: one process has the turn, and no increment is lost |
| race-fork, deadlock-demo, chk-lck | `DemosAgree`, `Terminated` |
| lprps | `WholeJob` (the job goes out once, in order, and what its EOF follows), `JobDone` (only the answer to its own EOF ends it, and never a job cut off by SIGINT), `JobAccounted` (charged once, never when reprinted, never timed out), `ParsesRight` |
| csopen and the forked server | `AnswerRight` |
| opend | `ClientsServed`, and `Answered` under fairness |
| pty | `CopiesInOrder`, `TerminalRight`, and `BothEnd` under fairness |
| call | `TerminalRight`, `KeysSent` (the keys sent are those meant, with the code's own reading of NUL and of keys above 127; a take that ends well has the remote file up to the first CTRLA, eighth bits dropped) |
| modem chat | `ExpectFound`, `SaysAll` |
| popen, system | `StatusRight`, and `PcloseEnds` under fairness |
| sleeps | `AlarmKept`, and `TimeUp` under fairness |
| daemon-lock | `OneDaemon` |

Bounds.  `MaxCalls` bounds the calls of each process: three calls of a writer
are the fewest that store, delete and store again into the freed record while
others run, and they include replacing a record by one of another length; the
second writer adds the overlap on another chain.  Two data lengths make both the
in-place and the delete-and-insert replacement happen, and a free record that
fits or does not.  `PTR_MAX` = 4 with two chains leaves room for two records, so
that the third append is refused; with 9 it never is.  In `calld_settled`
`MaxPid` = 3 children are enough for two clients at once and a retry, with two
lines for two hosts of which one is shared; `NALLOC` = 2 makes `client[]` grow.
In `calld_any`, `OPEN_MAX` = 9 lets one or two requests through before `pipe` or
`accept` fails.  In `db_writers` the contract on inserts leaves `ReuseExclusive` only
its part about the free list (the record handed out is off it); the race itself is
what `db_findfree` is for.  The instances with symmetry permute clients, which the model
never compares or orders.  `NLOOPS` = 7 and 4 go past the first round, where the
signal mask changes for good, in both processes.

In `programs`, a job of 3 characters with `OBSIZE` = 2 needs two buffers and short
writes; 2 unsolicited items are a status and a page count, or a surprise in place
of one, beside the EOFs the printer owes, and 2 SIGINTs reach both the handler and
the state it leaves.  Seven characters hold a whole message, `%%[` to `]%%`, and
one more, and `MBSIZE` = 3 is overrun by the longer ones.  `MAXLINE` = 4 puts the
trailer inside, across and behind the edge of `recv_fd`'s buffer; the error codes
include multiples of 256 and one that is not negative.  Two clients of opend with
two requests each, `NALLOC` = 1, come and go without bound.  pty copies 3 and 2
characters with `BUFFSIZE` = 2.  Three keys are an escape, its command and one
more; the remote files hold a return, a character with its eighth bit, and one
that is a NUL or CTRLA without it.  The conversations have an expected string that
overlaps itself, every escape, the phone number and tokens that end a string.
Three calls of popen are enough for a stale entry, its reuse and an inherited end.

Deadlock is checked in the `db_*` runs (`Done` is the only state in which they
may stop).  A daemon with no clients left waits in select, the processes of
`ipc_dev` can hang, which `ipc_stuck` is about, and the programs of `programs`
end, so those cfgs do not check it.

Fairness.  Weak fairness of each process's steps (`Db`, `IpcDev`, `SyncDemos`):
the kernel schedules a process that can run and grants a lock that stays free.  No
process is obliged to make another call.  `Calld`: the daemon runs, a pending
signal is delivered, and a child that dials ends.  The last is an assumption about
the modem and not something the code guarantees: the alarm of `expectstr.c` is not
noticed (see below) and `sendstr.c` reads echoes without one, so a child whose
line falls silent dials for ever.  Of the `calld` runs only `calld_reap` has
fairness, and its counterexample is a child that has ended.  `programs`: each
process of the TELL/WAIT programs, the daemon opend, pty's processes, the slave
program, popen's commands and the sleeping programs run; pending signals are
delivered, an alarm that is set goes off and a handler returns.  A client of opend
that has connected sends its request, because `csopen` connects only to write at
once.  Nobody is obliged to type, to hang up, to start a program or, in `lprps`,
`call` and the chat, to say anything.  Strong fairness is assumed nowhere.

What the violations show:

* `db.c:611`: the comment "Lock the free list" has no code under it.  Two
  inserts on different chains take the same free record.
* `loop.c:80`: the line is released on the client's end of file although its
  child may still be dialing; the next request dials on the same line.
* `client.c:74`: the handler ends the daemon when the entry of a child's client
  has been reused before the child is reaped.
* `sigchld.c:13`: one `waitpid` per SIGCHLD, but two children may share one
  signal; the second is never reaped, and its client waits for ever.
* `signal-sync.c:63`: after the first WAIT the signals are unblocked while
  `sigflag` is tested; a signal between the test and `sigsuspend` is lost.
* `cli_loop.c:60`: `revents && POLLHUP` is true for any event on the line, so a
  session ends with the first data from the remote host.

Seen while modelling, without a run of their own (changing the named constant in a
cfg shows each): under Hangup = "any" `AnswersMatch` and `DialsUnderLock` fail as
well (a reused entry is marked by the previous client's child); SIGCHLD between
the test of `chld_flag` and `select` (`loop.c:33-36`) is noticed only when a
client next writes; the pipes of `TELL_WAIT` are never closed, so with a small
`OPEN_MAX` the daemon ends in `err_sys`; a `db_fetch` between two `db_nextrec`
calls moves the descriptor offset, and the scan ends in `err_dump`.  In every run
of `Calld` a SIGCHLD in `accept`, or a client whose name is too old when a busy
daemon gets to it, ends the daemon at `loop.c:50`.

In the smaller programs, part of the models unless marked:

* `input.c:57`: SIGALRM between the test of `alrm_flag` and `select` only sets the
  flag, so "5 second timeout to fetch status" (`getstatus.c:13`) does not hold for
  a silent printer.
* `sendfile.c:10`: a read error looks like the end of the job.  The printer is sent
  its EOF after a part of it, and the pages are charged with EXIT_SUCCESS.  A SIGINT
  in the first read sends an EOF before the Control-C of `handle_intr`.
* `message.c:37`: `val` is never assigned, so every "key: val" message is read
  from wherever it points.
* `input.c`: "%%%[", "]]%%" and "]%]%%" are not recognised, as the states do not
  go back far enough; `ParsesRight` is stated for input without them.
* `proc_com_43pbds.c:27`: `send_err` compares `n`, which it never set, with the
  length of the text.  A text that ends one byte before the end of `recv_fd`'s
  buffer makes the client stop with "message format error" (`AnswerRight` says
  that nothing else does).
* `expectstr.c:48`: `exp_read` returns `size_t`, so that the -1 after a timeout is
  not below 0 and `expect_str` reads on; `sendstr.c:63` reads the echo without an
  alarm.  `expectstr.c:64` moves on through `inbuf` without a bound (the bound is
  not in the model).
* `doescape.c:43`: the key after an escape comes back as a signed char.  One above
  127 is negative and ends the session, and a NUL is dropped, where the comment at
  `doescape.c:5-8` promises the key itself; `KeysSent` is stated with these two
  exceptions, and TLC refutes it without them.
* `cli_loop.c:14`: `bol` is not initialised, so a `~` typed first may or may not
  be an escape.  `take.c:85`: 0x80 in a remote file looks like a dropped line and
  0x81 like the CTRLA that ends the file.
* `ptyloop.c:44`: SIGTERM between the write and the read is noticed only when the
  slave says something or ends.
* `opend-poll.c:36`: `revents` of a new entry is read before poll has set it, and
  the daemon may sleep in a read of one client.  A client that leaves before its
  answer kills the daemon with SIGPIPE.
* `pipe-func.c:10`: `SHELL` is `bin/sh` without its slash, so that commands run
  only from the root directory.  The child's failure to run it is `ExecFails`.
* `sleep1-demo.c:13`, `read-time.c`: the alarm may go off before the call it is to
  interrupt; `TimeUp` leaves the two out.

## Proofs

All theorems hold for every value of the constants allowed by the named
assumptions, which TLC evaluates on the instances, and by the hypotheses that a
theorem states itself.  They are in eight modules:

| Module | Theorems about | Assumptions on constants |
|---|---|---|
| `DbProofs`, `DbListProofs` | `Db`, `DbRefine` | `ConstAssumption` |
| `CalldProofs` | `Calld` | `CalldAssumption`, `LinesAssumption` |
| `LprpsProofs` | `Lprps` | none |
| `SyncProofs` | `IpcDev`, `DaemonLock`, `SyncDemos` | `NLoopsAssumption` |
| `ServerProofs` | `FdPass`, `OpenServer`, `DialChat` | `FdAssumption` (a buffer has a byte, codes are integers, a name can be opened or not), `OpenAssumption` (finitely many clients, an allocation adds an entry), `ChatAssumption` (conversations are strings, at least one) |
| `ProcessProofs` | `System`, `Popen`, `Sleeps` | `ProcessAssumption` (`MaxPopen` is a number) |
| `TerminalProofs` | `Session`, `Pty`, `TtyModes` | `PtyAssumption` (texts are sequences) |

The last three, and the theorem on `SyncDemos`, are about `ProgSpec` of `Programs`,
which the run `programs` checks.  A step of `ProgSpec` is a step of one program or
leaves that program's variables alone (`SystemSteps`, `OpenSteps`, ...), so an
invariant of the program is one of the whole.

### Db

* `DbProofs!TypeCorrect` (`TypeOK`).  The pointers a process holds between two
  system calls become pointers in the files, so the inductive invariant is
  `TypeOK` with `PcInv`: what the fields of the `DB` structure and the call's
  arguments must be at each program label.  One lemma per group of actions.  It
  needs neither the locks nor the contract on inserts, and processes may be
  killed anywhere: a pointer in a file is always null or the offset of a record
  that exists, and never exceeds `PTR_MAX`.
* `DbProofs!MutualExclusion` (`SectionsExclusive`).  The invariant
  `LockInv` says that locks held by different processes are compatible and that
  a process at a label inside a section holds the section's lock (`HeldOK`).
* `DbListProofs`: `ChainsRight` (`ChainsAgree`), `NothingLost` (`NoLeak`),
  `ReuseAlone` (`ReuseExclusive`), `ScansPair` (`NextrecPair`), `SizesFit`
  (`OverwriteFits`), `Implements` (`ImplementsMap`) and `LockedChanges`
  (`ChangesUnderLock`), for any number of processes, keys, chains and calls.

The theorems of `DbListProofs` have two hypotheses.  `SerialInserts`: without it
`ReuseExclusive` fails (run `db_findfree`), and the rest with it.  `Killable = {}`:
a process killed between the writes of a call leaves a record on no list, or, in
`_db_dodelete`, on two; the run `db_faults` says what a killed *inserter* leaves
intact.  The death of a process that cannot link its record (`LinkFails`) or that
scans from a wrong offset (`NextIdxFails`) is not a kill and is covered.
`NothingLost` has the premise that the file has not outgrown `PTR_MAX`: the record
that `_db_writeptr` refuses to link is on no list for good, and the code never
looks for it.

The argument.  What `Walk` collects cannot be reasoned about step by step, so the
invariant names a list in another way: there are functions L and R on the pointer
fields of the index file such that L[x] is the list that field x is on (0 for the
free list, 1 to NHASH for the chains, -1 for none) and R[x] is its rank, which
decreases along the list; `Follows(L, R, x, v)` says that v is the next field after
x on its list, that is, the one with the largest smaller rank, or 0 if there is
none.  `WalkOn` shows once that then the walk from l ends and visits exactly the
records with L = l (the walk cannot visit more records than there are: pigeonhole).
`Good(L, R)` is the invariant for one such pair, and the inductive invariant
`ListInv` says that there is one:

| Conjunct of `Good` | Says |
|---|---|
| `Shape`, `Linked` | every pointer field leads to what follows it on its list, except behind a record that a deletion has already rewritten, where `saveptr` does |
| `Sorted` | blank records on the free list, records of their keys on the chains, no key twice |
| `Apart`, `Sized` | no two records share a datum, and the lengths in a record are those of its key and datum |
| `OwnApart`, `Kept` | a record on no list belongs to exactly one process that is about to link it |
| `Alone` | inserts overlap no other write |
| `Knows` | what each process knows at its label: where on its chain it is and that the key is not on the part behind it, that `head` is still the head, that the free list is as it left it |
| `Agrees`, `Expects` | a key that no call is changing is on its chain with the datum of `map`, or not there, and what a call in progress has found out about its key still agrees with `map` and its flag |
| `Paired` | a record that is not blank has a datum of its key unless a deletion has just blanked it, and a scan holds such a pair |

Each action has a lemma that it preserves `Good`.  Most keep L and R; taking a
record off a list sets its L to -1 and keeps every rank (`Without`), and putting one
at the head of a list gives it the rank of the head, which goes up by one
(`WithHead`).  What a step on one chain leaves of the others follows
from the locks (`CutsLocked`).  Facts about whole lists are proved by taking a least
element (`Least`, from the library's well-founded minimum), since induction over
data is not available.

`Implements` then takes each step in turn: `MapFind` (a miss is where a fetch, a
delete or a replacement of an absent key takes effect, a hit where an insertion of
a present one does), `MapEffects` (reading the datum, linking, overwriting,
unlinking), `MapReturns`, `MapInvokes`, `MapDies`; all others leave the map's state
unchanged.  That the result is the one the map gives at that very step is what
`Agrees` and `Expects` are for.

`LockedChanges` compares a chain as it is read from its head before and after a step,
and must hold of a chain that a deletion has cut too: between the rewriting of the
record and its removal, a walk of the chain leads through the record into the free
list.  `CutInv` says that the chain's pointer still leads to the deleted record and
that the free list then starts there; with it, `ChainWithin` bounds every walk of a
chain by the chain itself or, while it is cut, the chain, the record and the free
list, with ranks that decrease all the way.  `StepTouches` finds the one place that
a step changes: it is on the chain whose write lock the process holds, except for
the places of the free list, which no other process changes while a deletion is
under way (`OneDeleter`, `Alone`).  So the step spares the walks of all other chains
(`WalkSame`).

### Calld

* `CalldProofs!HandlerNeverBlocks`, `DialsLocked` (`HandlerReturns`,
  `DialStarts`).  The invariant is `TypeOK`, `RequestInv` (during `request()`
  entry i exists, and from fork to TELL_CHILD its pid is that of a waiting child,
  whose line is locked once `lock_set` has run) and `Pending` (a pending SIGCHLD
  has a zombie).  The handler may run inside `request()`: it changes `childdone`
  only, and the child it reaps is not the one that waits.
* `CalldProofs!LinesExclusive`, `LocksReleased`, `LocksLast`, `RepliesMatch`,
  `RetriesGoOn`, `DaemonEndsAtAccept` (`LineExclusive`, `LocksOwned`, `DialsUnderLock`,
  `AnswersMatch`, `RetriesAdvance`, `EndsAtAccept`), all with the hypothesis
  `Hangup = "settled"`, the contract under which `calld_settled` runs; `calld_lines`
  and `calld_exits` refute them without it.  The one inductive invariant `LInv` ties
  a pid in `client[]` to the child that has it, the child to the client it dials for
  and the lock of its line to both, and says that as long as anything is under way
  for a client, the client has not been answered, so has not closed: that is why a
  freed entry has no child left that could mark it.  `RetriesGoOn` adds `TryInv`:
  for each child forked for a client a matching line before `sysftell` has been
  passed.  `DaemonEndsAtAccept` says that of the daemon's exits only the one at
  `loop.c:50` is reachable; it needs finitely many clients and `OPEN_MAX` large
  enough for the descriptors of `MaxPid` children, because the pipes of `TELL_WAIT`
  are never closed.  That a failing `serv_accept` ends the daemon is in the model,
  so nothing is claimed about how long it runs.

### Printer daemon

* `LprpsProofs!JobPrinted`, `JobCharged`, `JobAnswered` (`WholeJob`,
  `JobAccounted`, `JobDone`), for any job, buffer size, page counts and sequence
  of printer output and signals (`File` is a sequence and page counts are natural
  numbers).  The invariant `LpInv` says where the job is (`JobInv`: printed,
  buffered and unread text together are the job; before `send_file` nothing has
  been printed; while its loop runs `getc` is "ok"; after an interrupted read the
  flag is set until `handle_intr` takes over, and the buffer is empty only when
  nothing was read, as `out_char` stores a character after each flush), which page
  count a query is for (`CountInv`), that at most one EOF is between filter and
  printer, and at which labels (`EofInv`), and that the alarm belongs to a query
  (`JobNotTimed`).

### Signals and locks between processes

* `SyncProofs!TurnsTaken` (`TurnsAlternate`), for every `NLOOPS`.  The property
  does not say in which form the turn travels; `TurnInv` does: a turn is a process
  that is running, or a pending signal, or a set flag, and there is exactly one, in
  the round that the counters say.
* `SyncProofs!SingleInstance` (`OneDaemon`), for any set of copies, finite or
  not.  The inductive invariant adds who holds the lock (exactly the processes
  that are past it, and at most one) and what the file shows at each step.
* `SyncProofs!DemosTheorem` (`DemosAgree`).  What one process may do depends on
  what the other has told it, and the message is a pending signal or a set flag
  for a while.  `DemoInv` says of each program where the teller must be once the
  message exists in any form: at its end in race-fork (`RaceInv`), past its first
  lock in deadlock-demo (`DeadInv`, which also says that a process that ended well
  has seen the other refused), in waitpid with the lock in chk-lck (`ChkInv`).

### Clients, servers and the modem

* `ServerProofs!AnswerTheorem` (`AnswerRight`), for every buffer size and error
  code.  `FdInv` gives the six places a call of csopen can be at and what is on the
  wire at each: nothing, text, text with a zero byte and the status, or those two
  bytes with the rights; of the text either everything or nothing has been shown.
  One pass of `recv_fd` is then three cases: text alone, a whole answer, and an
  answer one byte too long, which ends in "message format error" and is met only
  when the text has `MAXLINE` - 1 bytes.
* `ServerProofs!ClientsTheorem` (`ClientsServed`), for any finite number of clients
  and both loops.  The property says nothing of what is under way, so `OsInv` adds
  it.  About the table: descriptors and entries are held once (`OneEach`), every
  connection has its entry below `maxi` and every used entry its connection
  (`Entries`), the watched set is those and the listening socket (`Watched`).
  About a client: it waits in the queue at most once (`QueueOk`), the answers it
  has read and those on their way match its requests from the first
  (`Matches`), and exactly one request or its answer is on the wire while it waits
  (`Place`), which is why an answer cannot reach the next holder of a descriptor.
  That `client[]` does not grow beyond the clients is a count: it grows only
  when every entry has a holder and one more client is being accepted.
* `ServerProofs!ExpectTheorem` (`ExpectFound`), for any conversations and modem.
  `ChatInv` says that the window is the end of what has been read, and, loop by
  loop, that nothing read before it could have begun the string (`Skipping`,
  `Filling`) or that no earlier place ended in it (`Matching`).

### Processes, signals and alarms

* `ProcessProofs!StatusTheorem` (`StatusRight`), for any number of streams.
  `SysInv` ties each statement of `system` to the mask, the disposition and the
  state of the child: in `ystem.c` SIGCHLD is blocked and SIGINT ignored from before
  fork until after waitpid, so that only waitpid reaps the child; the plain version
  is right only for a caller whose handler does not wait.
  `PopenInv` says that the entry of an open stream is its own child, which nobody
  has waited for; entries left by fclose are overwritten before they can be read.
* `ProcessProofs!AlarmTheorem` (`AlarmKept`).  `SleepInv` says at which calls of
  `sleep` the action is its own, that its alarm is set only from the third call on,
  and that after the return of sigsuspend the alarm is still under way only if
  another signal was caught there.

### Programs on a terminal

* `TerminalProofs!TerminalTheorem` (`TerminalRight`).  `SesInv`: `call` is raw exactly
  in the states that copy, and then the static data of `term-func.c` hold the user's
  mode, so each exit can restore it.  `TtyInv` does the same for pty's two processes:
  while the terminal is raw both copies of the data hold the user's mode, and a
  parent that SIGTERM killed before its handler was there has a child on its way to
  exit, which restores the mode.
* `TerminalProofs!CopiesTheorem` (`CopiesInOrder`).  `CopyInv` says that what has
  been shown, what is in a buffer, on the pty and still unwritten is the whole text,
  in this order, at which labels the buffers are empty, and that a parent which
  stopped without having caught SIGTERM has met the end of the slave's output.  The
  output is complete in that case only; `TtyInv` says what SIGTERM can meet.

### Only model-checked

The liveness properties (`CallsReturn`, `Terminated`, `Answered`, `BothEnd`,
`PcloseEnds`, `TimeUp`), since fairness is out of the prover's reach.  `ParsesRight`,
`KeysSent` and `SaysAll`: each compares the program with a recursive reference
(`Split`, `Meant`, `Sends`, and folds over the input), and what those compute for
every input needs induction over data, which the provers cannot do.
`ChainsAgree` with processes that are killed (run `db_faults`).  Every other
invariant and action property that a passing run checks is proved.

## Plan

Modelled and proved as planned.  What is left:

1. `ChainsAgree` with killed inserters, as a theorem.
2. `db_open` with O_TRUNC against open databases.

Runs that ask the same kind of question are merged, so that the list of runs
stays a list of questions.

## Not modelled

The steps of `db_open`; malformed requests to calld, which end it through
`log_quit`; memory (lengths of names and texts against buffers, as in
`expectstr.c:64` and `opend-request.c:11`, `realloc` under a handler), except
where a buffer's edge decides what the code does; line speeds, window sizes and
terminal settings other than the mode; text layout of messages and of the index
records, logging, mailing, statistics counters; the SVR4 and stream versions of
routines whose BSD version is modelled; single-process demonstrations of one
system call each (most of the remaining files of `AP_UNIX/`), which keep no state
that steps could disturb; and the CMake trees, which hold build scripts, compiler
probes and sample programs without state of their own.
