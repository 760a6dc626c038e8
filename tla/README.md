# Verification of interactive-process-mcp

TLA+ specifications of the server in `src/`, checked with TLC on small
instances.  Every safety property of the passing runs but one, and
the two refinements, are also proved with TLAPS for all sizes.

The program lets agents run interactive processes through MCP tool calls.  A
process is started by an SSH server inside the program; an SSH client in the
same program copies its output to a buffer from which agents read, each with
a reader of its own.  Sessions are registered in memory, their list and their
messages are kept in JSON files.

## Inventory

| Part | State | Operations | What is hard | What makes it correct |
|---|---|---|---|---|
| output buffer, `internal/buffer` | map of rings, closed flag, mutex, condition variable | NewReader, Unregister, Write, Read, HasMore, Close | broadcasts without the mutex, a deadline enforced by a second goroutine, overwriting, two Reads on one reader | every reader gets the newest bytes once and in order; no wakeup is lost; Reads end |
| session, `internal/session/session.go` | status, exit code, `done`, two Onces, SFTP connection | New, pipe readers, exit goroutine, SendInput, Terminate, ResizePty, SFTP transfers | the end of the process, Terminate and New race; a close that waits for the host with the mutex held | the end is recorded once, in the right order; Terminate returns; pipe readers end |
| exec client, `internal/sshclient` | connection, exit code, Done | Start, Wait goroutine, Signal, Close | a status that never arrives | Done and ExitCode tell the truth about the process |
| SSH host, `internal/sshserver` | process, handler per session | handleSession, signal goroutine | early signals, input copying that outlives the process | the status is sent when the process is gone |
| registry, `internal/session/manager.go` | map of sessions, RWMutex | Create, Get, ListAll, Terminate, Delete, CleanupAll, persist | list and file under different locks, recursive read lock, the mutexes of sessions taken inside | only exited sessions leave; calls end; the file follows the registry |
| message history, `internal/message` | one mutex per session | Append, List, Get, GetMany | load-append-save by many goroutines, failing files | the index only grows, lists what exists, keeps what was acknowledged |
| storage, `internal/storage` | files, RWMutex | Save/Load of sessions, index, message | crash between two writes | a file is old or new, never torn |
| server program, `cmd/server` | shutdown flag | main, shutdown goroutine | shutdown against calls in progress | shutdown ends |
| MCP handlers, `internal/mcp` | none of their own | one per tool | several steps per call, other agents and cancellations in between | a reader of one's own misses only what is stripped or cut; what is handed out is recorded; has_more is no lie |
| compaction, `internal/ansi` | none | Strip, Compact | alternatives of one regexp, order of the passes, the fast path, text cut between reads | a read shows nothing the screen has overwritten, and all of the lines it does not return to |
| file transfer, `session.go:305-429` | SFTP connection | UploadFile, DownloadFile, ListFiles, delayed close | failing and unanswered requests, other writers, the close under a transfer | no success for a damaged file; the limit holds; transfers end |
| logging, configuration, types | none | - | - | - |

Interaction: handlers call the registry; the registry calls New, Terminate and
Info of sessions and the store; a session owns one buffer and one exec client
and appends messages; the exec client talks to the host over one SSH
connection.  Shared state is reached by goroutines under `Buffer.mu`,
`Session.mu`, `exitOnce`, `terminateOnce`, `Manager.mu`, `Store.mu` and the
message mutexes; the lock of one part is held over a call of another in Delete
and ListAll (Manager.mu, then Session.mu for Info) and in Append (message
mutex, then Store.mu).  One mutex is held over a wait for the host: the SFTP
closer of an exited session locks Session.mu and calls Close
(session.go:159-164), which waits for the end of the SFTP channel before it
closes the connection (client.go:176-181).  Everything that locks that
Session.mu waits with it, and through ListAll and Delete whoever needs
Manager.mu.

`PROJECT.json` lists the hazards, each at its line.

## Modules

**SharedLog** is what the buffer promises: a log of accepted bytes and a
cursor per reader.  Locks, parking, rings and timers do not appear in it.

**OutputBuffer** is `buffer.go`.  What a goroutine does between Lock and
Unlock is one step, except in Read: the test of the deadline (`ReadCheck`) and
cond.Wait (`ReadWait`) are two steps although the mutex is held, because the
goroutine of lines 116-124 broadcasts without it.  Unregister and Close
broadcast after unlocking (`Broadcast`).  A byte is its position in the order of
acceptance; `wrote` and `got` are history.  `Log` is the refinement mapping: the
cursor of a reader is `wrote` minus what its ring holds.

| code | definition |
|---|---|
| `New`, `NewReader`, `Unregister`, `Write`, `Close` | `Init`, `NewReader`, `Unregister`, `Write`, `Close`, `Broadcast` |
| Read 91-111, 127-139, 140, 141-145, 147-156 | `ReadBegin`, `ReadCheck`, `ReadWait`, `ReadWake`, `Finish` |
| Read 113-125: deadline, context, goroutine, `close(stop)` | `Expire`, `TimerFire`, `TimerStop`, `Stopped` |
| ring with overwriting, 55-57 | `KeepNewest` |

**Session** composes host, exec client and session.  Its goroutines are the
creator (New), one pipe reader per stream, the exit goroutine, the callers of
Terminate and one sender of input; `pc` says where each recorder (exit
goroutine or Terminate) is.  `exitOnce` and `terminateOnce` have three states:
free, held by whoever runs the body, done.  Output is counted in chunks:
`sent` by the process, `avail` to the client, `taken` by the pipe reader,
`accepted` by the buffer.  `CloseExec` may lose any part of what is still on
its way.  Exit codes are "real", "zero" (nobody set the field) and "minus1".
A process may ignore its signals and never end.  The SFTP closer is two steps,
`SFTPCloser` and `SFTPEnds`; in between it holds Session.mu, and the host need
not ever let it go on.  `MuFree` is the guard of the sections that it can block:
the input's test of the status and the recording of the status.

**SessionLife** is what a session promises: running, ending, exited, in this
order; a code set with the exit and final; end of file after the exit; no
Terminate back before the end.  Session implements it (`Life`): the session is
"ending" from the moment Done is closed or somebody has entered `exitOnce`.

**ToolCalls** is the agents' side: handlers.go with readOutput, SendInput and
ResizePty, over SharedLog instead of the buffer, which OutputBuffer
implements. A position of the log is one line.  A call is several steps:
session looked up and input sent (`Call`, `SendInput`), the reader drained,
stripped and cut to max_lines (`ReadOutput`), the message appended or refused
(`AppendOutput`), has_more asked and the result returned (`Reply`).  What
Strip and Compact leave of a read is any part of its lines, in order
(`Stripped`): a read that ends inside a line can lose it, as TerminalText
shows, and an output of which nothing is left is not recorded.  A refused
append (a failed write of MessageLog) changes nothing for the caller, since
session.go:209 ignores the error.  Between the steps other agents read,
register and unregister, the client may cancel (`Cancel`), the session may
exit and be deleted.  start_process is the initial state of one agent, which
is about to read the initial output.  `owner`, `shown`, `removed`, `cut`,
`refused` and `since` are history: whose reader it is, what its replies
showed, what stripping removed, what max_lines cut, what the message history
refused, when it registered.

**TerminalText** is `internal/ansi` on the reads of one reader.  All passes of
Strip and Compact only remove characters; each is an operator that says which
indices it keeps.  A text is a sequence of thirteen classes of characters, those
that strip.go and compact.go tell apart.  `CSI`, `OSC` and `TwoBytes` are the
alternatives of the regular expression (the third, `[()][Bb0UK]`, matches nothing
that the fourth does not); the first takes `(` for `[`, so that of `ESC ( 0 q` the
visible q goes too.  `InEscape` says of a character that some alternative
matches it, while the regexp engine takes the first alternative that matches and
goes on behind the match; `StripIsLeftmostFirst` compares the two.  `KeepAt`, the
subsequence at a set of indices, is a recursive function.

What a read must show is stated about a screen and not about the passes: a
carriage return goes back to column 0, a character is `Overwritten` when a later
one is printed in its column of the same line, and a line is `NotReturnedTo`
behind a character when no carriage return follows it there, but the one that
ends the line.  Compact takes every return for an overwrite of the whole line, so
between the two lies what it may drop: the tail of a longer line that a shorter
one overwrites.  The screen ignores cursor movements, as Compact does.

**FileTransfer** has the transfers of several agents to one path, request by
request: mkdir, create (which truncates), block after block; stat, open, blocks
in any order.  A request is sent while the connection is up (`Send`); the host
answers it, fails it, or never answers.  The process may write the file in place.
60 seconds after the exit the closer locks Session.mu and ends the client's side
of the channel (`Closer`); when the host has ended its side (`ChannelEnds`), the
connection is closed and the mutex unlocked.  `disturbed` is history: whose file
somebody else has changed meanwhile.

**Registry** is `manager.go` with the end of `main`.  The RWMutex is Go's: a
writer that has asked admits no new reader, and gets the lock when the readers
are gone.  Read sections that cannot wait inside are one step.  ListAll can: it
takes the read lock (`Snapshot`), asks one session after the other, each under its
Session.mu (`ListInfo`), and unlocks (`Listed`); so does CleanupAll, which takes
the read lock twice (`Cleanup`, `CleanupList`).  A session is reduced to running,
ending (Done closed) and exited; a Terminate returns when it is ending or exited,
which is `LifeReturn` of SessionLife.  Its SFTP closer holds Session.mu from
`CloserLocks` to `CloserEnds`, and `MuFree` guards what needs that mutex: Info in
ListAll, the test in Delete, the loop at the end of CleanupAll.  `Save` is the
writing of `sessions.json` after the list was taken.

**MessageLog** is Append on the store: the message file, the mutex of the
session, load, temporary file, rename, return; every write may fail and the
program may crash between any two steps.  A restarted program uses new session
identifiers, so the sessions of an earlier life (`ended`) only keep their files.

For each module M the theorems and their proofs are in **MProofs**
(OutputBufferProofs, SessionProofs, RegistryProofs, MessageLogProofs,
ToolCallsProofs, FileTransferProofs, TerminalTextProofs).

The MC modules add only symmetry sets; modules without one are run as they
are.  Definitions whose comment begins with FAULT are deliberate defects;
`PROJECT.json` pairs each with the property that detects it.

## Runs

| run | instance | question |
|---|---|---|
| buffer | 2 callers, 1 reader, ring of 2 bytes, chunks of 1-2, 5 bytes; 96 000 states | types, lock discipline, lost wakeups, end of file last, rings and deliveries, refinement of SharedLog; Reads end on Close, Unregister, data and a deadline that comes while parked |
| buffer_timeout (violated) | the same with a ring of 1 byte and 1 byte | does every Read honour its timeout? |
| session_safety | both modes, 2 Terminates, 1 chunk per stream, 1 input, symmetric; 1.7 million states | the end is recorded once; nothing is invented; refinement of SessionLife |
| session_liveness | pty, 2 Terminates, 1 chunk; 230 000 states | Terminates return, the end is recorded, pipe readers go, whatever becomes of the SFTP connection |
| session_output (violated) | 1 Terminate | see below |
| registry | 2 callers, 1 session with its SFTP closer, shutdown; 46 000 states | lock released, lists never ahead of sessions, only exited sessions leave; calls end until the shutdown if the host ends the SFTP channel |
| registry_cleanup (violated) | 1 caller, 1 session | see below |
| messages | 2 callers, 2 sessions, 3 messages, 1 crash, refused writes | history grows, never dangles, keeps what was acknowledged, respects order; appends end |
| tool_calls | 2 agents, 2 readers, 2 lines, views of 2 lines, 2 calls after start_process, max_lines 0 or 1, 24 or 70000 rows; 2.8 million states | own readers miss nothing but what is stripped or cut, handed output is recorded once per reader unless it is stripped, cut or refused, has_more is true, sizes reach the host |
| tool_max_lines (violated) | the same | see below |
| terminal_text | all texts of up to 5 characters of 8 classes, cut in every way; 2 million states | Strip removes what the regexp engine matches; reads show what stays on the screen, are clean, and compose at line ends |
| files | 2 agents, limit of 2 blocks, 2 transfers, 1 change by the process; 250 000 states | reported uploads are stored; downloads are the file but for what JSON replaces, and within the limit; transfers end after the exit if the host ends the channel |

Why these bounds.  A ring of two bytes and chunks of one or two reach every
case of overwriting: part of a ring, all of it, exactly full.  Four bytes wrap
it twice, and a fifth follows.  Two callers are enough for a sleeper and
somebody who wakes, for two on one reader, and for one that unregisters under
another; the theorems hold for any number.  One chunk in flight is all that
the order of closing needs, two Terminates are all that a Once distinguishes.
Two registry callers and the shutdown are a writer, a reader that waits inside
ListAll, and a third that is kept out; RegistrySafety.cfg has three callers
(100 000 states), two that save while one deletes.  One session, because every
statement is about one session at a time, and lists only combine them.
session_liveness uses a pty: in pipe mode the handler also waits for its copy
of stdin, which session_safety covers and SessionDone.cfg shows.  Two appends
contend for a mutex, and the third shows the order; the second session is the
one a restarted program can use. The run buffer has one reader: that a slow
reader loses its own bytes only, whatever the other readers do, is checked
with two by OutputBufferSafety.cfg (1.7 million states), outside the listed
runs, and proved for any number.

In tool_calls two agents with two readers give every sharing: one reader of
one's own, a shared one, a stranger on one's own; three reads (the initial one
and two) let one be cut or cancelled and another follow, two lines let a read
take part of the output.  70000 rows do not fit in 16 bits; rows below 1, which
the host's library refuses, are not among the instances.  Five characters
hold an escape sequence with a parameter, an OSC sequence with its end and a
character behind it, a CRLF with something on each side, a run of three newlines
with something on each side.  The eight classes of the run meet every alternative
of the regexp and every pass; outside the listed runs TextLong.cfg has all
thirteen classes and four characters (475 000 states), TextSequences.cfg the
classes of OSC sequences and six characters (8.1 million states, four minutes).
Two blocks make a transfer that can be interrupted in its middle; a third one is
over the limit.

Deadlock is checked for the buffer.  Where the system really stops (session
ended, program ended, messages used up) the configuration switches it off.

### Fairness

Goroutines that can run do run: weak fairness for steps that stay possible.
Steps that compete for a mutex get strong fairness, since Go hands a mutex
over to a waiter that starves and admits waiting readers when a writer unlocks
(`ReadWake`, the calls of the registry, Append).  Time passes: deadlines expire
and timers run.  Nothing obliges an agent to call, a process to write, end or
react to a signal, or, in MessageLog, a crash to happen.  In Registry a session
that somebody terminates ends and its end is recorded; Session establishes both
(`TerminateReturns`, `EndIsRecorded`).

The host does not owe the end of an SFTP channel that the client has closed:
its server first finishes the requests it is serving, and the read of a FIFO
may never end.  So neither `SFTPEnds` nor `CloserEnds` is fair, and
`ChannelEnds` only when no request is at the host.  `CallsEnd`, `CleanupEnds`
and `ExitEndsTransfers` name what they need instead, as a premise: the
channels being closed come to an end.  `NoCallIsStuck` and
`ConnectionIsClosed` show what happens without it.

In FileTransfer the host owes no answer: only a request that cannot be sent
any more, or one on a closed connection, is sure to end.  `ExitEndsTransfers`
therefore needs the closer, and the closer needs the mutex free; callers hold
it only to copy a pointer, and Go admits a waiting writer before later
readers.  ToolCalls and TerminalText have safety properties only: that Reads
end is the buffer's promise (`ReadsEnd`).

### What the violated runs show

* `buffer_timeout`: CHANGELOG.md:65 guarantees that reads return after the
  timeout.  The deadline goroutine broadcasts once and without the mutex.  If
  that falls between the test at buffer.go:128 and cond.Wait at 140, nobody is
  asleep yet, and the Read then sleeps until somebody writes, closes or
  unregisters.  `ParkedReadTimesOut` is the part that holds.
* `session_output`: the exit goroutine closes the buffer as soon as Done closes;
  a pipe reader that still has a chunk in hand, or data left to read, finds
  the buffer closed and drops it.  A fast command may show no output.
* `registry_cleanup`: CleanupAll takes the read lock twice; a Create or Delete
  that asks for the write lock in between blocks it and itself for ever.
* `tool_max_lines`: README.md:239, 247.  The read has drained the reader when
  max_lines is applied; the lines beyond it are in no later read and in no
  message, and has_more is false.

More statements of documents and comments fail.  They are written down in the
modules with a configuration each, outside the listed runs:

| property, configuration | what happens |
|---|---|
| `DoneFollowsExit`, SessionDone.cfg | client.go:120: in pipe mode cmd.Run waits for its copy of stdin, so a process that ends by itself leaves the session running until input is sent or it is terminated (client_test.go works around this with `cat`) |
| `SingleAuthority`, SessionAuthority.cfg | session.go:225: Terminate's fallback writes code -1 when it enters exitOnce first (session.go:244-250) |
| `CleanupSavesExited`, RegistryCleanupFile.cfg | CHANGELOG.md:85: CleanupAll saves the list it took before it terminated anything (manager.go:103, 123) |
| `EndedLinesAreShown`, TextSplit.cfg | CHANGELOG.md:43: a read that ends between \r and \n takes the \r for an overwrite and drops the line (compact.go:42-45); every line of a pty ends that way |
| `EscapesAreNotShown`, TextEscapes.cfg | CHANGELOG.md:43: an escape sequence cut by a read leaves its tail in the next one (strip.go:7-13) |
| `ConnectionIsClosed`, FilesStuck.cfg | session.go:153: Close waits for the SFTP channel to end (client.go:177) before it closes the connection (178); while the host serves a request that never ends, such as the download of a FIFO, neither happens, the transfer goes on and Session.mu stays locked |
| `NoCallIsStuck`, RegistryStuck.cfg | manager.go:12 "thread-safe": with such a closer the next ListAll waits for Session.mu with Manager.mu held (manager.go:56-60), and the next Create or Delete keeps everybody else out; no call about any session returns |
| `SFTPClosed`, SessionSFTP.cfg | session.go:153: a connection that New dials after the exit goroutine has been through is closed by nobody (session.go:94-101), if New takes that long |
| `NewReaderSeesAll`, ToolNewReader.cfg | README.md:178: a new reader "reads from the beginning"; its ring is empty when it registers (buffer.go:55), so it sees what comes after that |
| `DownloadIsVerbatim`, FilesVerbatim.cfg | session.go:373: a file without NUL bytes that is not UTF-8 goes through json.Marshal, which replaces bytes (session.go:399, handlers.go:64) |
| `ForceKills`, SessionForce.cfg | README.md:270 "Use SIGKILL directly": force only closes the connection (session.go:237), the process may live on |
| `ExitCodeIsReal`, SessionExitCode.cfg | client.go:125: without a status the exit code stays 0 (client.go:108-114) |
| `FileIsSessionList`, RegistryFile.cfg | README.md:109: two overlapping calls save in the wrong order, the older list stays (manager.go:134-136) |
| `NothingSurvivesCleanup`, RegistryCleanupAll.cfg | manager.go:95: a session created meanwhile is not in CleanupAll's copy (manager.go:98) |
| `TerminatedCanBeDeleted`, RegistryDelete.cfg | README.md:186-187: a graceful Terminate returns before the status is set (session.go:231), Delete refuses |
| `AckedIsListed`, MessageLogReadError.cfg | README.md:49: an index that cannot be read is overwritten by a single entry (message.go:54-63) |

LoadSessions is never called: after a restart `sessions.json` lists sessions
nobody can reach.  There is no recovery to model.

## Proofs

A theorem holds for every value of the constants that satisfies the named
assumptions of its module, which TLC evaluates in every run.  They say that
sets are not empty and bounds are numbers, that markers (`Nobody`, `NoCaller`,
`Shared`, `ExitG`, the states of a Once) are no agents, and for the buffer that
a ring holds at least one byte and that a Write is no larger than a ring (4096
against 1 MB).  The bounds on counters are constants too: a theorem holds
for any number of calls, messages or characters.

| module | theorem | property |
|---|---|---|
| OutputBufferProofs | `TypeCorrect`, `LockDiscipline`, `WakeupsAreNotLost`, `RingsAreNewest`, `DeliveryIsInOrder`, `EOFIsTheEnd` | the safety invariants of buffer |
| | `BufferImplementsLog` | refinement of SharedLog |
| SessionProofs | `TypeCorrect`, `EndIsRecordedOnce`, `NoChunkIsInvented` | `TypeOK`, `RecordedOnce`, `NothingInvented` |
| | `SessionImplementsLife` | refinement of SessionLife |
| RegistryProofs | `TypeCorrect`, `LockIsAlwaysReleased`, `FileIsNeverAhead` | `TypeOK`, `LockIsReleased`, `FileNeverAhead` |
| | `OnlyExitedSessionsLeave` | the action property `OnlyExitedLeave` |
| MessageLogProofs | `TypeCorrect`, `NoEntryDangles`, `OrderIsKept` | `TypeOK`, `IndexHasMessages`, `OrderIsRespected` |
| | `HistoryOnlyGrows`, `AckedStaysListed` | `HistoryGrows` (an action property), `AckedIsListed`, both if indexes can be read |
| ToolCallsProofs | `TypeCorrect`, `SizesReachTheHost`, `MoreIsThere`, `OwnReadersSeeAll`, `OutputIsRecorded` | `TypeOK`, `SizeReachesHost`, `HasMoreIsTrue`, `OwnReaderSeesAll`, `HandedIsRecorded` |
| FileTransferProofs | `UploadsAreStored`, `DownloadsAreTheFile` | `UploadedIsStored`, `DownloadedIsFile` |
| TerminalTextProofs | `CompactOnce` | Compact changes nothing the second time |
| | `ResultsAreClean`, `FinalIsShown`, `ReadsCompose` | `CompactedIsClean`, `FinalContentIsShown`, `WholeLinesCompose` |

The inductive invariants that no run states were checked with TLC first, on the
instances of the runs: SessionInv.cfg (3.2 million states), MessageLogInv.cfg
(24 000), ToolCallsInv.cfg (2.8 million), FileTransferInv.cfg (the states of
files) and TerminalTextInv.cfg (1.1 million, seven classes).

### OutputBuffer

Types come first (`TypeStep`).  `LoopHoldsLock` is inductive on
top of them: between the head of the loop and cond.Wait a Read has the mutex,
so every other goroutine that changes a ring, the map or the flag is excluded,
and what it saw stays true.  `NoLostWakeup` is not inductive alone: the step
that parks (`ReadWait`) needs to know that the Read found nothing and nothing
has come since, which is the third part of `LoopHoldsLock`; conversely the steps
that make a Read able to return either wake everybody (`Write`) or leave
somebody in "bcast" (`Unregister`, `Close`), and `Broadcast` empties the wait set.
`RingsHoldNewest` is inductive once rings are known to be within their
capacity; its core are lemmas on intervals (`IntervalConcat`: concatenating
adjacent intervals; `KeepNewestInterval`: cutting one at the old end).
`DeliveredInOrder` needs `RingsHoldNewest`, since what a drain appends is then
the interval just behind everything delivered before.  `EOFIsFinal` needs that
closed is never undone and that nothing is accepted after it.  For the
refinement each action is mapped to one action of the log (`LogStep`): Write,
NewReader, Unregister, Close to theirs, a Read that drains to LogDeliver,
everything else to a stutter; that Write moves each cursor as `PushedBy` says is
`WriteKeepsNewest`.

### Session

`RecordedOnce` speaks of the recorder that is done; to be inductive it needs
to know who is recording.  `OnceInv` ties the two Onces to the program
counters: `exitOnce` is held by p exactly when p is in its body,
`terminateOnce` by the one Terminate that signals.  On it rest `RecordInv`
(status, code and closing of the buffer follow from how far that one recorder
is) and `MessageInv` (as many exit messages in the history as bodies of
`exitOnce` completed, counted as a cardinality).  The refinement adds
`ReturnInv`: nobody is past `terminateOnce` before Done is closed or the end
is recorded, so a Terminate that returns maps to LifeReturn.
`NothingInvented` needs only the types.

### Registry

`LockIsReleased` and `FileNeverAhead` are inductive over the types: the second
because a recorded exit is never taken back, so a list that was true when taken
stays not ahead.  `OnlyExitedLeave` follows from the types and the guard of
`DeleteLocked`, which looks again under the write lock.

### MessageLog

`AppendInv` is what the mutex of a session gives: the message of an Append is its
own, it is on disk from SaveMessage on, in no index before the rename, in one
after it; and what is about to be renamed is the index as it is now with that
message at its end (`Loaded`), since nobody else is between load and rename.
`HistoryOnlyGrows` and `AckedStaysListed` assume `~ReadFaults`: with an index that
cannot be read they are false, as MessageLogReadError.cfg shows.  The other
theorems hold with read faults too.

### ToolCalls

A reader is a cursor in the log; `LogInv` orders its registration, what it was
handed and its cursor.  `OwnerInv` and `CallInv` say who may be reading with
it: its owner, unless it is shared.  Without them an agent could have read
between another's read and its reply, and neither `HasMoreIsTrue` nor
`OwnReaderSeesAll` would be inductive.  Both split on the case that the log
has outgrown the ring.  `SizeInv` says of the last window request under way
what `SizeReachesHost` says when there is none.  `OwnReaderSeesAll` needs that
what a read leaves is in order and behind everything shown before
(`ConcatInOrder`), and that removed, cut and kept lines of a read together are
those it was handed (`NewLines`). `HandedIsRecorded` counts: a line is
recorded or refused once for every reader that was handed it, or is in the
hands of an agent in "append"; `PendingInv` says that what an agent is about
to record was handed to its reader and is not accounted for yet, and that two
agents on one reader hold different lines, and `FewBusy` that the agents in a
call are finitely many.

### FileTransfer

`AgentInv` says how far a transfer is: while nobody else has changed the file,
it is the first `pos` blocks of an upload, and a download has read blocks of
it and of nothing else, and waits for the others.  What is returned then
differs from the file only where `OnTheWire` replaces a block, which
`DownloadedIsFile` admits for text that is not UTF-8 and nothing else.  The
steps of other agents either leave the file alone or disturb every transfer
but their own.

### TerminalText

What KeepAt computes is an induction over the length of the text.  It is done by
least counterexample: `LeastNumber` (a non-empty set of numbers has a
least element, from the well-foundedness of < in the library) gives a function that
satisfies the equation of KeepAt (`KeepsExists`), and then an
increasing choice of indices with exactly the elements kept (`KeepAtPicks`).  The
same principle finds the first of the neighbours that a pass could have made
adjacent.  From there on every pass is a lemma of what it keeps.

For `CompactIsCompact`, on which `CompactOnce` and `ResultsAreClean` rest, each pass
establishes one part of "compact" (no controls, no carriage return, no blank at
a line's end, no three newlines, no newline in front) and the later ones keep it.

For `FinalIsShown` a text is taken as the set of its positions: an increasing
sequence is determined by it (`SetDetermines`), and `NormalizeSet`, `CutSet`
and the others say which positions a pass keeps.  `FinalShown` concludes that
what is visible in a result is what no return follows in its line (`Final`, a
notion of the proofs only, since it is the rule of compact.go:43).  That this
keeps to the screen is the rest: what is kept lies behind the last return of
its line, where columns only grow, so no later character of the same read can
take its place (`FinalStays`); and what no return follows is kept.  Escape
sequences found in the text of a read are those of the whole output moved to
its positions (`SequenceMoves`).  `NewlinesShown` counts: all newlines between
two words come in front of what else is there, and FoldBlank keeps two.  The
invariant then only has to say that later output changes nothing of the
positions read before (`SameText`).

`ReadsCompose` needs `ComposeInv`: if every read so far ended a line, what is
visible of all reads together is what stays of all that was read.  No escape
sequence crosses a newline (`EscapesWithinLines`), and no carriage return
reaches back over one (`FinalWithinLines`); so what stays of the whole is what
stays of each part. That reads do end at line ends is its hypothesis;
TextSplit.cfg and TextEscapes.cfg show what happens when they do not.

### Only model-checked

The prover does neither fairness nor ENABLED, so every liveness property stays
with TLC: `ReadsEnd`, `DataIsServed`, `ParkedReadTimesOut`, `TerminateReturns`,
`EndIsRecorded`, `PipesEnd`, `CallsEnd`, `AppendsEnd`, `ExitEndsTransfers`.
Of the safety properties `StripIsLeftmostFirst` is not proved: it compares Strip
with the scan of the regexp engine over a whole text, and TLC compares them on all
texts of the instances.

## Not modelled

Command quoting, dialling errors of Start, identifier validation, flags, log
output: no state, or no session yet.  Empty writes and HasMore as a call of its
own change nothing.  CloseSFTP is called by a test only.  In TerminalText
tabs and characters outside ASCII are left out, and the screen does not follow
cursor movements other than carriage returns and newlines; a bare newline, which
a terminal in raw mode does not take back to column 0, starts a line at column 0.
Characters are single symbols: one of several bytes that straddles two reads,
which JSON then replaces in both, is not represented.  A download whose file is
replaced (renamed over) keeps the old one open; here files change in place only.
The values of exit codes are abstracted to where they come from.  The late
broadcast of a timer whose caller starts another blocking Read is represented by
those of the other callers.  Configuration, logging and the data types have no
behaviour of their own.

## Plan

Done: SharedLog, OutputBuffer, Session with its refinement of SessionLife,
Registry, MessageLog, ToolCalls, TerminalText, FileTransfer, and the proofs of
all safety properties of the runs.

Left, in this order:

1. Registry over SessionLife, one instance per identifier, with the SFTP closer of
   each.
2. `StripIsLeftmostFirst` as a theorem, along the least-counterexample argument of
   `KeepsExists`.
3. Characters of several bytes in TerminalText.
