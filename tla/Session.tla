-------------------------------- MODULE Session --------------------------------
(***************************************************************************)
(* One session, from the process on the host to the agent's calls:         *)
(*   host     internal/sshserver  handleSession: process, signal           *)
(*            forwarding, stdin copying, exit status;                      *)
(*   client   internal/sshclient  ExecSession: the connection, Done and    *)
(*            ExitCode;                                                    *)
(*   session  internal/session    New, the pipe readers, the exit          *)
(*            goroutine, SendInput, Terminate and the SFTP closer.         *)
(*                                                                         *)
(* Goroutines: the creator (New), one pipe reader per stream, the exit     *)
(* goroutine (ExitG), one goroutine per Terminate call (Killers), one that *)
(* sends input.  A section under Session.mu is one step, but for the SFTP  *)
(* closer's: it holds the mutex over a Close that waits for the host.      *)
(*                                                                         *)
(* Data.  Output is counted in chunks of at most one 4096-byte read.  Exit *)
(* codes are "real" (what the host reported), "zero" (the field nobody     *)
(* set) and "minus1" (written by Terminate).                               *)
(*                                                                         *)
(* Definitions whose comment begins with FAULT are wrong on purpose: each  *)
(* is a defect some property must detect when it replaces the definition   *)
(* that follows it.                                                        *)
(***************************************************************************)
EXTENDS Integers, Sequences, FiniteSets

CONSTANTS
    Modes,      \* subset of {"pty", "pipe"}: the modes to consider
    Killers,    \* goroutines that call Terminate, once each
    ExitG,      \* the exit goroutine of startReaders
    MaxChunks,  \* bound: chunks the process writes to each stream
    MaxInputs   \* bound: calls of SendInput

ASSUME ExitGAssumption == ExitG \notin Killers
ASSUME OnceAssumption == {"free", "done"} \cap (Killers \cup {ExitG}) = {}
ASSUME ModesAssumption == Modes \subseteq {"pty", "pipe"}
ASSUME BoundsAssumption == MaxChunks \in Nat \ {0} /\ MaxInputs \in Nat

Streams == {"stdout", "stderr"}
Recorders == Killers \cup {ExitG}

VARIABLES
    \* host
    mode,       \* Config.Mode
    proc,       \* the process: "starting", "running", "dead"
    sigs,       \* SIGTERM requests on their way to the host
    stdinCopy,  \* the host still copies input to the process
    handler,    \* handleSession: "serving" or "returned"
    \* connection
    conn,       \* "up" or "closed" (by ExecSession.Close)
    exitMsg,    \* the exit status went out over the open connection
    sent,       \* stream -> chunks the process wrote
    avail,      \* stream -> chunks that have reached or will reach the client
    \* ExecSession
    execDone,   \* ExecSession.done is closed
    execCode,   \* ExecSession.exitCode
    \* Session
    taken,      \* stream -> chunks its pipe reader has read
    pipe,       \* stream -> where its pipe reader is
    accepted,   \* stream -> chunks written to the output buffer
    bufClosed,  \* the output buffer is closed
    done,       \* Session.done is closed
    status,     \* Session.Status
    code,       \* Session.ExitCode, "none" while nil
    exitOnce,   \* "free", "done", or the recorder inside exitOnce.Do
    termOnce,   \* "free", "done", or the killer inside terminateOnce.Do
    pc,         \* recorder -> where it is
    force,      \* killer -> the argument of its Terminate
    creator,    \* New: "dial", "announce", "failed", "created"
    sftp,       \* Session.sftpConn: "none", "up", "closed"
    input,      \* SendInput: "idle" or "checked" (status was running)
    inputs,     \* calls of SendInput so far
    msgs        \* the session's message history, system messages and inputs

hostVars == <<mode, proc, sigs, stdinCopy, handler>>
connVars == <<conn, exitMsg, sent, avail>>
execVars == <<execDone, execCode>>
pipeVars == <<taken, pipe, accepted>>
recordVars == <<bufClosed, done, status, code>>
onceVars == <<exitOnce, termOnce, pc, force>>
agentVars == <<creator, sftp, input, inputs, msgs>>
envVars == <<hostVars, connVars, execVars, pipeVars>>
clientVars == <<execVars, pipeVars, recordVars, onceVars, agentVars>>
vars == <<hostVars, connVars, clientVars>>

\* sshclient.Start succeeded: the host has accepted the command and runs its
\* handler; New has started the readers and now dials SFTP.
Init ==
    /\ mode \in Modes
    /\ proc = "starting" /\ sigs = 0 /\ stdinCopy = TRUE /\ handler = "serving"
    /\ conn = "up" /\ exitMsg = FALSE
    /\ sent = [s \in Streams |-> 0] /\ avail = [s \in Streams |-> 0]
    /\ execDone = FALSE /\ execCode = "zero"
    /\ taken = [s \in Streams |-> 0] /\ accepted = [s \in Streams |-> 0]
    /\ pipe = [s \in Streams |-> "read"]
    /\ bufClosed = FALSE /\ done = FALSE /\ status = "running" /\ code = "none"
    /\ exitOnce = "free" /\ termOnce = "free"
    /\ pc = [p \in Recorders |-> IF p = ExitG THEN "await" ELSE "idle"]
    /\ force = [k \in Killers |-> FALSE]
    /\ creator = "dial" /\ sftp = "none"
    /\ input = "idle" /\ inputs = 0 /\ msgs = <<>>

--------------------------------------------------------------------------------
(* The host. *)

\* exec.Command starts.
StartProcess ==
    /\ proc = "starting"
    /\ proc' = "running"
    /\ UNCHANGED <<mode, sigs, stdinCopy, handler, connVars, clientVars>>

\* Chunks written while the connection is up reach the client, in order.
Written(s) ==
    /\ sent' = [sent EXCEPT ![s] = @ + 1]
    /\ avail' = IF conn = "up" THEN [avail EXCEPT ![s] = @ + 1] ELSE avail

\* exec.Command cannot start: in pty mode the error text goes to the client
\* (status 1), in pipe mode ProcessState is nil (status 127).
StartFails ==
    /\ proc = "starting"
    /\ proc' = "dead"
    /\ stdinCopy' = FALSE
    /\ IF mode = "pty" THEN Written("stdout") ELSE UNCHANGED <<sent, avail>>
    /\ UNCHANGED <<mode, sigs, handler, conn, exitMsg, clientVars>>

\* The process writes; a pty has one stream.
Emit(s) ==
    /\ proc = "running"
    /\ mode = "pty" => s = "stdout"
    /\ sent[s] < MaxChunks
    /\ Written(s)
    /\ UNCHANGED <<hostVars, conn, exitMsg, execVars, pipeVars, recordVars,
                   onceVars, agentVars>>

\* The process ends by itself.
Exit ==
    /\ proc = "running"
    /\ proc' = "dead"
    /\ UNCHANGED <<mode, sigs, stdinCopy, handler, connVars, clientVars>>

\* The signal goroutine: nothing to signal before the start (the request is
\* dropped) and after the end; a running process may die of it or handle it.
ForwardSignal ==
    /\ sigs > 0
    /\ sigs' = sigs - 1
    /\ proc' \in IF proc = "running" THEN {"running", "dead"} ELSE {proc}
    /\ UNCHANGED <<mode, stdinCopy, handler, connVars, clientVars>>

\* The input copier ends at the end of the client's input.
StdinEOF ==
    /\ stdinCopy /\ conn = "closed"
    /\ stdinCopy' = FALSE
    /\ UNCHANGED <<mode, proc, sigs, handler, connVars, clientVars>>

\* The handler returns and sends the status: in pty mode when the process is
\* gone, in pipe mode only when cmd.Run's copy of stdin has ended too.
HandlerReturns ==
    /\ handler = "serving" /\ proc = "dead"
    /\ mode = "pipe" => ~stdinCopy
    /\ handler' = "returned"
    /\ exitMsg' = (conn = "up")
    /\ UNCHANGED <<mode, proc, sigs, stdinCopy, conn, sent, avail, execVars,
                   pipeVars, recordVars, onceVars, agentVars>>

--------------------------------------------------------------------------------
(* ExecSession. *)

\* session.Wait returns: with the status the host sent, or without one when
\* the connection was closed first (ExitMissingError leaves exitCode at 0).
WaitReturns ==
    /\ ~execDone
    /\ exitMsg \/ conn = "closed"
    /\ execDone' = TRUE
    /\ execCode' \in (IF exitMsg THEN {"real"} ELSE {})
                       \cup (IF conn = "closed" THEN {"zero"} ELSE {})
    /\ UNCHANGED <<hostVars, connVars, pipeVars, recordVars, onceVars, agentVars>>

\* ExecSession.Close: stdin, session and connection; output still on its way
\* is lost, output already at the client can be read.
CloseExec ==
    /\ conn' = "closed"
    /\ avail' \in [Streams -> 0..MaxChunks]
    /\ \A s \in Streams : avail'[s] \in taken[s]..avail[s]
    /\ conn = "closed" \/ execDone => avail' = avail
    /\ UNCHANGED <<exitMsg, sent>>

--------------------------------------------------------------------------------
(* The pipe readers: pipeToBuffer. *)

\* FAULT: only closing the connection ends the streams.
EndOnlyOnClose(s) == taken[s] = avail[s] /\ conn = "closed"
\* Read returns io.EOF: nothing left, and the channel was closed.
EndOfStream(s) == taken[s] = avail[s] /\ (exitMsg \/ conn = "closed")

PipeRead(s) ==
    /\ pipe[s] = "read"
    /\ \/ /\ taken[s] < avail[s]
          /\ taken' = [taken EXCEPT ![s] = @ + 1]
          /\ pipe' = [pipe EXCEPT ![s] = "write"]
       \/ /\ EndOfStream(s)
          /\ pipe' = [pipe EXCEPT ![s] = "ended"]
          /\ UNCHANGED taken
    /\ UNCHANGED <<hostVars, connVars, execVars, accepted, recordVars, onceVars,
                   agentVars>>

\* FAULT: the buffer refuses a chunk when the session is ending.
RefusesWhenDone == bufClosed \/ done
Refuses == bufClosed

\* The chunk goes to the buffer, which refuses it once closed, unnoticed.
PipeWrite(s) ==
    /\ pipe[s] = "write"
    /\ pipe' = [pipe EXCEPT ![s] = "poll"]
    /\ accepted' = IF Refuses THEN accepted ELSE [accepted EXCEPT ![s] = @ + 1]
    /\ UNCHANGED <<hostVars, connVars, execVars, taken, recordVars, onceVars,
                   agentVars>>

\* The select on Session.done.
PipePoll(s) ==
    /\ pipe[s] = "poll"
    /\ pipe' = [pipe EXCEPT ![s] = IF done THEN "ended" ELSE "read"]
    /\ UNCHANGED <<hostVars, connVars, execVars, taken, accepted, recordVars,
                   onceVars, agentVars>>

--------------------------------------------------------------------------------
(* exitOnce.Do, run by the exit goroutine or by a Terminate call. *)

Goto(p, l) == pc' = [pc EXCEPT ![p] = l]

\* Where a recorder goes after exitOnce.Do.
AfterOnce(p) == IF p = ExitG THEN "closer" ELSE "leave"

\* FAULT: the body is run by whoever comes.
EntersAgain(once) == TRUE
\* Do of a sync.Once: the first caller enters, the others wait until it is
\* done, and go on.
Enters(once) == once = "free"
\* FAULT: a second caller does not wait.
PassesAtOnce(once) == once # "free"
Passes(once) == once = "done"

EnterExitOnce(p) ==
    /\ pc[p] = "record"
    /\ \/ Enters(exitOnce) /\ exitOnce' = p /\ Goto(p, "status")
       \/ Passes(exitOnce) /\ UNCHANGED exitOnce /\ Goto(p, AfterOnce(p))
    /\ UNCHANGED <<envVars, recordVars, termOnce, force, agentVars>>

\* Session.mu is not held by the SFTP closer.
MuFree == pc[ExitG] # "closing"

\* Status and ExitCode, in one section under mu.
RecordStatus(p) ==
    /\ pc[p] = "status" /\ MuFree
    /\ status' = "exited"
    /\ code' = IF p = ExitG THEN execCode ELSE "minus1"
    /\ Goto(p, "closeBuf")
    /\ UNCHANGED <<envVars, bufClosed, done, exitOnce, termOnce, force, agentVars>>

CloseBuffer(p) ==
    /\ pc[p] = "closeBuf"
    /\ bufClosed' = TRUE
    /\ Goto(p, "append")
    /\ UNCHANGED <<envVars, done, status, code, exitOnce, termOnce, force,
                   agentVars>>

AppendExit(p) ==
    /\ pc[p] = "append"
    /\ msgs' = Append(msgs, IF p = ExitG THEN "exited" ELSE "terminated")
    /\ exitOnce' = "done"
    /\ Goto(p, AfterOnce(p))
    /\ UNCHANGED <<envVars, recordVars, termOnce, force, creator, sftp, input,
                   inputs>>

\* FAULT: the exit goroutine goes straight to the SFTP connection.
AfterDoneUnrecorded == "closer"
AfterDone == "record"

\* The exit goroutine: after Done, close Session.done, then record.
ExitNoticed ==
    /\ pc[ExitG] = "await" /\ execDone
    /\ done' = TRUE
    /\ Goto(ExitG, AfterDone)
    /\ UNCHANGED <<envVars, bufClosed, status, code, exitOnce, termOnce, force,
                   agentVars>>

\* 60 seconds after the exit, or later: Session.mu is locked; with a connection
\* Close ends the client's side of its channel and waits.  A dial of New that
\* is not over yet finds no closer any more.
SFTPCloser ==
    /\ pc[ExitG] = "closer"
    /\ Goto(ExitG, IF sftp = "up" THEN "closing" ELSE "ended")
    /\ UNCHANGED <<envVars, recordVars, exitOnce, termOnce, force, agentVars>>

\* The host ends the channel when it has served the requests on it.
SFTPEnds ==
    /\ pc[ExitG] = "closing"
    /\ sftp' = "closed"
    /\ Goto(ExitG, "ended")
    /\ UNCHANGED <<envVars, recordVars, exitOnce, termOnce, force, creator,
                   input, inputs, msgs>>

--------------------------------------------------------------------------------
(* New, after the readers were started. *)

DialSFTP ==
    /\ creator = "dial"
    /\ \/ /\ sftp' = "up" /\ creator' = "announce"
          /\ UNCHANGED connVars
       \/ /\ creator' = "failed"
          /\ CloseExec
          /\ UNCHANGED sftp
    /\ UNCHANGED <<hostVars, execVars, pipeVars, recordVars, onceVars, input,
                   inputs, msgs>>

Announce ==
    /\ creator = "announce"
    /\ creator' = "created"
    /\ msgs' = Append(msgs, "started")
    /\ UNCHANGED <<envVars, recordVars, onceVars, sftp, input, inputs>>

--------------------------------------------------------------------------------
(* Terminate. *)

\* The manager hands out a session only after New returned.
Terminate(k) ==
    /\ pc[k] = "idle" /\ creator = "created"
    /\ force' \in [Killers -> BOOLEAN]
    /\ \A other \in Killers \ {k} : force'[other] = force[other]
    /\ Goto(k, "once")
    /\ UNCHANGED <<envVars, recordVars, exitOnce, termOnce, agentVars>>

EnterTermOnce(k) ==
    /\ pc[k] = "once"
    /\ \/ /\ Enters(termOnce) /\ termOnce' = k
          /\ Goto(k, IF force[k] THEN "close" ELSE "signal")
       \/ Passes(termOnce) /\ UNCHANGED termOnce /\ Goto(k, "returned")
    /\ UNCHANGED <<envVars, recordVars, exitOnce, force, agentVars>>

\* The graceful part: a signal request, lost if the connection is closed.
SendSignal(k) ==
    /\ pc[k] = "signal"
    /\ sigs' = IF conn = "up" THEN sigs + 1 ELSE sigs
    /\ Goto(k, "grace")
    /\ UNCHANGED <<mode, proc, stdinCopy, handler, connVars, execVars, pipeVars,
                   recordVars, exitOnce, termOnce, force, agentVars>>

\* FAULT: the grace period never ends.
GraceWithoutTimer == FALSE
\* A timer expires at any time.
GraceExpires == TRUE

\* Done within the grace period: return, leaving the record to ExitG.
Grace(k) ==
    /\ pc[k] = "grace"
    /\ \/ execDone /\ Goto(k, "leave")
       \/ GraceExpires /\ Goto(k, "close")
    /\ UNCHANGED <<envVars, recordVars, exitOnce, termOnce, force, agentVars>>

CloseConnection(k) ==
    /\ pc[k] = "close"
    /\ CloseExec
    /\ Goto(k, "await2s")
    /\ UNCHANGED <<hostVars, execVars, pipeVars, recordVars, exitOnce, termOnce,
                   force, agentVars>>

\* Done, or two seconds; either way Terminate tries to record.
Await2s(k) ==
    /\ pc[k] = "await2s"
    /\ Goto(k, "record")
    /\ UNCHANGED <<envVars, recordVars, exitOnce, termOnce, force, agentVars>>

LeaveTermOnce(k) ==
    /\ pc[k] = "leave"
    /\ termOnce' = "done"
    /\ Goto(k, "returned")
    /\ UNCHANGED <<envVars, recordVars, exitOnce, force, agentVars>>

--------------------------------------------------------------------------------
(* SendInput. *)

SendCheck ==
    /\ input = "idle" /\ creator = "created" /\ inputs < MaxInputs /\ MuFree
    /\ inputs' = inputs + 1
    /\ input' = IF status = "running" THEN "checked" ELSE "idle"
    /\ UNCHANGED <<envVars, recordVars, onceVars, creator, sftp, msgs>>

\* The write succeeds while the channel is open.  The host notices that its
\* process is dead when it copies the input.
SendWrite ==
    /\ input = "checked"
    /\ input' = "idle"
    /\ IF conn = "up" /\ ~exitMsg
       THEN /\ msgs' = Append(msgs, "input")
            /\ stdinCopy' = (stdinCopy /\ proc # "dead")
       ELSE UNCHANGED <<msgs, stdinCopy>>
    /\ UNCHANGED <<mode, proc, sigs, handler, connVars, execVars, pipeVars,
                   recordVars, onceVars, creator, sftp, inputs>>

--------------------------------------------------------------------------------

Host == StartProcess \/ StartFails \/ ForwardSignal \/ StdinEOF \/ HandlerReturns

Process == Exit \/ \E s \in Streams : Emit(s)

Pipe(s) == PipeRead(s) \/ PipeWrite(s) \/ PipePoll(s)

Record(p) ==
    EnterExitOnce(p) \/ RecordStatus(p) \/ CloseBuffer(p) \/ AppendExit(p)

ExitGoroutine == ExitNoticed \/ Record(ExitG) \/ SFTPCloser

Killing(k) ==
    \/ EnterTermOnce(k)
    \/ SendSignal(k)
    \/ Grace(k)
    \/ CloseConnection(k)
    \/ Await2s(k)
    \/ Record(k)
    \/ LeaveTermOnce(k)

Next ==
    \/ Host
    \/ Process
    \/ WaitReturns
    \/ \E s \in Streams : Pipe(s)
    \/ ExitGoroutine \/ SFTPEnds
    \/ DialSFTP \/ Announce
    \/ \E k \in Killers : Terminate(k) \/ Killing(k)
    \/ SendCheck \/ SendWrite

Spec == Init /\ [][Next]_vars

\* Goroutines that can run do run, and timers expire.  The process owes
\* nothing (it may run, write or ignore its signals for ever), the host does
\* not owe the end of the SFTP channel (SFTPEnds), and nobody is obliged to
\* call Terminate or SendInput.
Fairness ==
    /\ WF_vars(Host)
    /\ WF_vars(WaitReturns)
    /\ \A s \in Streams : WF_vars(Pipe(s))
    /\ WF_vars(ExitGoroutine)
    /\ WF_vars(DialSFTP \/ Announce)
    /\ \A k \in Killers : WF_vars(Killing(k))
    /\ WF_vars(SendWrite)

FairSpec == Spec /\ Fairness

--------------------------------------------------------------------------------
(* Properties. *)

\* Types of all variables; terminateOnce lets one signal request out.
TypeOK ==
    /\ mode \in Modes /\ proc \in {"starting", "running", "dead"}
    /\ sigs \in 0..1 /\ stdinCopy \in BOOLEAN /\ handler \in {"serving", "returned"}
    /\ conn \in {"up", "closed"} /\ exitMsg \in BOOLEAN
    /\ sent \in [Streams -> Nat] /\ avail \in [Streams -> Nat]
    /\ execDone \in BOOLEAN /\ execCode \in {"zero", "real"}
    /\ taken \in [Streams -> Nat] /\ accepted \in [Streams -> Nat]
    /\ pipe \in [Streams -> {"read", "write", "poll", "ended"}]
    /\ bufClosed \in BOOLEAN /\ done \in BOOLEAN /\ status \in {"running", "exited"}
    /\ code \in {"none", "zero", "real", "minus1"}
    /\ exitOnce \in Recorders \cup {"free", "done"}
    /\ termOnce \in Killers \cup {"free", "done"}
    /\ pc \in [Recorders -> {"idle", "once", "signal", "grace", "close", "await2s",
                             "await", "record", "status", "closeBuf", "append",
                             "closer", "closing", "leave", "returned", "ended"}]
    /\ force \in [Killers -> BOOLEAN]
    /\ creator \in {"dial", "announce", "failed", "created"}
    /\ sftp \in {"none", "up", "closed"}
    /\ input \in {"idle", "checked"} /\ inputs \in Nat
    /\ msgs \in Seq({"started", "exited", "terminated", "input"})

\* Chunks never multiply or appear from nowhere between the process and the
\* buffer: each stage has seen at most what the stage before passed on, and
\* nothing is refused while the buffer is open (session.go:111-131).
NothingInvented ==
    \A s \in Streams :
        /\ accepted[s] <= taken[s] /\ taken[s] <= avail[s] /\ avail[s] <= sent[s]
        /\ ~bufClosed => taken[s] - accepted[s] = IF pipe[s] = "write" THEN 1 ELSE 0

\* Among the exit goroutine and all Terminate calls exactly one records the
\* end of the session, and it records all of it: status, code, one message
\* (session.go:140, 244: exitOnce).
RecordedOnce ==
    /\ status = "exited" <=> code # "none"
    /\ Cardinality({i \in 1..Len(msgs) : msgs[i] \in {"exited", "terminated"}})
         = IF exitOnce = "done" THEN 1 ELSE 0
    /\ exitOnce = "done" => status = "exited" /\ bufClosed

Phase ==
    IF status = "exited" THEN "exited"
    ELSE IF execDone \/ exitOnce \in Recorders THEN "ending" ELSE "running"
SomeReturned == \E k \in Killers : pc[k] = "returned"

\* The goroutines of this module together implement the life of a session: it
\* ends once, its code is final, readers are told the end only after it is
\* recorded, and no Terminate, also not the second of two at the same time,
\* returns before (session.go:137-152, 226-258).
Life == INSTANCE SessionLife WITH
    phase <- Phase, eof <- bufClosed, returned <- SomeReturned
ImplementsLife == Life!LifeSpec

\* Every Terminate returns, whatever the process does, however the calls and the
\* exit goroutine meet in the two Onces, and also if the SFTP closer waits for
\* ever with Session.mu held (session.go:226-258).
TerminateReturns ==
    \A k \in Killers : pc[k] = "once" ~> pc[k] = "returned"

\* After a Terminate has returned, or the client has seen the end, the
\* session is recorded as exited and readers get end of file, even if
\* Terminate itself left that to the exit goroutine (session.go:231, 137-152).
EndIsRecorded ==
    (execDone \/ \E k \in Killers : pc[k] = "returned")
        ~> status = "exited" /\ bufClosed

\* The pipe readers do not outlive the session (session.go:121-128).
PipesEnd == execDone ~> \A s \in Streams : pipe[s] = "ended"

(* What documents and comments say, and the code does not do. *)

\* README.md:202: reading the session of a finished command returns its
\* output; so whatever the process wrote is in the buffer when it closes,
\* at least if nobody terminated the session.
OutputSurvivesExit ==
    bufClosed /\ creator # "failed" /\ (\A k \in Killers : pc[k] = "idle")
        => accepted = sent

\* README.md:270: force uses SIGKILL; so the process is gone in the end.
ForceKills ==
    \A k \in Killers : force[k] /\ pc[k] = "returned" ~> proc = "dead"

\* client.go:120: Done closes when the remote process exits.
DoneFollowsExit == proc = "dead" ~> execDone

\* client.go:125: ExitCode is the process exit code once Done is closed.
ExitCodeIsReal == execDone /\ creator = "created" => execCode = "real"

\* session.go:153: the SFTP connection is closed with a delay after the process
\* exits.  Even if the host ends every channel, New that dials for longer than
\* the delay opens a connection the closer did not find.
SFTPClosed ==
    (pc[ExitG] = "closing" ~> pc[ExitG] = "ended") =>
        (status = "exited" /\ creator = "created" ~> sftp = "closed")

\* session.go:225: the exit goroutine is the single authority for the final
\* status and exit code.
SingleAuthority == code # "minus1"
================================================================================
