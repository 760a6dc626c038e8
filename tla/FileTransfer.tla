----------------------------- MODULE FileTransfer -----------------------------
(***************************************************************************)
(* upload_file, download_file and list_files: the transfers of several     *)
(* agents over the one SFTP connection of a session, to one file that the  *)
(* process, too, writes, while the exit goroutine is going to close the    *)
(* connection (60 seconds after the exit).  Closing ends the client's side *)
(* of the SFTP channel and then waits, with Session.mu held, until the     *)
(* host has ended its side; only then the SSH connection is closed.        *)
(*                                                                         *)
(* A file is a sequence of blocks, as many bytes as one SFTP request moves;*)
(* a block is                                                              *)
(*   "text"  UTF-8            "raw"  not UTF-8, no NUL byte                *)
(*   "bin"   with a NUL byte                                               *)
(* Somebody may write the file in place or start it anew, not replace it   *)
(* by another file.  Calls that fail before they look for the connection   *)
(* leave no step.                                                          *)
(*                                                                         *)
(* FAULT marks definitions that are wrong on purpose (see Session.tla).    *)
(***************************************************************************)
EXTENDS Integers, Sequences, SequencesExt

CONSTANTS
    Agents,     \* agents, one transfer at a time each
    Blocks,     \* the blocks that occur
    MaxFile,    \* maxFileSize, in blocks
    MaxCalls,   \* bound: transfers
    MaxChanges  \* bound: writes by others

Kinds == {"text", "raw", "bin"}
ASSUME BlocksAssumption == Blocks \subseteq Kinds
ASSUME FileBoundAssumption == MaxFile \in Nat \ {0}

Absent == <<"absent">>   \* no file
Unread == "unread"       \* a block a download still waits for

VARIABLES
    file,      \* the file on the host
    conn,      \* Session.sftpConn: "up", "closing" (Close waits for the host,
               \* Session.mu is held for writing), or "closed" and nil
    exited,    \* Done is closed: the 60 seconds run
    holding,   \* agents that hold Session.mu for reading
    asked,     \* agents whose request is at the host
    pc,        \* agent -> where its transfer is
    data,      \* agent -> what it uploads, or has downloaded
    pos,       \* agent -> blocks it has written
    reply,     \* agent -> the last result
    disturbed, \* history: agents whose file somebody else has changed since
               \* they created it or asked for its size
    calls, changes

agentVars == <<holding, asked, pc, data, pos, reply>>
vars == <<file, conn, exited, agentVars, disturbed, calls, changes>>

Nothing == [what |-> "none", content |-> <<>>]

Init ==
    /\ file = Absent /\ conn = "up" /\ exited = FALSE
    /\ holding = {} /\ asked = {}
    /\ pc = [a \in Agents |-> "idle"]
    /\ data = [a \in Agents |-> <<>>] /\ pos = [a \in Agents |-> 0]
    /\ reply = [a \in Agents |-> Nothing]
    /\ disturbed = {} /\ calls = 0 /\ changes = 0

--------------------------------------------------------------------------------
(* A call looks for the connection. *)

Goto(a, l) == pc' = [pc EXCEPT ![a] = l]

Return(a, what, content) ==
    /\ Goto(a, "idle")
    /\ reply' = [reply EXCEPT ![a] = [what |-> what, content |-> content]]
    /\ holding' = holding \ {a} /\ asked' = asked \ {a}

\* A tool call arrives; an upload has content.
Begin(a, first, content) ==
    /\ pc[a] = "idle" /\ calls < MaxCalls
    /\ calls' = calls + 1
    /\ Goto(a, first)
    /\ data' = [data EXCEPT ![a] = content] /\ pos' = [pos EXCEPT ![a] = 0]
    /\ reply' = [reply EXCEPT ![a] = Nothing]
    /\ UNCHANGED <<file, conn, exited, holding, asked, disturbed, changes>>

Lock(a) ==
    /\ pc[a] \in {"upload", "download", "list_files"}
    /\ a \notin holding /\ conn # "closing"
    /\ holding' = holding \cup {a}
    /\ UNCHANGED <<file, conn, exited, asked, pc, data, pos, reply, disturbed, calls,
                   changes>>

\* FAULT: the mutex is held until the transfer is over.
UnlockLater(a) == holding
Unlock(a) == holding \ {a}

TooLarge(n) == n > MaxFile

FirstRequest == [upload |-> "mkdir", download |-> "stat", list_files |-> "list"]

\* getSFTPClient; then an upload looks at the size of its content.
GetClient(a) ==
    /\ a \in holding /\ pc[a] \in DOMAIN FirstRequest
    /\ IF conn = "closed" \/ (pc[a] = "upload" /\ TooLarge(Len(data[a])))
       THEN Return(a, "error", <<>>)
       ELSE /\ Goto(a, FirstRequest[pc[a]])
            /\ holding' = Unlock(a)
            /\ UNCHANGED <<reply, asked>>
    /\ UNCHANGED <<file, conn, exited, data, pos, disturbed, calls, changes>>

--------------------------------------------------------------------------------
(* Requests.  Each needs the connection to be up when it is sent.  The host  *)
(* answers what it was asked, also while the connection is being closed, or  *)
(* leaves it unanswered; a failure ends the transfer where it stands.        *)

Requests == {"mkdir", "create", "write", "stat", "open", "read", "list"}

Send(a) ==
    /\ pc[a] \in Requests /\ a \notin asked /\ conn = "up"
    /\ asked' = asked \cup {a}
    /\ UNCHANGED <<file, conn, exited, holding, pc, data, pos, reply, disturbed, calls,
                   changes>>

\* The host serves request l of the agent.
Request(a, l) == pc[a] = l /\ a \in asked /\ conn # "closed"

\* It is answered, and the transfer goes on with the next.
Proceed(a, l) == Goto(a, l) /\ asked' = asked \ {a}

\* FAULT: the error of the write is not looked at.
AnswerUnchecked(l) == IF l = "write" THEN "uploaded" ELSE "error"
Answer(l) == "error"

Fail(a) ==
    /\ pc[a] \in Requests
    /\ Return(a, Answer(pc[a]), <<>>)
    /\ UNCHANGED <<file, conn, exited, data, pos, disturbed, calls, changes>>

\* The directory of the file; for some paths there is none to be made.
MkdirAll(a) ==
    /\ Request(a, "mkdir")
    /\ Proceed(a, "create")
    /\ UNCHANGED <<file, conn, exited, holding, data, pos, reply, disturbed, calls,
                   changes>>

\* Create truncates the file that is there.
Create(a) ==
    /\ Request(a, "create")
    /\ file' = <<>>
    /\ disturbed' = Agents \ {a}
    /\ Proceed(a, "write")
    /\ UNCHANGED <<conn, exited, holding, data, pos, reply, calls, changes>>

\* Block i of file f becomes b; a gap in front of it reads as zeros.
Put(f, i, b) ==
    [j \in 1..(IF i > Len(f) THEN i ELSE Len(f)) |->
        IF j = i THEN b ELSE IF j <= Len(f) THEN f[j] ELSE "bin"]

\* Write sends block after block; after the last the upload has succeeded.
Write(a) ==
    LET next == pos[a] + 1 IN
    /\ Request(a, "write")
    /\ file' = Put(file, next, data[a][next])
    /\ pos' = [pos EXCEPT ![a] = next]
    /\ disturbed' = disturbed \cup (Agents \ {a})
    /\ IF next = Len(data[a]) THEN Return(a, "uploaded", <<>>)
       ELSE Proceed(a, "write") /\ UNCHANGED <<reply, holding>>
    /\ UNCHANGED <<conn, exited, data, calls, changes>>

\* The size decides how much is going to be read.
Stat(a) ==
    /\ Request(a, "stat") /\ file # Absent
    /\ disturbed' = disturbed \ {a}
    /\ IF TooLarge(Len(file))
       THEN Return(a, "error", <<>>) /\ UNCHANGED data
       ELSE /\ data' = [data EXCEPT ![a] = [i \in DOMAIN file |-> Unread]]
            /\ Proceed(a, "open") /\ UNCHANGED <<reply, holding>>
    /\ UNCHANGED <<file, conn, exited, pos, calls, changes>>

Open(a) ==
    /\ Request(a, "open")
    /\ Proceed(a, "read")
    /\ UNCHANGED <<file, conn, exited, holding, data, pos, reply, disturbed, calls,
                   changes>>

\* The blocks are asked for all together and answered in any order; one that
\* is no longer there makes ReadFull fail.
Read(a, i) ==
    /\ Request(a, "read") /\ i \in DOMAIN data[a] /\ data[a][i] = Unread
    /\ IF i \in DOMAIN file
       THEN /\ data' = [data EXCEPT ![a][i] = file[i]]
            /\ UNCHANGED <<pc, reply, holding, asked>>
       ELSE Return(a, "error", <<>>) /\ UNCHANGED data
    /\ UNCHANGED <<file, conn, exited, pos, disturbed, calls, changes>>

\* Content with a NUL byte travels as base64; without one as a JSON string,
\* in which json.Marshal replaces what is not UTF-8.
OnTheWire(content) ==
    IF Contains(content, "bin") THEN content
    ELSE [i \in DOMAIN content |-> IF content[i] = "raw" THEN "replaced" ELSE content[i]]

\* FAULT: one Read, which may return less than was asked for.
ReadSome(a) == data[a] = <<>> \/ \E i \in DOMAIN data[a] : data[a][i] # Unread
ReadFull(a) == ~Contains(data[a], Unread)

Downloaded(a) ==
    /\ pc[a] = "read" /\ ReadFull(a)
    /\ Return(a, "downloaded", OnTheWire(data[a]))
    /\ UNCHANGED <<file, conn, exited, data, pos, disturbed, calls, changes>>

ListFiles(a) ==
    /\ Request(a, "list")
    /\ Return(a, "listed", <<>>)
    /\ UNCHANGED <<file, conn, exited, data, pos, disturbed, calls, changes>>

--------------------------------------------------------------------------------
(* The host and the exit goroutine. *)

\* The process appends to the file or starts it anew.
Change(f) ==
    /\ changes < MaxChanges
    /\ changes' = changes + 1
    /\ file' = f /\ disturbed' = Agents
    /\ UNCHANGED <<conn, exited, agentVars, calls>>

ProcessWrites ==
    \/ Change(<<>>)
    \/ file # Absent /\ Len(file) <= MaxFile /\ \E b \in Blocks : Change(Append(file, b))

Exit ==
    /\ ~exited /\ exited' = TRUE
    /\ UNCHANGED <<file, conn, agentVars, disturbed, calls, changes>>

\* After 60 seconds Session.mu is locked for writing, and the client's side of
\* the channel closed.
Closer ==
    /\ exited /\ conn = "up" /\ holding = {}
    /\ conn' = "closing"
    /\ UNCHANGED <<file, exited, agentVars, disturbed, calls, changes>>

\* The host ends the channel; then the connection is closed and the mutex unlocked.
ChannelEnds ==
    /\ conn = "closing"
    /\ conn' = "closed"
    /\ UNCHANGED <<file, exited, agentVars, disturbed, calls, changes>>

--------------------------------------------------------------------------------

Contents == UNION {[1..n -> Blocks] : n \in 1..(MaxFile + 1)}

Local(a) == Lock(a) \/ GetClient(a) \/ Downloaded(a)

Next ==
    \/ \E a \in Agents :
          \/ \E content \in Contents : Begin(a, "upload", content)
          \/ Begin(a, "download", <<>>) \/ Begin(a, "list_files", <<>>)
          \/ Local(a)
          \/ Send(a) \/ Fail(a) \/ MkdirAll(a) \/ Create(a) \/ Write(a)
          \/ Stat(a) \/ Open(a) \/ \E i \in DOMAIN data[a] : Read(a, i)
          \/ ListFiles(a)
    \/ ProcessWrites \/ Exit \/ Closer \/ ChannelEnds

Spec == Init /\ [][Next]_vars

\* Goroutines run and the timer expires, and a host with nothing to serve ends
\* the channel; but it owes no answer: only a request that cannot be sent, or is
\* left when the connection is closed, is sure to end, with an error.
Fairness ==
    /\ WF_vars(Closer) /\ WF_vars(asked = {} /\ ChannelEnds)
    /\ \A a \in Agents :
          /\ WF_vars(Local(a) \/ Send(a))
          /\ WF_vars(conn # "up" /\ a \notin asked /\ Fail(a))
          /\ WF_vars(conn = "closed" /\ Fail(a))

FairSpec == Spec /\ Fairness

--------------------------------------------------------------------------------
(* Properties. *)

\* An upload that is reported done has stored all of its content, unless the
\* file was changed by another upload or by the process: no failed write, and
\* no connection closed under it, is reported as success (session.go:341-354).
UploadedIsStored ==
    \A a \in Agents :
        reply[a].what = "uploaded" /\ a \notin disturbed => file = data[a]

\* A download of a file nobody wrote meanwhile has all its blocks, each as it
\* is, but for those that are not UTF-8 in a file without a NUL byte, which
\* json.Marshal replaces (DownloadIsVerbatim); and no download is larger than
\* the limit, also if the file grew after its size was asked for
\* (session.go:380-401).
DownloadedIsFile ==
    \A a \in Agents :
        reply[a].what = "downloaded" =>
            LET content == reply[a].content IN
            /\ Len(content) <= MaxFile
            /\ a \notin disturbed =>
                  /\ Len(content) = Len(file)
                  /\ \A i \in DOMAIN file :
                        content[i] # file[i] => file[i] = "raw" /\ ~Contains(file, "bin")

\* If the host ends the SFTP channel that is being closed, every transfer comes
\* to an end once the session has exited, also one whose request is never
\* answered: no transfer keeps the exit goroutine from closing the connection,
\* and that ends them all (session.go:153-165, 309-311; client.go:176-181).
ExitEndsTransfers ==
    (conn = "closing" ~> conn = "closed") =>
        \A a \in Agents : exited /\ pc[a] # "idle" ~> pc[a] = "idle"

(* What comments say, and the code does not do. *)

\* session.go:373: text is returned verbatim, anything else in base64; so what
\* a download returns is what the file holds.
DownloadIsVerbatim ==
    \A a \in Agents :
        reply[a].what = "downloaded" /\ a \notin disturbed => reply[a].content = file

\* session.go:153: the SFTP connection is closed with a delay after the process
\* exits.  A host that serves a request that never ends, the read of a FIFO, does
\* not end the channel either, and Close waits for it with Session.mu held.
ConnectionIsClosed == exited ~> conn = "closed"
================================================================================
