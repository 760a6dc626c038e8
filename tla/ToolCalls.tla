------------------------------- MODULE ToolCalls -------------------------------
(***************************************************************************)
(* internal/mcp/handlers.go: the tool calls of several agents on one       *)
(* session, over what the output buffer promises (SharedLog, which         *)
(* OutputBuffer implements).  A position of the log is one line of output. *)
(*                                                                         *)
(* A call looks the session up, may send input, reads, takes the terminal  *)
(* codes out of what it read, cuts it to max_lines, appends it to the      *)
(* message history, and only then asks whether there is more: the other    *)
(* agents, the process, a cancellation, an unregistration or the deletion  *)
(* of the session may come in between.  Calls that fail before they change *)
(* anything leave no step.                                                 *)
(*                                                                         *)
(* FAULT marks definitions that are wrong on purpose (see Session.tla).    *)
(***************************************************************************)
EXTENDS SharedLog, SequencesExt, FiniteSets

CONSTANTS
    Agents,     \* agents, one call at a time each
    Starter,    \* the one that called start_process
    MaxOutput,  \* bound: lines of output
    MaxCalls,   \* bound: calls that read, send or resize
    Cuts,       \* the values of max_lines, 0 for no limit
    Rows,       \* the values of rows
    Shared,     \* marks a reader that is not, or no longer, one agent's own
    Pty         \* whether Session.Mode is "pty"

ASSUME StarterAssumption == Starter \in Agents /\ Shared \notin Agents
ASSUME ValuesAssumption == Cuts \subseteq Nat /\ Rows \subseteq Int
                           /\ Pty \in BOOLEAN
ASSUME BoundsAssumption == /\ Size \in Nat \ {0} /\ MaxReaders \in Nat \ {0}
                           /\ MaxChunk \in Nat /\ MaxOutput \in Nat /\ MaxCalls \in Nat

VARIABLES
    registered, \* the registry lists the session
    pc,         \* agent -> where its call is
    call,       \* agent -> reader and max_lines of its call
    out,        \* agent -> lines it is about to record and return
    gone,       \* agents that cancelled the call in progress
    reply,      \* agent -> reader and has_more of its last reply
    calls,      \* calls so far
    recorded,   \* line -> output messages that contain it
    owner,      \* history: reader -> the agents that read with it, {Shared} if
                \* they are several or a reply with its output was not delivered
    shown,      \* history: reader -> lines in replies to its only agent
    removed,    \* history: reader -> lines Strip and Compact left nothing of
    cut,        \* history: reader -> lines max_lines cut off
    refused,    \* history: reader -> lines the message history refused
    since,      \* history: reader -> lines written before it registered
    rows,       \* Session.Rows
    windows,    \* window changes on their way to the host
    hostRows    \* rows of the terminal on the host

callVars == <<calls, pc, call, out, gone, reply>>
readerVars == <<owner, shown, removed, cut, refused, since>>
ptyVars == <<rows, windows, hostRows>>
vars == <<logVars, registered, callVars, recorded, readerVars, ptyVars>>

NoCall == [rid |-> 0, max |-> 0]
NoReply == [rid |-> 0, more |-> "unasked"]
Initial == [rid |-> 0, more |-> "initial"]
\* FAULT: a size is taken as it comes.
WideSize(n) == n
\* The conversion of a size for the terminal of the host.
Uint16(n) == n % 65536

\* start_process: reader 0 is registered, the session is in the registry, and
\* the handler is about to read the initial output.
Init ==
    /\ wrote = 0 /\ closed = FALSE /\ nextID = 1
    /\ cursor = [id \in {0} |-> 0] /\ got = [id \in ReaderIds |-> <<>>]
    /\ registered = TRUE
    /\ pc = [a \in Agents |-> IF a = Starter THEN "read" ELSE "idle"]
    /\ call = [a \in Agents |-> NoCall]
    /\ calls = 0 /\ out = [a \in Agents |-> <<>>] /\ gone = {}
    /\ reply = [a \in Agents |-> IF a = Starter THEN Initial ELSE NoReply]
    /\ recorded = [l \in 1..MaxOutput |-> 0]
    /\ shown = [id \in ReaderIds |-> <<>>] /\ cut = [id \in ReaderIds |-> {}]
    /\ removed = [id \in ReaderIds |-> {}] /\ refused = [id \in ReaderIds |-> {}]
    /\ since = [id \in ReaderIds |-> 0]
    /\ owner = [id \in ReaderIds |-> IF id = 0 THEN {Starter} ELSE {}]
    /\ rows \in Rows \cap 1..1000 /\ windows = <<>> /\ hostRows = rows

--------------------------------------------------------------------------------
(* The session and its process. *)

Emit(n) ==
    /\ wrote + n <= MaxOutput
    /\ LogWrite(n)
    /\ UNCHANGED <<registered, callVars, recorded, readerVars, ptyVars>>

\* The end is recorded and the buffer closed (Session.tla).
Exit ==
    /\ ~closed
    /\ LogClose
    /\ UNCHANGED <<registered, callVars, recorded, readerVars, ptyVars>>

\* delete_session: calls in progress keep the session they looked up.
Delete ==
    /\ registered /\ closed
    /\ registered' = FALSE
    /\ UNCHANGED <<logVars, callVars, recorded, readerVars, ptyVars>>

--------------------------------------------------------------------------------
(* read_output, send_input (and background_send), send_and_read. *)

Goto(a, l) == pc' = [pc EXCEPT ![a] = l]

\* The call is over: a handler keeps nothing.
Return(a) == Goto(a, "idle") /\ call' = [call EXCEPT ![a] = NoCall]

\* The arguments and requireSession.
Begin(a) ==
    /\ pc[a] = "idle" /\ registered /\ calls < MaxCalls
    /\ calls' = calls + 1

\* What is read with reader id is no longer one agent's.
Spoil(id) ==
    /\ owner' = [owner EXCEPT ![id] = {Shared}]
    /\ shown' = [shown EXCEPT ![id] = <<>>]

Call(a, l, id, max) ==
    /\ Begin(a)
    /\ call' = [call EXCEPT ![a] = [rid |-> id, max |-> max]]
    /\ IF l = "send" \/ owner[id] = {a} THEN UNCHANGED <<owner, shown>>
       ELSE IF owner[id] = {}
       THEN owner' = [owner EXCEPT ![id] = {a}] /\ UNCHANGED shown
       ELSE Spoil(id)
    /\ reply' = [reply EXCEPT ![a] = NoReply]
    /\ Goto(a, l)
    /\ UNCHANGED <<logVars, registered, out, gone, recorded, removed, cut, refused,
                   since, ptyVars>>

\* SendInput: refused once the session has exited or its connection is gone;
\* then send_and_read does not read.  The message is recorded or refused as in
\* MessageLog.
SendInput(a) ==
    /\ pc[a] \in {"send", "send_and_read"}
    /\ \/ ~closed /\ pc[a] = "send_and_read" /\ Goto(a, "read") /\ UNCHANGED call
       \/ Return(a)
    /\ UNCHANGED <<logVars, registered, calls, out, gone, reply, recorded,
                   readerVars, ptyVars>>

\* The first max of the lines; 0 is no limit.
Cut(lines, max) ==
    IF max = 0 \/ Len(lines) <= max THEN lines ELSE SubSeq(lines, 1, max)

InOrder(lines) == \A i, j \in 1..Len(lines) : i < j => lines[i] < lines[j]

\* The outputs there can be: lines in the order of the log.
Texts == {text \in UNION {[1..n -> 1..MaxOutput] : n \in 0..MaxOutput} : InOrder(text)}

\* What Strip and Compact may leave of some lines: they remove blank lines, those
\* that are overwritten and more where a read ends inside a line (TerminalText);
\* with strip_ansi = false they are not called and leave all.
Stripped(lines) == {text \in Texts : ToSet(text) \subseteq ToSet(lines)}

\* Buffer.Read hands over all there is; the handler strips and cuts it and does
\* not record what is empty then.
Deliver(a, id) ==
    /\ LogDeliver(id)
    /\ \E text \in Stripped(Interval(cursor[id], wrote)) :
          LET kept == Cut(text, call[a].max) IN
          /\ out' = [out EXCEPT ![a] = kept]
          /\ removed' = [removed EXCEPT ![id] =
                            @ \cup (((cursor[id] + 1)..wrote) \ ToSet(text))]
          /\ cut' = [cut EXCEPT ![id] = @ \cup (ToSet(text) \ ToSet(kept))]
          /\ Goto(a, IF kept = <<>> THEN "more" ELSE "append")
    /\ call' = [call EXCEPT ![a].max = 0]
    /\ UNCHANGED gone

\* Nothing to read: the timeout, the cancellation or the end of file makes it
\* an empty output, an unknown reader an error.
Nothing(a, id) ==
    /\ \/ id \notin DOMAIN cursor /\ Return(a) /\ gone' = gone \ {a}
       \/ /\ id \in DOMAIN cursor /\ cursor[id] = wrote
          /\ call' = [call EXCEPT ![a].max = 0]
          /\ Goto(a, "more") /\ UNCHANGED gone
    /\ UNCHANGED <<logVars, out, removed, cut>>

\* FAULT: every agent reads with the default reader.
ReaderDefault(a) == 0
ReaderOf(a) == call[a].rid

ReadOutput(a) ==
    /\ pc[a] = "read"
    /\ Deliver(a, ReaderOf(a)) \/ Nothing(a, ReaderOf(a))
    /\ UNCHANGED <<registered, calls, reply, recorded, owner, shown, refused, since,
                   ptyVars>>

\* FAULT: output nobody waits for any more is not recorded.
KeptUnlessCancelled(a) == IF a \in gone THEN {} ELSE ToSet(out[a])
Kept(a) == ToSet(out[a])

\* The message history gets what is about to be returned, or refuses it (a write
\* of MessageLog fails), which the handler does not look at.
AppendOutput(a) ==
    /\ pc[a] = "append"
    /\ \/ /\ recorded' = [l \in 1..MaxOutput |->
                             recorded[l] + IF l \in Kept(a) THEN 1 ELSE 0]
          /\ UNCHANGED refused
       \/ /\ refused' = [refused EXCEPT ![call[a].rid] = @ \cup Kept(a)]
          /\ UNCHANGED recorded
    /\ Goto(a, "more")
    /\ UNCHANGED <<logVars, registered, calls, call, out, gone, reply,
                   owner, shown, removed, cut, since, ptyVars>>

\* FAULT: the handler asks about the default reader.
HasMoreDefault(id) == 0 \in DOMAIN cursor /\ cursor[0] < wrote
HasMore(id) == id \in DOMAIN cursor /\ cursor[id] < wrote

\* has_more is asked (not by start_process) and the result returned, if the
\* client still waits.
Reply(a) ==
    LET id == call[a].rid IN
    /\ pc[a] = "more"
    /\ IF a \in gone THEN Spoil(id) /\ UNCHANGED reply
       ELSE IF owner[id] = {Shared} THEN UNCHANGED <<owner, shown, reply>>
       ELSE /\ shown' = [shown EXCEPT ![id] = @ \o out[a]]
            /\ reply' = [reply EXCEPT ![a] =
                   IF @ = Initial THEN NoReply
                   ELSE [rid |-> id, more |-> IF HasMore(id) THEN "yes" ELSE "no"]]
            /\ UNCHANGED owner
    /\ out' = [out EXCEPT ![a] = <<>>] /\ gone' = gone \ {a}
    /\ Return(a)
    /\ UNCHANGED <<logVars, registered, calls, recorded, removed, cut, refused, since,
                   ptyVars>>

\* The client cancels its request or disconnects.
Cancel(a) ==
    /\ pc[a] \in {"read", "append", "more"} /\ a \notin gone
    /\ gone' = gone \cup {a}
    /\ UNCHANGED <<logVars, registered, calls, pc, call, out, reply, recorded,
                   readerVars, ptyVars>>

--------------------------------------------------------------------------------
(* register_reader, unregister_reader. *)

RegisterReader(a) ==
    /\ pc[a] = "idle" /\ registered
    /\ LogRegister
    /\ since' = [since EXCEPT ![nextID] = wrote]
    /\ UNCHANGED <<registered, callVars, recorded, owner, shown, removed, cut, refused,
                   ptyVars>>

UnregisterReader(a, id) ==
    /\ pc[a] = "idle" /\ registered
    /\ LogUnregister(id)
    /\ UNCHANGED <<registered, callVars, recorded, readerVars, ptyVars>>

--------------------------------------------------------------------------------
(* resize_pty, in one section under Session.mu, and the host. *)

\* FAULT: the size is recorded although the terminal does not get it.
NoWindow(r) == <<>>
\* The window change ExecSession.ResizePty sends.
Window(r) == <<r>>

\* Refused for an exited session, in pipe mode and on a connection error.
ResizePty(a, r) ==
    /\ Begin(a) /\ ~closed /\ Pty
    /\ rows' = r /\ windows' = windows \o Window(r)
    /\ UNCHANGED <<logVars, registered, pc, call, out, gone, reply, recorded,
                   readerVars, hostRows>>

\* The goroutine of handleSession that ranges over winCh.
Setsize ==
    /\ windows # <<>>
    /\ hostRows' = Uint16(Head(windows)) /\ windows' = Tail(windows)
    /\ UNCHANGED <<logVars, registered, callVars, recorded, readerVars, rows>>

--------------------------------------------------------------------------------

Next ==
    \/ \E n \in 1..MaxChunk : Emit(n)
    \/ Exit \/ Delete \/ Setsize
    \/ \E a \in Agents :
          \/ \E id \in ReaderIds, max \in Cuts :
                Call(a, "read", id, max) \/ Call(a, "send_and_read", id, max)
          \/ Call(a, "send", 0, 0)
          \/ SendInput(a) \/ ReadOutput(a) \/ AppendOutput(a) \/ Reply(a) \/ Cancel(a)
          \/ RegisterReader(a)
          \/ \E id \in ReaderIds : UnregisterReader(a, id)
          \/ \E r \in Rows : ResizePty(a, r)

Spec == Init /\ [][Next]_vars

--------------------------------------------------------------------------------
(* Properties. *)

Lines == 1..MaxOutput

Places == {"idle", "send", "send_and_read", "read", "append", "more"}
Calls == [rid : ReaderIds, max : Cuts \cup {0}]
Replies == [rid : ReaderIds, more : {"initial", "unasked", "yes", "no"}]

LogTypes ==
    /\ wrote \in 0..MaxOutput /\ closed \in BOOLEAN /\ nextID \in Nat
    /\ cursor \in [DOMAIN cursor -> 0..wrote] /\ DOMAIN cursor \subseteq ReaderIds
    /\ got \in [ReaderIds -> Seq(Lines)] /\ since \in [ReaderIds -> 0..wrote]
CallTypes ==
    /\ pc \in [Agents -> Places] /\ call \in [Agents -> Calls] /\ gone \subseteq Agents
    /\ out \in [Agents -> Seq(Lines)] /\ reply \in [Agents -> Replies]
HistoryTypes ==
    calls \in 0..MaxCalls /\ recorded \in [Lines -> Nat]
ReaderTypes ==
    /\ shown \in [ReaderIds -> Seq(Lines)] /\ cut \in [ReaderIds -> SUBSET Lines]
    /\ removed \in [ReaderIds -> SUBSET Lines] /\ refused \in [ReaderIds -> SUBSET Lines]
    /\ owner \in [ReaderIds -> SUBSET (Agents \cup {Shared})]
IsUint16(n) == n \in Nat /\ n < 65536
PtyTypes == rows \in Rows /\ windows \in Seq(Rows) /\ IsUint16(hostRows)

\* Types of all variables; the terminal on the host has 16-bit sizes.
TypeOK ==
    /\ registered \in BOOLEAN
    /\ LogTypes /\ CallTypes /\ HistoryTypes /\ ReaderTypes /\ PtyTypes

\* Only a has read with id, and all replies reached it.
Owns(a, id) == owner[id] = {a} /\ id \in DOMAIN cursor

\* What a has been shown through reader id or is about to be.
Seen(a, id) == shown[id] \o (IF call[a].rid = id THEN out[a] ELSE <<>>)

\* CHANGELOG.md:55, README.md:45: an agent with a reader of its own is shown the
\* lines since it registered, once and in order and none missing but what Strip and
\* Compact removed or max_lines cut from its own reads, whatever the other agents
\* read, cancel or unregister (session.go:192-222).
OwnReaderSeesAll ==
    \A a \in Agents, id \in ReaderIds :
        Owns(a, id) /\ wrote <= Size =>
            /\ InOrder(Seen(a, id))
            /\ ToSet(Seen(a, id))
                 = ((since[id] + 1)..cursor[id]) \ (removed[id] \cup cut[id])

\* What a reader was handed is in the message history or about to be, once for
\* every reader, also if the client that asked for it is gone; only what was
\* removed or cut before, or what the history itself refused, is not
\* (session.go:198-211).
HandedIsRecorded ==
    \A l \in Lines :
        recorded[l] + Cardinality({a \in Agents : pc[a] = "append" /\ l \in ToSet(out[a])})
            = Cardinality({id \in ReaderIds :
                  l \in ToSet(got[id]) \ (removed[id] \cup cut[id] \cup refused[id])})

\* An agent told has_more finds more when it reads again, if the reader is its
\* own and still there (handlers.go:163, asked after the read).
HasMoreIsTrue ==
    \A a \in Agents :
        reply[a].more = "yes" /\ Owns(a, reply[a].rid) => cursor[reply[a].rid] < wrote

\* The terminal has, or is going to have, the size the session records, cut to
\* 16 bits (session.go:261-276, server.go:163-171).
SizeReachesHost ==
    ~closed => (IF windows = <<>> THEN hostRows ELSE Uint16(Last(windows))) = Uint16(rows)

(* What documents say, and the code does not do. *)

\* README.md:239, 247: read_output returns the new output, max_lines bounds
\* what one call returns; so after has_more = false nothing that has something on
\* it is left unshown.
NoMoreMeansAll ==
    \A a \in Agents :
        LET id == reply[a].rid IN
        reply[a].more = "no" /\ Owns(a, id) /\ wrote <= Size
            => since[id] + Len(shown[id]) + Cardinality(removed[id]) >= cursor[id]

\* README.md:178: an agent that registers a reader "reads from the beginning".
NewReaderSeesAll ==
    \A a \in Agents, id \in ReaderIds :
        Owns(a, id) /\ wrote <= Size
            => ToSet(Seen(a, id)) = (1..cursor[id]) \ (removed[id] \cup cut[id])
================================================================================
