------------------------------- MODULE Registry -------------------------------
(***************************************************************************)
(* internal/session/manager.go: the registry of sessions, its RWMutex and  *)
(* its file sessions.json, used by one goroutine per tool call (Callers)   *)
(* and, at shutdown, by the goroutine that runs CleanupAll (Main).         *)
(*                                                                         *)
(* A session is reduced to what Session.tla shows of it: it runs, its end  *)
(* is noticed (ExecSession.Done closed, Status still running: "ending"),   *)
(* its end is recorded ("exited"): the phases of SessionLife, which Session *)
(* implements.  A Terminate returns no earlier than "ending".              *)
(*                                                                         *)
(* The RWMutex is Go's: a writer that has asked for the lock (writer) lets *)
(* the present readers finish and admits no new one.  A section under it   *)
(* that waits for nothing is one step.  ListAll and Delete wait in theirs  *)
(* for the Session.mu of a session (Info), and the SFTP closer of an       *)
(* exited session holds that over a Close that waits for the host (see     *)
(* FileTransfer); CleanupAll, which calls ListAll in its read section,     *)
(* asks for the read lock a second time.                                   *)
(*                                                                         *)
(* FAULT marks definitions that are wrong on purpose (see Session.tla).    *)
(***************************************************************************)
EXTENDS Integers, FiniteSets

CONSTANTS
    Callers,   \* goroutines that serve tool calls
    Main,      \* the goroutine that handles the shutdown signal
    Nobody,    \* no writer
    Ids,       \* bound: the identifiers of all sessions ever started
    Shutdown   \* whether the shutdown signal may come

ASSUME NamesAssumption ==
    /\ Main \notin Callers
    /\ Nobody \notin Callers \cup {Main}
ASSUME IdsAssumption == Ids # {}
ASSUME ShutdownAssumption == Shutdown \in BOOLEAN

VARIABLES
    sessions,    \* Manager.sessions: the registered identifiers
    status,      \* identifier -> state of the session, "none" if never started
    writer,      \* the caller that asked for or holds Manager.mu, or Nobody
    readers,     \* goroutines inside ListAll's or CleanupAll's read section
    closer,      \* identifier -> its SFTP closer: "due", "closing" (it holds
                 \* Session.mu and waits for the host), "done"
    pc,          \* goroutine -> where it is
    arg,         \* caller -> the session its call is about
    snap,        \* goroutine -> the list it is going to save
    todo,        \* sessions CleanupAll has yet to terminate
    mine,        \* sessions CleanupAll waits for
    file,        \* contents of sessions.json
    terminated,  \* history: sessions of which a Terminate has returned
    refused      \* history: of those, the ones a Delete refused as running

lockVars == <<writer, readers>>
fileVars == <<snap, file>>
cleanupVars == <<todo, mine>>
historyVars == <<terminated, refused>>
vars == <<sessions, status, closer, lockVars, pc, arg, fileVars, cleanupVars,
          historyVars>>

Goroutines == Callers \cup {Main}
NoSessions == [id \in {} |-> "exited"]
AnId == CHOOSE id \in Ids : TRUE

\* FAULT: a session counts as exited when its process has ended.
EarlyInfo(id) == IF status[id] \in {"ending", "exited"} THEN "exited" ELSE "running"
\* Info().Status, as ListAll, Delete and CleanupAll see it.
Info(id) == IF status[id] = "exited" THEN "exited" ELSE "running"

\* RLock is granted while no writer has asked for the lock.
CanRead == writer = Nobody
\* The writer that asked gets the lock when the readers are gone.
CanWrite(g) == writer = g /\ readers = {}
\* Session.mu can be locked for reading.
MuFree(id) == closer[id] # "closing"

Goto(g, l) == pc' = [pc EXCEPT ![g] = l]

\* main returned and took all goroutines with it.
Gone == pc[Main] = "gone"

Init ==
    /\ sessions = {} /\ status = [id \in Ids |-> "none"]
    /\ closer = [id \in Ids |-> "due"]
    /\ writer = Nobody /\ readers = {}
    /\ pc = [g \in Goroutines |-> "idle"]
    /\ arg = [g \in Callers |-> AnId]
    /\ snap = [g \in Goroutines |-> NoSessions] /\ file = NoSessions
    /\ todo = {} /\ mine = {}
    /\ terminated = {} /\ refused = {}

--------------------------------------------------------------------------------
(* Sessions. *)

\* The process ends, by itself or because somebody terminates it.
End(id) ==
    /\ ~Gone
    /\ status[id] = "running"
    /\ status' = [status EXCEPT ![id] = "ending"]
    /\ UNCHANGED <<sessions, closer, lockVars, pc, arg, fileVars,
                   cleanupVars, historyVars>>

\* exitOnce: the status becomes visible.
RecordExit(id) ==
    /\ ~Gone
    /\ status[id] = "ending"
    /\ status' = [status EXCEPT ![id] = "exited"]
    /\ UNCHANGED <<sessions, closer, lockVars, pc, arg, fileVars,
                   cleanupVars, historyVars>>

\* The SFTP closer locks Session.mu and asks the host to end the channel.
CloserLocks(id) ==
    /\ ~Gone
    /\ status[id] = "exited" /\ closer[id] = "due"
    /\ closer' = [closer EXCEPT ![id] = "closing"]
    /\ UNCHANGED <<sessions, status, lockVars, pc, arg, fileVars,
                   cleanupVars, historyVars>>

\* The host has ended it; Session.mu is unlocked.
CloserEnds(id) ==
    /\ ~Gone
    /\ closer[id] = "closing"
    /\ closer' = [closer EXCEPT ![id] = "done"]
    /\ UNCHANGED <<sessions, status, lockVars, pc, arg, fileVars,
                   cleanupVars, historyVars>>

--------------------------------------------------------------------------------
(* Tool calls. *)

\* Create, up to the lock: New has started the session.
Create(g) ==
    /\ pc[g] = "idle"
    /\ \E id \in Ids :
          /\ status[id] = "none"
          /\ status' = [status EXCEPT ![id] = "running"]
          /\ arg' = [arg EXCEPT ![g] = id]
    /\ Goto(g, "register")
    /\ UNCHANGED <<sessions, closer, lockVars, fileVars, cleanupVars, historyVars>>

\* mu.Lock of Create and Delete: from here on no reader is admitted.
AskToWrite(g) ==
    /\ pc[g] \in {"register", "delete"}
    /\ writer = Nobody
    /\ writer' = g
    /\ UNCHANGED <<sessions, status, closer, readers, pc, arg,
                   fileVars, cleanupVars,
                   historyVars>>

Register(g) ==
    /\ pc[g] = "register" /\ CanWrite(g)
    /\ sessions' = sessions \cup {arg[g]}
    /\ writer' = Nobody
    /\ Goto(g, "snapshot")
    /\ UNCHANGED <<status, closer, readers, arg, fileVars,
                   cleanupVars, historyVars>>

\* Terminate, up to Session.Terminate: an unknown session is ignored.
Terminate(g, id) ==
    /\ pc[g] = "idle" /\ CanRead
    /\ id \in sessions
    /\ arg' = [arg EXCEPT ![g] = id]
    /\ Goto(g, "terminate")
    /\ UNCHANGED <<sessions, status, closer, lockVars, fileVars,
                   cleanupVars, historyVars>>

\* Session.Terminate returns.
Terminated(g) ==
    /\ pc[g] = "terminate"
    /\ status[arg[g]] \in {"ending", "exited"}
    /\ terminated' = terminated \cup {arg[g]}
    /\ Goto(g, "snapshot")
    /\ UNCHANGED <<sessions, status, closer, lockVars, arg, fileVars,
                   cleanupVars, refused>>

\* Delete, up to the lock.
Delete(g, id) ==
    /\ pc[g] = "idle"
    /\ status[id] # "none"
    /\ arg' = [arg EXCEPT ![g] = id]
    /\ Goto(g, "delete")
    /\ UNCHANGED <<sessions, status, closer, lockVars, fileVars,
                   cleanupVars, historyVars>>

\* FAULT: whatever is registered is deleted.
MayBeDeletedAlways(id) == id \in sessions
MayBeDeleted(id) == id \in sessions /\ Info(id) # "running"

\* FAULT: an error return forgets to unlock.
AfterRefusalLocked(g) == g
\* Every return of Delete unlocks.
AfterRefusal(g) == Nobody

\* The locked part: nil, running, or deleted; only the last is persisted.
DeleteLocked(g) ==
    /\ pc[g] = "delete" /\ CanWrite(g)
    /\ arg[g] \in sessions => MuFree(arg[g])
    /\ \/ /\ MayBeDeleted(arg[g])
          /\ sessions' = sessions \ {arg[g]}
          /\ writer' = Nobody /\ Goto(g, "snapshot")
          /\ UNCHANGED refused
       \/ /\ ~MayBeDeleted(arg[g])
          /\ refused' = refused \cup ({arg[g]} \cap sessions \cap terminated)
          /\ writer' = AfterRefusal(g) /\ Goto(g, "idle")
          /\ UNCHANGED sessions
    /\ UNCHANGED <<status, closer, readers, arg, fileVars, cleanupVars, terminated>>

--------------------------------------------------------------------------------
(* persist: the list is taken under the read lock of the manager, session    *)
(* by session; the file is written later under the lock of the store.        *)

\* RLock of ListAll.
Snapshot(g) ==
    /\ pc[g] = "snapshot" /\ CanRead
    /\ readers' = readers \cup {g}
    /\ Goto(g, "list")
    /\ UNCHANGED <<sessions, status, closer, writer, arg, fileVars, cleanupVars,
                   historyVars>>

\* A list with what Info says of one more session.
With(list, id) ==
    [other \in {id} \cup DOMAIN list |-> IF other = id THEN Info(id) ELSE list[other]]

\* Info of one session, under its Session.mu.
ListInfo(g, id) ==
    /\ pc[g] = "list" /\ id \in sessions \ DOMAIN snap[g] /\ MuFree(id)
    /\ snap' = [snap EXCEPT ![g] = With(@, id)]
    /\ UNCHANGED <<sessions, status, closer, lockVars, pc, arg, file, cleanupVars,
                   historyVars>>

\* FAULT: ListAll returns without RUnlock.
StillReading(g) == readers
DoneReading(g) == readers \ {g}

\* RUnlock; CleanupAll releases its own read lock too.
Listed(g) ==
    /\ pc[g] = "list" /\ DOMAIN snap[g] = sessions
    /\ readers' = DoneReading(g)
    /\ Goto(g, IF g = Main THEN "cleanup" ELSE "save")
    /\ UNCHANGED <<sessions, status, closer, writer, arg, fileVars, cleanupVars,
                   historyVars>>

Save(g) ==
    /\ pc[g] = "save"
    /\ file' = snap[g]
    /\ snap' = [snap EXCEPT ![g] = NoSessions]
    /\ Goto(g, IF g = Main THEN "stop" ELSE "idle")
    /\ UNCHANGED <<sessions, status, closer, lockVars, arg,
                   cleanupVars, historyVars>>

--------------------------------------------------------------------------------
(* Shutdown: CleanupAll(true), then the servers stop and main returns. *)

\* FAULT: the loop that waits gets an empty list.
AwaitsNobody == {}
\* Every session of the copy is waited for.
Awaits == sessions

\* RLock and the copy of the sessions.
Cleanup ==
    /\ Shutdown /\ pc[Main] = "idle" /\ CanRead
    /\ readers' = readers \cup {Main}
    /\ todo' = sessions /\ mine' = Awaits
    /\ Goto(Main, "relock")
    /\ UNCHANGED <<sessions, status, closer, writer, arg, fileVars, historyVars>>

\* ListAll asks for the read lock again.
CleanupList ==
    /\ pc[Main] = "relock" /\ CanRead
    /\ Goto(Main, "list")
    /\ UNCHANGED <<sessions, status, closer, lockVars, arg, fileVars, cleanupVars,
                   historyVars>>

\* Session.Terminate of one session returns.
CleanupTerminated(id) ==
    /\ pc[Main] = "cleanup" /\ id \in todo
    /\ status[id] \in {"ending", "exited"}
    /\ todo' = todo \ {id}
    /\ UNCHANGED <<sessions, status, closer, lockVars, pc, arg, fileVars,
                   mine, historyVars>>

\* The loop that polls the statuses ends when all have exited or five seconds
\* are over; it hangs at a session whose closer waits, unless it meets a running
\* one before.
CleanupAwaited ==
    /\ pc[Main] = "cleanup" /\ todo = {}
    /\ \/ \A id \in mine : MuFree(id)
       \/ \E id \in mine : Info(id) = "running"
    /\ Goto(Main, "save")
    /\ UNCHANGED <<sessions, status, closer, lockVars, arg, fileVars,
                   cleanupVars, historyVars>>

Stop ==
    /\ pc[Main] = "stop"
    /\ pc' = [g \in Goroutines |-> "gone"]
    /\ UNCHANGED <<sessions, status, closer, lockVars, arg, fileVars,
                   cleanupVars, historyVars>>

--------------------------------------------------------------------------------

Call(g) ==
    \/ Create(g)
    \/ \E id \in Ids : Terminate(g, id) \/ Delete(g, id)

Working(g) ==
    \/ AskToWrite(g) \/ Register(g) \/ DeleteLocked(g)
    \/ Terminated(g)
    \/ Snapshot(g) \/ (\E id \in Ids : ListInfo(g, id)) \/ Listed(g) \/ Save(g)

Cleaning ==
    \/ CleanupList
    \/ (\E id \in Ids : ListInfo(Main, id)) \/ Listed(Main)
    \/ \E id \in Ids : CleanupTerminated(id)
    \/ CleanupAwaited
    \/ Save(Main)
    \/ Stop

Next ==
    \/ \E id \in Ids : End(id) \/ RecordExit(id) \/ CloserLocks(id) \/ CloserEnds(id)
    \/ \E g \in Callers : Call(g) \/ Working(g)
    \/ Cleanup \/ Cleaning

Spec == Init /\ [][Next]_vars

\* Somebody is terminating the session.
Wanted(id) ==
    \/ \E g \in Callers : pc[g] = "terminate" /\ arg[g] = id
    \/ pc[Main] = "cleanup" /\ id \in todo

\* Goroutines that can run do run; one that competes for the mutex gets it,
\* since an unlocking writer admits the waiting readers first and writers
\* queue on the inner mutex; a session that is being terminated ends
\* (Session!TerminateReturns) and its end is recorded (Session!EndIsRecorded).
\* The host does not owe the end of an SFTP channel (CloserEnds).
Fairness ==
    /\ \A g \in Callers : SF_vars(Working(g))
    /\ SF_vars(Cleaning)
    /\ \A id \in Ids :
          /\ WF_vars(Wanted(id) /\ End(id))
          /\ WF_vars(RecordExit(id))

FairSpec == Spec /\ Fairness

--------------------------------------------------------------------------------
(* Properties. *)

Lists == UNION {[ids -> {"running", "exited"}] : ids \in SUBSET Ids}

\* Types of all variables; CleanupAll waits for every session it terminates.
TypeOK ==
    /\ sessions \subseteq Ids
    /\ status \in [Ids -> {"none", "running", "ending", "exited"}]
    /\ closer \in [Ids -> {"due", "closing", "done"}]
    /\ writer \in Callers \cup {Nobody} /\ readers \subseteq Goroutines
    /\ pc \in [Goroutines -> {"idle", "register", "terminate", "delete", "snapshot",
                              "save", "relock", "list", "cleanup", "stop", "gone"}]
    /\ arg \in [Callers -> Ids]
    /\ snap \in [Goroutines -> Lists] /\ file \in Lists
    /\ todo \subseteq mine /\ mine \subseteq Ids
    /\ terminated \subseteq Ids /\ refused \subseteq terminated

\* A writer is inside or asking only while its call needs the lock: every
\* return of Create and Delete has unlocked (manager.go:39-41, 79-90).
LockIsReleased ==
    writer # Nobody /\ ~Gone => pc[writer] \in {"register", "delete"}

\* A session leaves the registry only when its exit was recorded, whatever
\* happens between a caller's look at it and the deletion (manager.go:85).
OnlyExitedLeave == [][\A id \in sessions \ sessions' : status[id] = "exited"]_vars

\* A list that says a session exited is right: neither a list in memory nor
\* the file runs ahead of the session (manager.go:60, 134).
FileNeverAhead ==
    \A list \in {file} \cup {snap[g] : g \in Goroutines} :
        \A id \in DOMAIN list : list[id] = "exited" => status[id] = "exited"

\* The hosts end the SFTP channels that are being closed.
ClosersEnd == \A id \in Ids : closer[id] = "closing" ~> closer[id] = "done"

\* Until the shutdown begins every call ends, if the SFTP channels being closed
\* come to an end: waiting for the closer of a session under the lock of the
\* registry delays the calls about all sessions, but nothing that the closer
\* needs is held meanwhile (manager.go:33-93, session.go:153-165).
CallsEnd ==
    ClosersEnd => \A g \in Callers : pc[g] # "idle" ~> pc[g] = "idle" \/ pc[Main] # "idle"

\* README.md:109: sessions.json holds the session list; so when no call is
\* in progress it lists exactly the registered sessions.
FileIsSessionList ==
    (\A g \in Goroutines : pc[g] = "idle") => DOMAIN file = sessions

(* What documents and comments say, and the code does not do. *)

\* manager.go:95, 102: CleanupAll terminates the sessions and comes to its
\* end, the lock not being acquired again.
CleanupEnds == ClosersEnd => (pc[Main] = "relock" ~> Gone)

\* CHANGELOG.md:85: CleanupAll waits for all sessions to reach exited status
\* before persisting; so if they all did, it saves no running session.
CleanupSavesExited ==
    pc[Main] = "save" /\ (\A id \in mine : status[id] = "exited")
        => \A id \in DOMAIN snap[Main] : snap[Main][id] = "exited"

\* manager.go:95: CleanupAll terminates all running sessions.
NothingSurvivesCleanup ==
    Gone => \A id \in sessions : status[id] # "running"

\* manager.go:12: the Manager is thread-safe; so its calls end whatever becomes
\* of one session.  The closer of a session whose host serves a request that
\* never ends holds Session.mu for ever; the next ListAll waits for it with the
\* lock of the registry held, and the next Create or Delete waits for that.
NoCallIsStuck == \A g \in Callers : pc[g] # "idle" ~> pc[g] = "idle" \/ pc[Main] # "idle"

\* README.md:186-187, manager.go:87: a session that was terminated can be deleted.
TerminatedCanBeDeleted == refused = {}
================================================================================
