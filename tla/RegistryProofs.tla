---------------------------- MODULE RegistryProofs ----------------------------
(***************************************************************************)
(* Proofs about Registry, for every number of callers and sessions, with   *)
(* and without a shutdown.                                                 *)
(***************************************************************************)
EXTENDS Registry, TLAPS

Statuses == {"none", "running", "ending", "exited"}
Locations == {"idle", "register", "terminate", "delete", "snapshot", "save", "relock",
              "list", "cleanup", "stop", "gone"}

--------------------------------------------------------------------------------
(* Types. *)

\* A list with the status of one more session is a list.
LEMMA LongerList ==
    ASSUME NEW list \in Lists, NEW id \in Ids
    PROVE  With(list, id) \in Lists
<1>1. PICK ids \in SUBSET Ids : list \in [ids -> {"running", "exited"}]
  BY DEF Lists
<1>2. Info(id) \in {"running", "exited"}
  BY DEF Info
<1>3. With(list, id) \in [{id} \cup ids -> {"running", "exited"}] /\ {id} \cup ids \in SUBSET Ids
  BY <1>1, <1>2 DEF With
<1> QED
  BY <1>3 DEF Lists

\* No session is listed in the empty list.
LEMMA NoSessionsType == NoSessions \in Lists /\ DOMAIN NoSessions = {}
<1>1. NoSessions \in [{} -> {"running", "exited"}] /\ {} \in SUBSET Ids
  BY DEF NoSessions
<1> QED
  BY <1>1 DEF Lists

\* Every step keeps the types.
LEMMA TypeStep == TypeOK /\ [Next]_vars => TypeOK'
<1> SUFFICES ASSUME TypeOK, [Next]_vars PROVE TypeOK'
  OBVIOUS
<1> USE DEF lockVars, fileVars, cleanupVars, historyVars
<1>g. /\ pc \in [Goroutines -> Locations] /\ \A g \in Callers : g \in Goroutines
      /\ Main \in Goroutines /\ Main \notin Callers
  BY NamesAssumption DEF TypeOK, Goroutines, Locations
<1>1. ASSUME NEW id \in Ids, End(id) PROVE TypeOK'
  BY <1>1 DEF TypeOK, End
<1>2. ASSUME NEW id \in Ids, RecordExit(id) PROVE TypeOK'
  BY <1>2 DEF TypeOK, RecordExit
<1>3. ASSUME NEW g \in Callers, Create(g) PROVE TypeOK'
  BY <1>3, <1>g DEF TypeOK, Create, Goto, Locations
<1>4. ASSUME NEW g \in Callers, NEW id \in Ids, Terminate(g, id) PROVE TypeOK'
  BY <1>4, <1>g DEF TypeOK, Terminate, Goto, Locations
<1>5. ASSUME NEW g \in Callers, NEW id \in Ids, Delete(g, id) PROVE TypeOK'
  BY <1>5, <1>g DEF TypeOK, Delete, Goto, Locations
<1>6. ASSUME NEW g \in Callers, AskToWrite(g) PROVE TypeOK'
  BY <1>6 DEF TypeOK, AskToWrite
<1>7. ASSUME NEW g \in Callers, Register(g) PROVE TypeOK'
  BY <1>7, <1>g DEF TypeOK, Register, Goto, Locations
<1>8. ASSUME NEW g \in Callers, DeleteLocked(g) PROVE TypeOK'
  <2>1. sessions' \subseteq Ids /\ refused' \subseteq terminated
    BY <1>8 DEF TypeOK, DeleteLocked
  <2>2. writer' = Nobody /\ pc' \in [Goroutines -> Locations]
    BY <1>8, <1>g DEF DeleteLocked, AfterRefusal, Goto, Locations
  <2> QED
    BY <1>8, <2>1, <2>2 DEF TypeOK, DeleteLocked, Locations
<1>9. ASSUME NEW g \in Callers, Terminated(g) PROVE TypeOK'
  BY <1>9, <1>g DEF TypeOK, Terminated, Goto, Locations
<1>10. ASSUME NEW g \in Goroutines, Snapshot(g) \/ Listed(g) PROVE TypeOK'
  <2>1. pc' \in [Goroutines -> Locations] /\ readers' \subseteq Goroutines
    BY <1>10, <1>g DEF TypeOK, Snapshot, Listed, DoneReading, Goto, Locations
  <2> QED
    BY <1>10, <2>1 DEF TypeOK, Snapshot, Listed, Locations
<1>11. ASSUME NEW g \in Goroutines, Save(g) PROVE TypeOK'
  BY <1>11, <1>g, NoSessionsType DEF TypeOK, Save, Goto, Locations
<1>12. CASE Cleanup
  BY <1>12, <1>g DEF TypeOK, Cleanup, Awaits, Goto, Locations
<1>13. CASE CleanupList
  BY <1>13, <1>g DEF TypeOK, CleanupList, Goto, Locations
<1>14. ASSUME NEW id \in Ids, CleanupTerminated(id) PROVE TypeOK'
  BY <1>14 DEF TypeOK, CleanupTerminated
<1>15. CASE CleanupAwaited
  BY <1>15, <1>g DEF TypeOK, CleanupAwaited, Goto, Locations
<1>16. CASE Stop
  BY <1>16, <1>g DEF TypeOK, Stop, Locations
<1>17. CASE UNCHANGED vars
  BY <1>17 DEF TypeOK, vars
<1>18. ASSUME NEW id \in Ids, CloserLocks(id) \/ CloserEnds(id) PROVE TypeOK'
  BY <1>18 DEF TypeOK, CloserLocks, CloserEnds
<1>19. ASSUME NEW g \in Goroutines, NEW id \in Ids, ListInfo(g, id) PROVE TypeOK'
  <2>1. snap' \in [Goroutines -> Lists]
    BY <1>19, LongerList DEF TypeOK, ListInfo
  <2> QED
    BY <1>19, <2>1 DEF TypeOK, ListInfo
<1> QED
  BY <1>1, <1>2, <1>3, <1>4, <1>5, <1>6, <1>7, <1>8, <1>9, <1>10, <1>11, <1>12, <1>13,
     <1>14, <1>15, <1>16, <1>17, <1>18, <1>19, <1>g
  DEF Next, Call, Working, Cleaning

\* Types of all variables; CleanupAll waits for every session it terminates, and a
\* refused Delete counts only if the session was terminated before
\* (manager.go:82-90, 95-123).
THEOREM TypeCorrect == Spec => []TypeOK
<1>1. ASSUME Init PROVE TypeOK
  <2>1. AnId \in Ids
    BY IdsAssumption DEF AnId
  <2> QED
    BY <1>1, <2>1, NoSessionsType DEF Init, TypeOK
<1>2. TypeOK /\ [Next]_vars => TypeOK'
  BY TypeStep
<1> QED
  BY <1>1, <1>2, PTL DEF Spec

--------------------------------------------------------------------------------
(* The lock. *)

\* Every step keeps the writer inside its call.
LEMMA LockStep == TypeOK /\ LockIsReleased /\ [Next]_vars => LockIsReleased'
<1> SUFFICES ASSUME TypeOK, LockIsReleased, [Next]_vars, writer' # Nobody, ~Gone'
             PROVE  pc'[writer'] \in {"register", "delete"}
  BY DEF LockIsReleased
<1> USE DEF lockVars, fileVars, cleanupVars, historyVars
<1>g. /\ pc \in [Goroutines -> Locations] /\ \A g \in Callers : g \in Goroutines
      /\ Main \in Goroutines /\ Main \notin Callers /\ writer \in Callers \cup {Nobody}
  BY NamesAssumption DEF TypeOK, Goroutines, Locations
\* A writer that is outside these steps stays where it is.
<1>o. ASSUME NEW g \in Goroutines, NEW l, Goto(g, l), pc[g] \notin {"register", "delete"},
             writer' = writer, ~Gone
      PROVE  pc'[writer'] \in {"register", "delete"}
  BY <1>o, <1>g DEF LockIsReleased, Goto
<1>1. ASSUME pc' = pc, writer' = writer PROVE pc'[writer'] \in {"register", "delete"}
  BY <1>1 DEF LockIsReleased, Gone
<1>n. ASSUME NEW g \in Goroutines, NEW l, Goto(g, l), l # "gone", pc[g] # "gone"
      PROVE  ~Gone
  BY <1>n, <1>g DEF Gone, Goto
<1>2. ASSUME NEW g \in Callers, Create(g) PROVE pc'[writer'] \in {"register", "delete"}
  BY <1>2, <1>g, <1>n, <1>o DEF Create
<1>3. ASSUME NEW g \in Callers, NEW id \in Ids, Terminate(g, id) \/ Delete(g, id)
      PROVE  pc'[writer'] \in {"register", "delete"}
  BY <1>3, <1>g, <1>n, <1>o DEF Terminate, Delete
<1>4. ASSUME NEW g \in Callers, AskToWrite(g) PROVE pc'[writer'] \in {"register", "delete"}
  BY <1>4 DEF AskToWrite
<1>5. ASSUME NEW g \in Callers, Register(g) \/ DeleteLocked(g) PROVE FALSE
  BY <1>5 DEF Register, DeleteLocked, AfterRefusal
<1>6. ASSUME NEW g \in Goroutines, Snapshot(g) \/ Listed(g)
      PROVE  pc'[writer'] \in {"register", "delete"}
  BY <1>6, <1>g, <1>n, <1>o DEF Snapshot, Listed
<1>10. ASSUME NEW g \in Callers, Terminated(g)
      PROVE  pc'[writer'] \in {"register", "delete"}
  BY <1>10, <1>g, <1>n, <1>o DEF Terminated
<1>7. ASSUME NEW g \in Goroutines, Save(g) PROVE pc'[writer'] \in {"register", "delete"}
  BY <1>7, <1>g, <1>n, <1>o DEF Save
<1>8. ASSUME Cleanup \/ CleanupList \/ CleanupAwaited
      PROVE  pc'[writer'] \in {"register", "delete"}
  BY <1>8, <1>g, <1>n, <1>o DEF Cleanup, CleanupList, CleanupAwaited
<1>9. ASSUME Stop PROVE FALSE
  BY <1>9, <1>g DEF Stop, Gone
<1> QED
  BY <1>1, <1>2, <1>3, <1>4, <1>5, <1>6, <1>7, <1>8, <1>9, <1>10, <1>g
  DEF Next, Call, Working, Cleaning, End, RecordExit, CloserLocks, CloserEnds, ListInfo,
      CleanupTerminated, vars

\* A writer asks for or holds the lock only while its call needs it: all returns of
\* Create and Delete have unlocked, and nobody else can take a lock away
\* (manager.go:39-41, 79-90).
THEOREM LockIsAlwaysReleased == Spec => []LockIsReleased
<1>1. Init => LockIsReleased
  BY DEF Init, LockIsReleased
<1>2. TypeOK /\ LockIsReleased /\ [Next]_vars => LockIsReleased'
  BY LockStep
<1> QED
  BY <1>1, <1>2, TypeCorrect, PTL DEF Spec

--------------------------------------------------------------------------------
(* Lists and the file. *)

\* A list that is not ahead of the sessions.
Behind(list) == \A id \in DOMAIN list : list[id] = "exited" => status[id] = "exited"

\* An exit is never undone, so a list that was behind stays behind.
LEMMA ExitIsFinal ==
    ASSUME TypeOK, [Next]_vars, NEW id \in Ids, status[id] = "exited"
    PROVE  status'[id] = "exited"
<1>1. \/ status' = status
      \/ \E other \in Ids, st \in Statuses :
            status[other] # "exited" /\ status' = [status EXCEPT ![other] = st]
  BY DEF Next, Call, Working, Cleaning, End, RecordExit, CloserLocks, CloserEnds, Create,
         Terminate, Delete, AskToWrite, Register, DeleteLocked, Terminated, Snapshot,
         ListInfo, Listed, Save, Cleanup, CleanupList, CleanupTerminated, CleanupAwaited,
         Stop, vars, Statuses
<1>2. status \in [Ids -> Statuses]
  BY DEF TypeOK, Statuses
<1> QED
  BY <1>1, <1>2

\* A step keeps every list, adds what Info says of a session to one, writes one to the
\* file or drops one.
LEMMA ListsStep ==
    ASSUME TypeOK, [Next]_vars
    PROVE  /\ file' \in {file} \cup {snap[g] : g \in Goroutines}
           /\ \A g \in Goroutines :
                 \/ snap'[g] \in {snap[g], NoSessions}
                 \/ \E id \in Ids : snap'[g] = With(snap[g], id)
<1> USE DEF fileVars
<1>1. /\ \A g \in Callers : g \in Goroutines
      /\ Main \in Goroutines /\ snap \in [Goroutines -> Lists]
  BY DEF Goroutines, TypeOK
<1>2. CASE \E g \in Goroutines, id \in Ids : ListInfo(g, id)
  BY <1>1, <1>2 DEF ListInfo
<1>3. CASE \E g \in Goroutines : Save(g)
  BY <1>1, <1>3 DEF Save
<1>4. CASE UNCHANGED <<snap, file>>
  BY <1>1, <1>4
<1>5. \/ \E g \in Goroutines, id \in Ids : ListInfo(g, id)
      \/ \E g \in Goroutines : Save(g)
      \/ UNCHANGED <<snap, file>>
  BY <1>1
  DEF Next, Call, Working, Cleaning, End, RecordExit, CloserLocks, CloserEnds, Create,
      Terminate, Delete, AskToWrite, Register, DeleteLocked, Terminated, Snapshot,
      Listed, Cleanup, CleanupList, CleanupTerminated, CleanupAwaited, Stop, vars
<1> QED
  BY <1>2, <1>3, <1>4, <1>5

\* Neither a list in memory nor the file says of a session that it exited before it
\* did, although lists are taken, kept and written without a common lock
\* (manager.go:60, 134).
THEOREM FileIsNeverAhead == Spec => []FileNeverAhead
<1>1. Init => FileNeverAhead
  BY NoSessionsType DEF Init, FileNeverAhead
<1>2. ASSUME TypeOK, FileNeverAhead, [Next]_vars PROVE FileNeverAhead'
  <2>1. ASSUME NEW list \in Lists, Behind(list) PROVE Behind(list)'
    BY <1>2, <2>1, ExitIsFinal DEF Behind, Lists
  <2>2. ASSUME NEW list \in Lists, Behind(list), NEW id \in Ids
        PROVE  With(list, id) \in Lists /\ Behind(With(list, id))
    <3>1. Info(id) = "exited" => status[id] = "exited"
      BY DEF Info
    <3> QED
      BY <2>2, <3>1, LongerList DEF Behind, With
  <2>3. Behind(NoSessions)
    BY NoSessionsType DEF Behind
  <2>4. \A list \in {file} \cup {snap[g] : g \in Goroutines} : list \in Lists /\ Behind(list)
    BY <1>2 DEF FileNeverAhead, Behind, TypeOK
  <2>5. ASSUME NEW list \in {file'} \cup {snap'[g] : g \in Goroutines}
        PROVE  list \in Lists /\ Behind(list)
    <3>1. CASE list \in {file} \cup {snap[g] : g \in Goroutines} \/ list = NoSessions
      BY <2>3, <2>4, <3>1, NoSessionsType
    <3>2. CASE \E g \in Goroutines, id \in Ids : list = With(snap[g], id)
      BY <2>2, <2>4, <3>2
    <3> QED
      BY <1>2, <3>1, <3>2, ListsStep
  <2>6. \A list \in {file'} \cup {snap'[g] : g \in Goroutines} : Behind(list)'
    BY <2>1, <2>5
  <2> QED
    BY <2>6 DEF FileNeverAhead, Behind
<1> QED
  BY <1>1, <1>2, TypeCorrect, PTL DEF Spec

\* A session leaves the registry only when its exit was recorded, whatever happens
\* between a caller's look at it and the deletion (manager.go:85).
THEOREM OnlyExitedSessionsLeave == Spec => OnlyExitedLeave
<1>1. ASSUME [Next]_vars, NEW id \in sessions \ sessions' PROVE status[id] = "exited"
  <2>1. PICK g \in Callers : DeleteLocked(g) /\ MayBeDeleted(arg[g]) /\ id = arg[g]
    BY <1>1
    DEF Next, Call, Working, Cleaning, End, RecordExit, CloserLocks, CloserEnds, Create,
        Terminate, Delete, AskToWrite, Register, DeleteLocked, Terminated, Snapshot,
        ListInfo, Listed, Save, Cleanup, CleanupList, CleanupTerminated, CleanupAwaited,
         Stop, vars
  <2> QED
    BY <2>1 DEF MayBeDeleted, Info
<1>2. [Next]_vars => [\A id \in sessions \ sessions' : status[id] = "exited"]_vars
  BY <1>1
<1> QED
  BY <1>2, PTL DEF Spec, OnlyExitedLeave
================================================================================
