---------------------------- MODULE SessionProofs ----------------------------
(***************************************************************************)
(* Proofs about Session, for both modes and every number of Terminate      *)
(* calls, chunks and inputs.                                               *)
(***************************************************************************)
EXTENDS Session, SequenceTheorems, FiniteSetTheorems, TLAPS

Places == {"idle", "once", "signal", "grace", "close", "await2s", "await", "record",
           "status", "closeBuf", "append", "closer", "closing", "leave", "returned", "ended"}
Kinds == {"started", "exited", "terminated", "input"}

\* Who is inside exitOnce.Do.
Recording == {"status", "closeBuf", "append"}

\* The two Onces: exitOnce names the one recorder inside its body, terminateOnce the
\* one killer between its Do and its return; a signal request has gone out only if
\* that killer, or a killer before, has sent it.
OnceInv ==
    /\ \A p \in Recorders : exitOnce = p <=> pc[p] \in Recording
    /\ \A k \in Killers : termOnce = k <=> pc[k] \notin {"idle", "once", "returned"}
    /\ pc[ExitG] \notin {"idle", "once", "signal", "leave", "returned"}
    /\ termOnce = "free" => sigs = 0
    /\ \A k \in Killers : pc[k] = "signal" => sigs = 0

\* The facts used of the steps of exitOnce.Do, for both that run it.
LEMMA RecorderSets ==
    /\ ExitG \in Recorders /\ ExitG \notin Killers
    /\ \A k \in Killers : k \in Recorders /\ k # ExitG
    /\ \A p \in Recorders : p = ExitG \/ p \in Killers
    /\ \A p \in Recorders : p # "free" /\ p # "done"
BY ExitGAssumption, OnceAssumption DEF Recorders

--------------------------------------------------------------------------------
(* The two Onces. *)

\* Every step keeps the Onces with who is inside them.
LEMMA OnceStep == TypeOK /\ OnceInv /\ [Next]_vars => OnceInv'
<1> SUFFICES ASSUME TypeOK, OnceInv, [Next]_vars PROVE OnceInv'
  OBVIOUS
<1>r. pc \in [Recorders -> Places] /\ sigs \in 0..1
  BY DEF TypeOK, Places
<1>0. ASSUME UNCHANGED <<onceVars, sigs>> PROVE OnceInv'
  BY <1>0 DEF OnceInv, onceVars
<1>1. ASSUME ForwardSignal PROVE OnceInv'
  <2>1. UNCHANGED onceVars /\ sigs' = sigs - 1 /\ sigs > 0
    BY <1>1 DEF ForwardSignal, clientVars
  <2> QED
    BY <2>1 DEF OnceInv, onceVars
<1>2. ASSUME NEW p \in Recorders, EnterExitOnce(p) PROVE OnceInv'
  <2>1. UNCHANGED <<sigs, termOnce>>
    BY <1>2 DEF EnterExitOnce, envVars, hostVars
  <2> QED
    BY <1>2, <1>r, <2>1, RecorderSets
    DEF EnterExitOnce, Enters, Passes, AfterOnce, Goto, OnceInv, Recording
<1>3. ASSUME NEW p \in Recorders, RecordStatus(p) PROVE OnceInv'
  <2>1. UNCHANGED <<sigs, termOnce, exitOnce>>
    BY <1>3 DEF RecordStatus, envVars, hostVars
  <2> QED
    BY <1>3, <1>r, <2>1, RecorderSets DEF RecordStatus, Goto, OnceInv, Recording
<1>4. ASSUME NEW p \in Recorders, CloseBuffer(p) PROVE OnceInv'
  <2>1. UNCHANGED <<sigs, termOnce, exitOnce>>
    BY <1>4 DEF CloseBuffer, envVars, hostVars
  <2> QED
    BY <1>4, <1>r, <2>1, RecorderSets DEF CloseBuffer, Goto, OnceInv, Recording
<1>5. ASSUME NEW p \in Recorders, AppendExit(p) PROVE OnceInv'
  <2>1. UNCHANGED <<sigs, termOnce>>
    BY <1>5 DEF AppendExit, envVars, hostVars
  <2> QED
    BY <1>5, <1>r, <2>1, RecorderSets DEF AppendExit, AfterOnce, Goto, OnceInv, Recording
<1>6. ASSUME ExitNoticed \/ SFTPCloser \/ SFTPEnds PROVE OnceInv'
  <2>1. UNCHANGED <<sigs, termOnce, exitOnce>>
    BY <1>6 DEF ExitNoticed, SFTPCloser, SFTPEnds, envVars, hostVars
  <2> QED
    BY <1>6, <1>r, <2>1, RecorderSets
    DEF ExitNoticed, SFTPCloser, SFTPEnds, AfterDone, Goto, OnceInv, Recording
<1>7. ASSUME NEW k \in Killers, Terminate(k) PROVE OnceInv'
  <2>1. UNCHANGED <<sigs, termOnce, exitOnce>>
    BY <1>7 DEF Terminate, envVars, hostVars
  <2> QED
    BY <1>7, <1>r, <2>1, RecorderSets DEF Terminate, Goto, OnceInv, Recording
<1>8. ASSUME NEW k \in Killers, EnterTermOnce(k) PROVE OnceInv'
  <2>1. UNCHANGED <<sigs, exitOnce>>
    BY <1>8 DEF EnterTermOnce, envVars, hostVars
  <2> QED
    BY <1>8, <1>r, <2>1, RecorderSets
    DEF EnterTermOnce, Enters, Passes, Goto, OnceInv, Recording
<1>9. ASSUME NEW k \in Killers, SendSignal(k) PROVE OnceInv'
  <2>1. UNCHANGED <<termOnce, exitOnce>>
    BY <1>9 DEF SendSignal
  <2> QED
    BY <1>9, <1>r, <2>1, RecorderSets DEF SendSignal, Goto, OnceInv, Recording
<1>10. ASSUME NEW k \in Killers, Grace(k) \/ CloseConnection(k) \/ Await2s(k) PROVE OnceInv'
  <2>1. UNCHANGED <<sigs, termOnce, exitOnce>>
    BY <1>10 DEF Grace, CloseConnection, Await2s, envVars, hostVars
  <2>2. PICK l \in {"leave", "close", "await2s", "record"} :
            pc' = [pc EXCEPT ![k] = l] /\ pc[k] \in {"grace", "close", "await2s"}
    BY <1>10 DEF Grace, CloseConnection, Await2s, Goto
  <2> QED
    BY <1>r, <2>1, <2>2, RecorderSets DEF OnceInv, Recording
<1>11. ASSUME NEW k \in Killers, LeaveTermOnce(k) PROVE OnceInv'
  <2>1. UNCHANGED <<sigs, exitOnce>>
    BY <1>11 DEF LeaveTermOnce, envVars, hostVars
  <2> QED
    BY <1>11, <1>r, <2>1, RecorderSets DEF LeaveTermOnce, Goto, OnceInv, Recording
<1>12. ASSUME \/ StartProcess \/ StartFails \/ StdinEOF \/ HandlerReturns \/ Process
              \/ WaitReturns \/ \E s \in Streams : Pipe(s)
              \/ DialSFTP \/ Announce \/ SendCheck \/ SendWrite \/ UNCHANGED vars
       PROVE  UNCHANGED <<onceVars, sigs>>
  BY <1>12
  DEF StartProcess, StartFails, StdinEOF, HandlerReturns, Process, Exit, Emit, WaitReturns,
      Pipe, PipeRead, PipeWrite, PipePoll, DialSFTP, Announce, SendCheck, SendWrite, vars,
      clientVars, envVars, hostVars
<1> QED
  BY <1>0, <1>1, <1>2, <1>3, <1>4, <1>5, <1>6, <1>7, <1>8, <1>9, <1>10, <1>11, <1>12,
     RecorderSets
  DEF Next, Host, ExitGoroutine, Record, Killing

--------------------------------------------------------------------------------
(* Types. *)

\* Counters of the streams.
Counters == [Streams -> Nat]
PipePlaces == {"read", "write", "poll", "ended"}

\* Every step keeps the types.
LEMMA TypeStep == TypeOK /\ OnceInv /\ [Next]_vars => TypeOK'
<1> SUFFICES ASSUME TypeOK, OnceInv, [Next]_vars PROVE TypeOK'
  OBVIOUS
<1> USE DEF hostVars, connVars, execVars, pipeVars, recordVars, onceVars, agentVars,
            envVars, clientVars
\* Steps of one part leave the types of the others.
<1>h. ASSUME UNCHANGED clientVars, UNCHANGED <<mode, conn>>,
             proc' \in {"starting", "running", "dead"}, sigs' \in 0..1,
             stdinCopy' \in BOOLEAN, handler' \in {"serving", "returned"},
             exitMsg' \in BOOLEAN, sent' \in Counters, avail' \in Counters
      PROVE  TypeOK'
  BY <1>h DEF TypeOK, Counters
<1>o. ASSUME UNCHANGED <<envVars, bufClosed, done, agentVars>>,
             status' \in {"running", "exited"}, code' \in {"none", "zero", "real", "minus1"},
             exitOnce' \in Recorders \cup {"free", "done"},
             termOnce' \in Killers \cup {"free", "done"},
             pc' \in [Recorders -> Places], force' \in [Killers -> BOOLEAN]
      PROVE  TypeOK'
  BY <1>o DEF TypeOK, Places
<1>p. /\ pc \in [Recorders -> Places] /\ sigs \in 0..1
      /\ sent \in Counters /\ avail \in Counters
      /\ taken \in Counters /\ accepted \in Counters /\ pipe \in [Streams -> PipePlaces]
      /\ msgs \in Seq(Kinds) /\ stdinCopy \in BOOLEAN
  BY DEF TypeOK, Places, Counters, PipePlaces, Kinds
<1>w. ASSUME NEW s \in Streams, Written(s) PROVE sent' \in Counters /\ avail' \in Counters
  BY <1>w, <1>p DEF Written, Counters
<1>1. ASSUME StartProcess \/ Exit \/ StdinEOF PROVE TypeOK'
  BY <1>1, <1>h, <1>p DEF StartProcess, Exit, StdinEOF, TypeOK
<1>2. ASSUME StartFails PROVE TypeOK'
  BY <1>2, <1>h, <1>p, <1>w DEF StartFails, TypeOK, Streams
<1>3. ASSUME NEW s \in Streams, Emit(s) PROVE TypeOK'
  BY <1>3, <1>h, <1>p, <1>w DEF Emit, TypeOK
<1>4. ASSUME ForwardSignal PROVE TypeOK'
  BY <1>4, <1>h, <1>p DEF ForwardSignal, TypeOK
<1>5. ASSUME HandlerReturns PROVE TypeOK'
  BY <1>5, <1>h, <1>p DEF HandlerReturns, TypeOK
<1>6. ASSUME WaitReturns PROVE TypeOK'
  BY <1>6 DEF WaitReturns, TypeOK
<1>7. ASSUME NEW s \in Streams, PipeRead(s) PROVE TypeOK'
  <2>1. taken' \in Counters
    BY <1>7, <1>p DEF PipeRead, Counters
  <2>2. pipe' \in [Streams -> PipePlaces]
    BY <1>7, <1>p DEF PipeRead, PipePlaces
  <2> QED
    BY <1>7, <2>1, <2>2 DEF PipeRead, TypeOK, Counters, PipePlaces
<1>8. ASSUME NEW s \in Streams, PipeWrite(s) \/ PipePoll(s) PROVE TypeOK'
  <2>1. accepted' \in Counters
    <3>1. accepted' = accepted \/ accepted' = [accepted EXCEPT ![s] = @ + 1]
      BY <1>8 DEF PipeWrite, PipePoll
    <3> QED
      BY <1>p, <3>1 DEF Counters
  <2>2. pipe' \in [Streams -> PipePlaces]
    BY <1>8, <1>p DEF PipeWrite, PipePoll, PipePlaces
  <2> QED
    BY <1>8, <2>1, <2>2 DEF PipeWrite, PipePoll, TypeOK, Counters, PipePlaces
<1>c. ASSUME CloseExec PROVE conn' = "closed" /\ avail' \in Counters /\ UNCHANGED <<exitMsg, sent>>
  BY <1>c, BoundsAssumption DEF CloseExec, Counters
<1>9. ASSUME DialSFTP PROVE TypeOK'
  BY <1>9, <1>c DEF DialSFTP, TypeOK, Counters
<1>10. ASSUME Announce PROVE TypeOK'
  <2>1. msgs' \in Seq(Kinds)
    BY <1>10, AppendProperties DEF Announce, TypeOK, Kinds
  <2> QED
    BY <1>10, <2>1 DEF Announce, TypeOK, Kinds
<1>11. ASSUME SendCheck PROVE TypeOK'
  BY <1>11 DEF SendCheck, TypeOK
<1>12. ASSUME SendWrite PROVE TypeOK'
  <2>1. msgs' \in Seq(Kinds) /\ stdinCopy' \in BOOLEAN
    <3>1. Append(msgs, "input") \in Seq(Kinds)
      BY <1>p, AppendProperties DEF Kinds
    <3> QED
      BY <1>12, <1>p, <3>1 DEF SendWrite
  <2> QED
    BY <1>12, <2>1 DEF SendWrite, TypeOK, Kinds
<1>13. ASSUME NEW p \in Recorders, EnterExitOnce(p) \/ RecordStatus(p) PROVE TypeOK'
  BY <1>13, <1>o, <1>p
  DEF EnterExitOnce, RecordStatus, AfterOnce, Goto, TypeOK, Places
<1>14. ASSUME NEW p \in Recorders, CloseBuffer(p) PROVE TypeOK'
  BY <1>14, <1>p DEF CloseBuffer, Goto, TypeOK, Places
<1>15. ASSUME NEW p \in Recorders, AppendExit(p) PROVE TypeOK'
  <2>1. msgs' \in Seq(Kinds)
    BY <1>15, AppendProperties DEF AppendExit, TypeOK, Kinds
  <2>2. pc' \in [Recorders -> Places]
    BY <1>15, <1>p DEF AppendExit, AfterOnce, Goto, Places
  <2> QED
    BY <1>15, <2>1, <2>2 DEF AppendExit, TypeOK, Kinds, Places
<1>16. ASSUME ExitNoticed PROVE TypeOK'
  BY <1>16, <1>p, RecorderSets DEF ExitNoticed, AfterDone, Goto, TypeOK, Places
<1>17. ASSUME SFTPCloser \/ SFTPEnds PROVE TypeOK'
  BY <1>17, <1>p, RecorderSets DEF SFTPCloser, SFTPEnds, Goto, TypeOK, Places
<1>18. ASSUME NEW k \in Killers, Terminate(k) \/ EnterTermOnce(k) PROVE TypeOK'
  BY <1>18, <1>o, <1>p DEF Terminate, EnterTermOnce, Goto, TypeOK, Places
<1>19. ASSUME NEW k \in Killers, SendSignal(k) PROVE TypeOK'
  <2>1. sigs' \in 0..1
    BY <1>19 DEF SendSignal, OnceInv
  <2>2. pc' \in [Recorders -> Places]
    BY <1>19, <1>p DEF SendSignal, Goto, Places
  <2> QED
    BY <1>19, <2>1, <2>2 DEF SendSignal, TypeOK, Places
<1>20. ASSUME NEW k \in Killers, Grace(k) \/ Await2s(k) \/ LeaveTermOnce(k) PROVE TypeOK'
  BY <1>20, <1>o, <1>p DEF Grace, Await2s, LeaveTermOnce, Goto, TypeOK, Places
<1>21. ASSUME NEW k \in Killers, CloseConnection(k) PROVE TypeOK'
  <2>1. pc' \in [Recorders -> Places]
    BY <1>21, <1>p DEF CloseConnection, Goto, Places
  <2> QED
    BY <1>21, <1>c, <2>1 DEF CloseConnection, TypeOK, Places, Counters
<1>22. CASE UNCHANGED vars
  BY <1>22 DEF vars, TypeOK
<1> QED
  BY <1>1, <1>2, <1>3, <1>4, <1>5, <1>6, <1>7, <1>8, <1>9, <1>10, <1>11, <1>12, <1>13,
     <1>14, <1>15, <1>16, <1>17, <1>18, <1>19, <1>20, <1>21, <1>22, RecorderSets
  DEF Next, Host, Process, Pipe, ExitGoroutine, Record, Killing

\* The Onces and the types hold in every reachable state.
LEMMA OnceInvariant == Spec => [](TypeOK /\ OnceInv)
<1>1. ASSUME Init PROVE TypeOK /\ OnceInv
  <2>1. msgs \in Seq(Kinds)
    BY <1>1, EmptySeq DEF Init
  <2>2. TypeOK
    <3>1. /\ pc \in [Recorders -> Places] /\ pipe \in [Streams -> PipePlaces]
          /\ force \in [Killers -> BOOLEAN]
      BY <1>1 DEF Init, Places, PipePlaces
    <3>2. /\ sent \in Counters /\ avail \in Counters
          /\ taken \in Counters /\ accepted \in Counters
      BY <1>1 DEF Init, Counters
    <3>3. /\ mode \in Modes /\ proc = "starting" /\ sigs = 0 /\ stdinCopy = TRUE
          /\ handler = "serving" /\ conn = "up" /\ exitMsg = FALSE /\ execDone = FALSE
          /\ execCode = "zero" /\ bufClosed = FALSE /\ done = FALSE /\ status = "running"
          /\ code = "none" /\ exitOnce = "free" /\ termOnce = "free" /\ creator = "dial"
          /\ sftp = "none" /\ input = "idle" /\ inputs = 0
      BY <1>1 DEF Init
    <3>4. /\ proc \in {"starting", "running", "dead"} /\ sigs \in 0..1
          /\ handler \in {"serving", "returned"} /\ conn \in {"up", "closed"}
          /\ execCode \in {"zero", "real"}
      BY <3>3
    <3>7. /\ stdinCopy \in BOOLEAN /\ exitMsg \in BOOLEAN /\ execDone \in BOOLEAN
      BY <3>3
    <3>5. /\ bufClosed \in BOOLEAN /\ done \in BOOLEAN
          /\ status \in {"running", "exited"} /\ code \in {"none", "zero", "real", "minus1"}
          /\ exitOnce \in Recorders \cup {"free", "done"}
          /\ termOnce \in Killers \cup {"free", "done"}
      BY <3>3
    <3>6. /\ creator \in {"dial", "announce", "failed", "created"}
          /\ sftp \in {"none", "up", "closed"}
          /\ input \in {"idle", "checked"} /\ inputs \in Nat
      BY <3>3
    <3> QED
      BY <2>1, <3>1, <3>2, <3>3, <3>4, <3>5, <3>6, <3>7
      DEF TypeOK, Kinds, Places, PipePlaces, Counters
  <2>3. OnceInv
    BY <1>1, RecorderSets DEF Init, OnceInv, Recording
  <2> QED
    BY <2>2, <2>3
<1>2. TypeOK /\ OnceInv /\ [Next]_vars => (TypeOK /\ OnceInv)'
  BY TypeStep, OnceStep
<1> QED
  BY <1>1, <1>2, PTL DEF Spec

\* Types of all variables; terminateOnce lets one signal request out, however many
\* Terminates there are (session.go:226-233).
THEOREM TypeCorrect == Spec => []TypeOK
BY OnceInvariant, PTL

--------------------------------------------------------------------------------
(* The recording of the end. *)

\* What is recorded follows from where the recorder is.
RecordInv ==
    /\ status = "exited" <=>
           exitOnce = "done" \/ \E p \in Recorders : pc[p] \in {"closeBuf", "append"}
    /\ bufClosed <=> exitOnce = "done" \/ \E p \in Recorders : pc[p] = "append"
    /\ status = "exited" <=> code # "none"

\* Every step keeps it.
LEMMA RecordStep == TypeOK /\ OnceInv /\ RecordInv /\ [Next]_vars => RecordInv'
<1> SUFFICES ASSUME TypeOK, OnceInv, RecordInv, [Next]_vars PROVE RecordInv'
  OBVIOUS
<1>r. pc \in [Recorders -> Places]
  BY DEF TypeOK, Places
\* A recorder that is and stays outside closeBuf and append changes nothing here.
<1>o. ASSUME UNCHANGED <<exitOnce, bufClosed, status, code>>,
             NEW p \in Recorders, NEW l, Goto(p, l),
             pc[p] \notin {"closeBuf", "append"}, l \notin {"closeBuf", "append"}
      PROVE  RecordInv'
  BY <1>o, <1>r DEF RecordInv, Goto
<1>1. ASSUME NEW p \in Recorders, EnterExitOnce(p) PROVE RecordInv'
  <2>1. /\ UNCHANGED <<bufClosed, status, code>> /\ pc[p] = "record"
        /\ exitOnce' = "done" <=> exitOnce = "done"
        /\ Goto(p, "status") \/ Goto(p, AfterOnce(p))
    BY <1>1, RecorderSets DEF EnterExitOnce, Enters, Passes, recordVars
  <2> QED
    BY <1>r, <2>1 DEF RecordInv, Goto, AfterOnce
<1>2. ASSUME NEW p \in Recorders, RecordStatus(p) PROVE RecordInv'
  <2>1. /\ pc' = [pc EXCEPT ![p] = "closeBuf"] /\ pc[p] = "status"
        /\ status' = "exited" /\ code' # "none" /\ UNCHANGED <<exitOnce, bufClosed>>
    BY <1>2 DEF RecordStatus, Goto, TypeOK
  <2>2. exitOnce = p /\ exitOnce # "done"
    BY <2>1, RecorderSets DEF OnceInv, Recording
  <2> QED
    BY <1>r, <2>1, <2>2 DEF RecordInv, OnceInv, Recording
<1>3. ASSUME NEW p \in Recorders, CloseBuffer(p) PROVE RecordInv'
  <2>1. /\ pc' = [pc EXCEPT ![p] = "append"] /\ pc[p] = "closeBuf"
        /\ bufClosed' = TRUE /\ UNCHANGED <<exitOnce, status, code>>
    BY <1>3 DEF CloseBuffer, Goto
  <2> QED
    BY <1>r, <2>1 DEF RecordInv
<1>4. ASSUME NEW p \in Recorders, AppendExit(p) PROVE RecordInv'
  <2>1. /\ pc[p] = "append" /\ exitOnce' = "done" /\ Goto(p, AfterOnce(p))
        /\ UNCHANGED <<bufClosed, status, code>>
    BY <1>4 DEF AppendExit, recordVars
  <2> QED
    BY <1>r, <2>1 DEF RecordInv
<1>5. ASSUME ExitNoticed \/ SFTPCloser \/ SFTPEnds PROVE RecordInv'
  BY <1>5, <1>o, RecorderSets DEF ExitNoticed, SFTPCloser, SFTPEnds, AfterDone, recordVars
<1>6. ASSUME NEW k \in Killers,
             \/ Terminate(k) \/ EnterTermOnce(k) \/ SendSignal(k) \/ Grace(k)
             \/ CloseConnection(k) \/ Await2s(k) \/ LeaveTermOnce(k)
      PROVE  RecordInv'
  BY <1>6, <1>o, RecorderSets
  DEF Terminate, EnterTermOnce, SendSignal, Grace, CloseConnection, Await2s, LeaveTermOnce,
      recordVars
<1>7. ASSUME \/ StartProcess \/ StartFails \/ StdinEOF \/ HandlerReturns \/ ForwardSignal
             \/ Process \/ WaitReturns \/ \E s \in Streams : Pipe(s)
             \/ DialSFTP \/ Announce \/ SendCheck \/ SendWrite \/ UNCHANGED vars
      PROVE  UNCHANGED <<exitOnce, bufClosed, status, code, pc>>
  BY <1>7
  DEF StartProcess, StartFails, StdinEOF, HandlerReturns, ForwardSignal, Process, Exit,
      Emit, WaitReturns, Pipe, PipeRead, PipeWrite, PipePoll, DialSFTP, Announce,
      SendCheck, SendWrite, vars, clientVars, envVars, onceVars, recordVars
<1>8. ASSUME UNCHANGED <<exitOnce, bufClosed, status, code, pc>> PROVE RecordInv'
  BY <1>8 DEF RecordInv
<1> QED
  BY <1>1, <1>2, <1>3, <1>4, <1>5, <1>6, <1>7, <1>8, RecorderSets
  DEF Next, Host, ExitGoroutine, Record, Killing

\* What is recorded follows from where the recorder is, in every reachable state.
LEMMA RecordInvariant == Spec => []RecordInv
<1>1. Init => RecordInv
  BY RecorderSets DEF Init, RecordInv
<1>2. TypeOK /\ OnceInv /\ RecordInv /\ [Next]_vars => RecordInv'
  BY RecordStep
<1> QED
  BY <1>1, <1>2, OnceInvariant, PTL DEF Spec

--------------------------------------------------------------------------------
(* The message about the end. *)

\* Where the messages about the end are in a history.
EndsIn(list) == {i \in 1..Len(list) : list[i] \in {"exited", "terminated"}}

\* A message at the end adds one to them or none.
LEMMA EndsAfterAppend ==
    ASSUME NEW list \in Seq(Kinds), NEW m \in Kinds
    PROVE  Cardinality(EndsIn(Append(list, m))) =
             Cardinality(EndsIn(list)) + IF m \in {"exited", "terminated"} THEN 1 ELSE 0
<1> DEFINE n == Len(list)
           new == Append(list, m)
<1>1. /\ n \in Nat /\ Len(new) = n + 1
      /\ \A i \in 1..n : new[i] = list[i]
      /\ new[n + 1] = m
  BY AppendProperties, LenProperties
<1> HIDE DEF n, new
<1>2. IsFiniteSet(EndsIn(list)) /\ n + 1 \notin EndsIn(list)
  <2>1. EndsIn(list) \subseteq 1..n
    BY DEF EndsIn, n
  <2>2. IsFiniteSet(1..n)
    BY <1>1, FS_Interval
  <2>3. n + 1 \notin 1..n
    BY <1>1
  <2> QED
    BY <2>1, <2>2, <2>3, FS_Subset
<1>3. CASE m \in {"exited", "terminated"}
  <2>1. EndsIn(new) = EndsIn(list) \cup {n + 1}
    BY <1>1, <1>3 DEF EndsIn, n
  <2> QED
    BY <1>2, <1>3, <2>1, FS_AddElement DEF new
<1>4. CASE m \notin {"exited", "terminated"}
  <2>1. EndsIn(new) = EndsIn(list)
    BY <1>1, <1>4 DEF EndsIn, n
  <2>2. Cardinality(EndsIn(list)) \in Nat
    BY <1>2, FS_CardinalityType
  <2> QED
    BY <1>4, <2>1, <2>2 DEF new
<1> QED
  BY <1>3, <1>4

\* There is one message about the end once exitOnce is done, and none before.
MessageInv == Cardinality(EndsIn(msgs)) = IF exitOnce = "done" THEN 1 ELSE 0

\* Every step keeps this.
LEMMA MessageStep == TypeOK /\ OnceInv /\ MessageInv /\ [Next]_vars => MessageInv'
<1> SUFFICES ASSUME TypeOK, OnceInv, MessageInv, [Next]_vars PROVE MessageInv'
  OBVIOUS
<1>m. msgs \in Seq(Kinds)
  BY DEF TypeOK, Kinds
<1>1. ASSUME UNCHANGED msgs, exitOnce' = "done" <=> exitOnce = "done" PROVE MessageInv'
  BY <1>1 DEF MessageInv
<1>2. ASSUME NEW m \in {"started", "input"}, msgs' = Append(msgs, m), UNCHANGED exitOnce
      PROVE  MessageInv'
  <2>1. Cardinality(EndsIn(msgs')) = Cardinality(EndsIn(msgs)) + 0
    BY <1>2, <1>m, EndsAfterAppend DEF Kinds
  <2> QED
    BY <1>2, <2>1 DEF MessageInv
<1>3. ASSUME NEW p \in Recorders, AppendExit(p) PROVE MessageInv'
  <2>1. PICK m \in {"exited", "terminated"} : msgs' = Append(msgs, m)
    BY <1>3 DEF AppendExit
  <2>2. Cardinality(EndsIn(msgs')) = Cardinality(EndsIn(msgs)) + 1
    BY <1>m, <2>1, EndsAfterAppend DEF Kinds
  <2>3. exitOnce = p /\ exitOnce # "done" /\ exitOnce' = "done"
    BY <1>3, RecorderSets DEF AppendExit, OnceInv, Recording
  <2> QED
    BY <2>2, <2>3 DEF MessageInv
<1>4. ASSUME NEW p \in Recorders, EnterExitOnce(p)
      PROVE  UNCHANGED msgs /\ (exitOnce' = "done" <=> exitOnce = "done")
  BY <1>4, RecorderSets DEF EnterExitOnce, Enters, Passes, agentVars
<1>5. CASE Announce
  BY <1>2, <1>5 DEF Announce, onceVars
<1>6. CASE SendWrite
  BY <1>1, <1>2, <1>6 DEF SendWrite, onceVars
<1>7. ASSUME \/ StartProcess \/ StartFails \/ StdinEOF \/ HandlerReturns \/ ForwardSignal
             \/ Process \/ WaitReturns \/ \E s \in Streams : Pipe(s)
             \/ DialSFTP \/ SendCheck \/ ExitNoticed \/ SFTPCloser \/ SFTPEnds
             \/ \E p \in Recorders : RecordStatus(p) \/ CloseBuffer(p)
             \/ \E k \in Killers :
                   \/ Terminate(k) \/ EnterTermOnce(k) \/ SendSignal(k) \/ Grace(k)
                   \/ CloseConnection(k) \/ Await2s(k) \/ LeaveTermOnce(k)
             \/ UNCHANGED vars
      PROVE  UNCHANGED <<msgs, exitOnce>>
  BY <1>7
  DEF StartProcess, StartFails, StdinEOF, HandlerReturns, ForwardSignal, Process, Exit,
      Emit, WaitReturns, Pipe, PipeRead, PipeWrite, PipePoll, DialSFTP, SendCheck,
      ExitNoticed, SFTPCloser, SFTPEnds, RecordStatus, CloseBuffer, Terminate, EnterTermOnce,
      SendSignal, Grace, CloseConnection, Await2s, LeaveTermOnce, vars, clientVars,
      onceVars, agentVars
<1> QED
  BY <1>1, <1>3, <1>4, <1>5, <1>6, <1>7, RecorderSets
  DEF Next, Host, ExitGoroutine, Record, Killing

\* Among the exit goroutine and all Terminate calls exactly one records the end of the
\* session, and it records all of it: status, code, end of file, one message
\* (session.go:140, 244: exitOnce).
THEOREM EndIsRecordedOnce == Spec => []RecordedOnce
<1>1. ASSUME Init PROVE MessageInv
  <2>1. EndsIn(msgs) = {}
    BY <1>1, EmptySeq DEF Init, EndsIn
  <2> QED
    BY <1>1, <2>1, FS_EmptySet DEF Init, MessageInv
<1>2. TypeOK /\ OnceInv /\ MessageInv /\ [Next]_vars => MessageInv'
  BY MessageStep
<1>3. RecordInv /\ MessageInv => RecordedOnce
  BY DEF RecordInv, MessageInv, EndsIn, RecordedOnce
<1> QED
  BY <1>1, <1>2, <1>3, OnceInvariant, RecordInvariant, PTL DEF Spec

--------------------------------------------------------------------------------
(* Output on its way. *)

\* Every step keeps the chunks in order: what a stage has seen, the stage before it
\* has passed on.
LEMMA ChunksStep == TypeOK /\ NothingInvented /\ [Next]_vars => NothingInvented'
<1> SUFFICES ASSUME TypeOK, NothingInvented, [Next]_vars PROVE NothingInvented'
  OBVIOUS
<1>t. /\ sent \in Counters /\ avail \in Counters /\ taken \in Counters /\ accepted \in Counters
      /\ pipe \in [Streams -> PipePlaces]
  BY DEF TypeOK, Counters, PipePlaces
<1>0. ASSUME UNCHANGED <<accepted, taken, pipe>>, bufClosed => bufClosed',
             \A s \in Streams : taken[s] <= avail'[s] /\ avail'[s] <= sent'[s]
      PROVE  NothingInvented'
  BY <1>0 DEF NothingInvented
<1>1. ASSUME UNCHANGED <<accepted, taken, pipe, avail, sent>>, bufClosed => bufClosed'
      PROVE  NothingInvented'
  BY <1>1 DEF NothingInvented
<1>w. ASSUME NEW s \in Streams, Written(s)
      PROVE  \A r \in Streams : taken[r] <= avail'[r] /\ avail'[r] <= sent'[r]
  BY <1>t, <1>w DEF Written, NothingInvented, Counters
<1>c. ASSUME CloseExec
      PROVE  \A r \in Streams : taken[r] <= avail'[r] /\ avail'[r] <= sent'[r]
  <2>1. \A r \in Streams : avail'[r] \in taken[r]..avail[r] /\ sent' = sent
    BY <1>c DEF CloseExec
  <2> QED
    BY <1>t, <2>1 DEF NothingInvented, Counters
<1>2. CASE StartFails
  <2>1. UNCHANGED <<accepted, taken, pipe, bufClosed>>
    BY <1>2 DEF StartFails, clientVars, pipeVars, recordVars
  <2> QED
    BY <1>0, <1>1, <1>2, <1>w, <2>1 DEF StartFails, Streams
<1>3. ASSUME NEW s \in Streams, Emit(s) PROVE NothingInvented'
  BY <1>0, <1>3, <1>w DEF Emit, pipeVars, recordVars
<1>4. CASE DialSFTP
  BY <1>0, <1>1, <1>4, <1>c DEF DialSFTP, connVars, pipeVars, recordVars
<1>5. ASSUME NEW k \in Killers, CloseConnection(k) PROVE NothingInvented'
  BY <1>0, <1>5, <1>c DEF CloseConnection, pipeVars, recordVars
<1>6. ASSUME NEW s \in Streams, PipeRead(s) PROVE NothingInvented'
  <2>1. UNCHANGED <<accepted, avail, sent, bufClosed>> /\ pipe[s] = "read"
    BY <1>6 DEF PipeRead, connVars, recordVars
  <2>2. CASE /\ taken[s] < avail[s]
             /\ taken' = [taken EXCEPT ![s] = @ + 1]
             /\ pipe' = [pipe EXCEPT ![s] = "write"]
    BY <1>t, <2>1, <2>2 DEF NothingInvented, Counters
  <2>3. CASE pipe' = [pipe EXCEPT ![s] = "ended"] /\ UNCHANGED taken
    BY <1>t, <2>1, <2>3 DEF NothingInvented
  <2> QED
    BY <1>6, <2>2, <2>3 DEF PipeRead
<1>7. ASSUME NEW s \in Streams, PipeWrite(s) PROVE NothingInvented'
  <2>1. /\ UNCHANGED <<taken, avail, sent, bufClosed>> /\ pipe[s] = "write"
        /\ pipe' = [pipe EXCEPT ![s] = "poll"]
        /\ accepted' = IF bufClosed THEN accepted ELSE [accepted EXCEPT ![s] = @ + 1]
    BY <1>7 DEF PipeWrite, Refuses, connVars, recordVars
  <2>2. CASE bufClosed
    BY <1>t, <2>1, <2>2 DEF NothingInvented
  <2>3. CASE ~bufClosed
    BY <1>t, <2>1, <2>3 DEF NothingInvented, Counters
  <2> QED
    BY <2>2, <2>3
<1>8. ASSUME NEW s \in Streams, PipePoll(s) PROVE NothingInvented'
  <2>1. /\ UNCHANGED <<accepted, taken, avail, sent, bufClosed>> /\ pipe[s] = "poll"
        /\ pipe' = [pipe EXCEPT ![s] = IF done THEN "ended" ELSE "read"]
    BY <1>8 DEF PipePoll, connVars, recordVars
  <2> QED
    BY <1>t, <2>1 DEF NothingInvented
<1>9. ASSUME \/ StartProcess \/ StdinEOF \/ HandlerReturns \/ ForwardSignal \/ Exit
             \/ WaitReturns \/ Announce \/ SendCheck \/ SendWrite
             \/ ExitNoticed \/ SFTPCloser \/ SFTPEnds
             \/ \E p \in Recorders :
                   EnterExitOnce(p) \/ RecordStatus(p) \/ CloseBuffer(p) \/ AppendExit(p)
             \/ \E k \in Killers :
                   \/ Terminate(k) \/ EnterTermOnce(k) \/ SendSignal(k) \/ Grace(k)
                   \/ Await2s(k) \/ LeaveTermOnce(k)
             \/ UNCHANGED vars
      PROVE  UNCHANGED <<accepted, taken, pipe, avail, sent>> /\ (bufClosed => bufClosed')
  BY <1>9
  DEF StartProcess, StdinEOF, HandlerReturns, ForwardSignal, Exit, WaitReturns, Announce,
      SendCheck, SendWrite, ExitNoticed, SFTPCloser, SFTPEnds, EnterExitOnce, RecordStatus,
      CloseBuffer, AppendExit, Terminate, EnterTermOnce, SendSignal, Grace, Await2s,
      LeaveTermOnce, vars, clientVars, envVars, connVars, pipeVars, recordVars
<1> QED
  BY <1>1, <1>2, <1>3, <1>4, <1>5, <1>6, <1>7, <1>8, <1>9, RecorderSets
  DEF Next, Host, Process, Pipe, ExitGoroutine, Record, Killing

\* No chunk of output appears from nowhere or twice between the process and the buffer,
\* and none is refused while the buffer is open (session.go:111-131).
THEOREM NoChunkIsInvented == Spec => []NothingInvented
<1>1. Init => NothingInvented
  BY DEF Init, NothingInvented
<1>2. TypeOK /\ NothingInvented /\ [Next]_vars => NothingInvented'
  BY ChunksStep
<1> QED
  BY <1>1, <1>2, TypeCorrect, PTL DEF Spec

--------------------------------------------------------------------------------
(* The refinement of SessionLife. *)

\* Nobody leaves terminateOnce before the end is known and its recording begun or left
\* to the exit goroutine.
ReturnInv ==
    termOnce = "done" \/ (\E k \in Killers : pc[k] \in {"leave", "returned"})
        => execDone \/ exitOnce = "done"

\* Every step keeps this.
LEMMA ReturnStep == TypeOK /\ OnceInv /\ ReturnInv /\ [Next]_vars => ReturnInv'
<1> SUFFICES ASSUME TypeOK, OnceInv, ReturnInv, [Next]_vars PROVE ReturnInv'
  OBVIOUS
<1>r. pc \in [Recorders -> Places]
  BY DEF TypeOK, Places
<1>k. /\ execDone => execDone'
      /\ exitOnce = "done" => exitOnce' = "done"
  <2>1. execDone => execDone'
    BY DEF Next, Host, Process, Pipe, ExitGoroutine, Record, Killing, StartProcess,
           StartFails, StdinEOF, HandlerReturns, ForwardSignal, Exit, Emit, WaitReturns,
           PipeRead, PipeWrite, PipePoll, DialSFTP, Announce, SendCheck, SendWrite,
           ExitNoticed, SFTPCloser, SFTPEnds, EnterExitOnce, RecordStatus, CloseBuffer, AppendExit,
           Terminate, EnterTermOnce, SendSignal, Grace, CloseConnection, Await2s,
           LeaveTermOnce, vars, clientVars, envVars, execVars
  <2>2. exitOnce = "done" => exitOnce' = "done"
    BY DEF Next, Host, Process, Pipe, ExitGoroutine, Record, Killing, StartProcess,
           StartFails, StdinEOF, HandlerReturns, ForwardSignal, Exit, Emit, WaitReturns,
           PipeRead, PipeWrite, PipePoll, DialSFTP, Announce, SendCheck, SendWrite,
           ExitNoticed, SFTPCloser, SFTPEnds, EnterExitOnce, Enters, Passes, RecordStatus,
           CloseBuffer, AppendExit, Terminate, EnterTermOnce, SendSignal, Grace,
           CloseConnection, Await2s, LeaveTermOnce, vars, clientVars, onceVars
  <2> QED
    BY <2>1, <2>2
\* A step to any place but these two ends no Terminate.
<1>1. ASSUME UNCHANGED termOnce,
             \A k \in Killers : pc'[k] \in {"leave", "returned"} => pc[k] \in {"leave", "returned"}
      PROVE  ReturnInv'
  BY <1>1, <1>k DEF ReturnInv
<1>2. ASSUME UNCHANGED termOnce, NEW p \in Recorders, NEW l, Goto(p, l),
             l \notin {"leave", "returned"} \/ p \notin Killers
      PROVE  ReturnInv'
  BY <1>1, <1>2, <1>r, RecorderSets DEF Goto
<1>3. ASSUME NEW p \in Recorders, EnterExitOnce(p) PROVE ReturnInv'
  <2>1. CASE Goto(p, "status")
    BY <1>2, <1>3, <2>1 DEF EnterExitOnce
  <2>2. CASE exitOnce = "done"
    BY <1>k, <2>2 DEF ReturnInv
  <2> QED
    BY <1>3, <2>1, <2>2 DEF EnterExitOnce, Passes
<1>4. ASSUME NEW p \in Recorders, RecordStatus(p) \/ CloseBuffer(p) PROVE ReturnInv'
  BY <1>2, <1>4 DEF RecordStatus, CloseBuffer
<1>5. ASSUME NEW p \in Recorders, AppendExit(p) PROVE ReturnInv'
  BY <1>5 DEF AppendExit, ReturnInv
<1>6. ASSUME ExitNoticed \/ SFTPCloser \/ SFTPEnds PROVE ReturnInv'
  BY <1>2, <1>6, RecorderSets DEF ExitNoticed, SFTPCloser, SFTPEnds
<1>7. ASSUME NEW k \in Killers, EnterTermOnce(k) PROVE ReturnInv'
  <2>1. CASE termOnce = "done"
    BY <1>k, <2>1 DEF ReturnInv
  <2>2. CASE termOnce' = k /\ (Goto(k, "close") \/ Goto(k, "signal"))
    <3>1. termOnce' # "done"
      BY <2>2, RecorderSets
    <3>2. \A u \in Killers : pc'[u] \in {"leave", "returned"} => pc[u] \in {"leave", "returned"}
      BY <1>r, <2>2, RecorderSets DEF Goto
    <3> QED
      BY <1>k, <3>1, <3>2 DEF ReturnInv
  <2> QED
    BY <1>7, <2>1, <2>2 DEF EnterTermOnce, Passes
<1>8. ASSUME NEW k \in Killers, Grace(k) PROVE ReturnInv'
  <2>1. CASE execDone
    BY <1>k, <2>1 DEF ReturnInv
  <2>2. CASE Goto(k, "close")
    BY <1>2, <1>8, <2>2, RecorderSets DEF Grace
  <2> QED
    BY <1>8, <2>1, <2>2 DEF Grace
<1>9. ASSUME NEW k \in Killers,
             Terminate(k) \/ SendSignal(k) \/ CloseConnection(k) \/ Await2s(k)
      PROVE  ReturnInv'
  BY <1>2, <1>9, RecorderSets DEF Terminate, SendSignal, CloseConnection, Await2s
<1>10. ASSUME NEW k \in Killers, LeaveTermOnce(k) PROVE ReturnInv'
  <2>1. execDone \/ exitOnce = "done"
    BY <1>10 DEF LeaveTermOnce, ReturnInv
  <2> QED
    BY <1>k, <2>1 DEF ReturnInv
<1>11. ASSUME \/ StartProcess \/ StartFails \/ StdinEOF \/ HandlerReturns \/ ForwardSignal
              \/ Process \/ WaitReturns \/ \E s \in Streams : Pipe(s)
              \/ DialSFTP \/ Announce \/ SendCheck \/ SendWrite \/ UNCHANGED vars
       PROVE  UNCHANGED <<termOnce, pc>>
  BY <1>11
  DEF StartProcess, StartFails, StdinEOF, HandlerReturns, ForwardSignal, Process, Exit,
      Emit, WaitReturns, Pipe, PipeRead, PipeWrite, PipePoll, DialSFTP, Announce,
      SendCheck, SendWrite, vars, clientVars, onceVars
<1> QED
  BY <1>1, <1>3, <1>4, <1>5, <1>6, <1>7, <1>8, <1>9, <1>10, <1>11, RecorderSets
  DEF Next, Host, ExitGoroutine, Record, Killing

\* Every step of the goroutines is a step of the life of the session, or none.
LEMMA LifeStep ==
    ASSUME TypeOK, OnceInv, RecordInv, ReturnInv, TypeOK', OnceInv', RecordInv', ReturnInv',
           [Next]_vars
    PROVE  [Life!LifeNext]_(Life!lifeVars)
<1>p. \A p \in Recorders : p \in Killers \/ p = ExitG
  BY RecorderSets
<1>r. pc \in [Recorders -> Places]
  BY DEF TypeOK, Places
<1>0. ASSUME UNCHANGED <<status, code, bufClosed, execDone, exitOnce, SomeReturned>>
      PROVE  UNCHANGED Life!lifeVars
  BY <1>0 DEF Life!lifeVars, Phase
\* A step to a place that is not the end of a Terminate.
<1>s. ASSUME NEW p \in Recorders, NEW l, Goto(p, l), pc[p] # "returned", l # "returned"
      PROVE  UNCHANGED SomeReturned
  BY <1>p, <1>r, <1>s DEF SomeReturned, Goto
<1>g. ASSUME NEW k \in Killers, Goto(k, "returned"), pc[k] # "returned",
             UNCHANGED <<status, code, bufClosed, execDone, exitOnce>>
      PROVE  Life!LifeReturn
  <2>1. SomeReturned'
    BY <1>g, <1>r, RecorderSets DEF SomeReturned, Goto
  <2>2. execDone \/ exitOnce = "done"
    BY <1>g, <1>r, RecorderSets DEF ReturnInv, Goto
  <2>3. Phase # "running"
    BY <2>2 DEF Phase, RecordInv
  <2>4. UNCHANGED Phase
    BY <1>g DEF Phase
  <2> QED
    BY <1>g, <2>1, <2>3, <2>4 DEF Life!LifeReturn
<1>1. CASE WaitReturns
  <2>1. /\ execDone' /\ ~execDone
        /\ UNCHANGED <<status, code, bufClosed, exitOnce, pc>>
    BY <1>1 DEF WaitReturns, recordVars, onceVars
  <2>2. UNCHANGED SomeReturned
    BY <2>1 DEF SomeReturned
  <2>3. CASE Phase = "running"
    <3>1. Phase' = "ending"
      BY <2>1, <2>3 DEF Phase
    <3> QED
      BY <2>1, <2>2, <2>3, <3>1 DEF Life!LifeNext, Life!LifeEnd
  <2>4. CASE Phase # "running"
    <3>1. UNCHANGED Phase
      BY <2>1, <2>4 DEF Phase
    <3> QED
      BY <2>1, <2>2, <3>1 DEF Life!lifeVars
  <2> QED
    BY <2>3, <2>4
<1>2. ASSUME NEW p \in Recorders, EnterExitOnce(p) PROVE [Life!LifeNext]_(Life!lifeVars)
  <2>1. /\ UNCHANGED <<status, code, bufClosed, execDone>> /\ pc[p] = "record"
    BY <1>2 DEF EnterExitOnce, envVars, execVars, recordVars
  <2>2. CASE Goto(p, "status") /\ exitOnce = "free" /\ exitOnce' = p
    <3>1. UNCHANGED SomeReturned
      BY <1>s, <2>1, <2>2
    <3>2. exitOnce \notin Recorders /\ status # "exited"
      BY <1>r, <2>2, RecorderSets DEF RecordInv, OnceInv, Recording
    <3>3. Phase' = "ending"
      BY <2>1, <2>2, <3>2 DEF Phase
    <3>4. CASE execDone
      <4>1. Phase = "ending"
        BY <3>2, <3>4 DEF Phase
      <4> QED
        BY <2>1, <3>1, <3>3, <4>1 DEF Life!lifeVars
    <3>5. CASE ~execDone
      <4>1. Phase = "running"
        BY <3>2, <3>5 DEF Phase
      <4> QED
        BY <2>1, <3>1, <3>3, <4>1 DEF Life!LifeNext, Life!LifeEnd
    <3> QED
      BY <3>4, <3>5
  <2>3. CASE Goto(p, AfterOnce(p)) /\ UNCHANGED exitOnce
    <3>1. UNCHANGED SomeReturned
      BY <1>s, <2>1, <2>3 DEF AfterOnce
    <3> QED
      BY <1>0, <2>1, <2>3, <3>1
  <2> QED
    BY <1>2, <2>2, <2>3 DEF EnterExitOnce, Enters
<1>3. ASSUME NEW p \in Recorders, RecordStatus(p) PROVE Life!LifeRecord
  <2>1. /\ pc[p] = "status" /\ Goto(p, "closeBuf") /\ status' = "exited"
        /\ code' \in {"real", "zero", "minus1"} /\ UNCHANGED <<bufClosed, execDone, exitOnce>>
    BY <1>3 DEF RecordStatus, envVars, execVars, TypeOK
  <2>2. exitOnce = p /\ exitOnce # "done"
    BY <2>1, RecorderSets DEF OnceInv, Recording
  <2>3. status # "exited"
    BY <2>1, <2>2 DEF RecordInv, OnceInv, Recording
  <2>4. Phase = "ending" /\ Phase' = "exited"
    BY <2>1, <2>2, <2>3 DEF Phase
  <2>5. UNCHANGED SomeReturned
    BY <1>s, <2>1
  <2> QED
    BY <2>1, <2>4, <2>5 DEF Life!LifeRecord
<1>4. ASSUME NEW p \in Recorders, CloseBuffer(p) PROVE Life!LifeClose
  <2>1. /\ pc[p] = "closeBuf" /\ Goto(p, "append") /\ bufClosed' = TRUE
        /\ UNCHANGED <<status, code, execDone, exitOnce>>
    BY <1>4 DEF CloseBuffer, envVars, execVars
  <2>2. status = "exited"
    BY <2>1 DEF RecordInv
  <2>3. Phase = "exited" /\ UNCHANGED Phase
    BY <2>1, <2>2 DEF Phase
  <2>4. UNCHANGED SomeReturned
    BY <1>s, <2>1
  <2> QED
    BY <2>1, <2>3, <2>4 DEF Life!LifeClose
<1>5. ASSUME NEW p \in Recorders, AppendExit(p) PROVE UNCHANGED Life!lifeVars
  <2>1. /\ pc[p] = "append" /\ Goto(p, AfterOnce(p)) /\ UNCHANGED <<status, code, bufClosed>>
    BY <1>5 DEF AppendExit, recordVars
  <2>2. status = "exited"
    BY <2>1 DEF RecordInv
  <2>3. UNCHANGED Phase
    BY <2>1, <2>2 DEF Phase
  <2>4. UNCHANGED SomeReturned
    BY <1>s, <2>1 DEF AfterOnce
  <2> QED
    BY <2>1, <2>3, <2>4 DEF Life!lifeVars
<1>6. ASSUME ExitNoticed \/ SFTPCloser \/ SFTPEnds PROVE UNCHANGED Life!lifeVars
  <2>1. /\ UNCHANGED <<status, code, bufClosed, execDone, exitOnce>>
        /\ Goto(ExitG, "record") \/ Goto(ExitG, "closing") \/ Goto(ExitG, "ended")
        /\ pc[ExitG] # "returned"
    BY <1>6 DEF ExitNoticed, SFTPCloser, SFTPEnds, AfterDone, envVars, execVars, recordVars
  <2> QED
    BY <1>0, <1>s, <2>1, RecorderSets
<1>7. ASSUME NEW k \in Killers,
             \/ Terminate(k) \/ SendSignal(k) \/ Grace(k) \/ CloseConnection(k) \/ Await2s(k)
             \/ EnterTermOnce(k) /\ ~Goto(k, "returned")
      PROVE  UNCHANGED Life!lifeVars
  <2>1. UNCHANGED <<status, code, bufClosed, execDone, exitOnce>>
    BY <1>7 DEF Terminate, SendSignal, Grace, CloseConnection, Await2s, EnterTermOnce,
                envVars, execVars, recordVars
  <2>2. PICK l \in {"once", "grace", "leave", "close", "await2s", "record", "signal"} :
            Goto(k, l) /\ pc[k] # "returned"
    BY <1>7 DEF Terminate, SendSignal, Grace, CloseConnection, Await2s, EnterTermOnce
  <2> QED
    BY <1>0, <1>s, <2>1, <2>2, RecorderSets
<1>8. ASSUME NEW k \in Killers,
             LeaveTermOnce(k) \/ (EnterTermOnce(k) /\ Goto(k, "returned"))
      PROVE  Life!LifeReturn
  <2>1. /\ UNCHANGED <<status, code, bufClosed, execDone, exitOnce>>
        /\ Goto(k, "returned") /\ pc[k] # "returned"
    BY <1>8 DEF LeaveTermOnce, EnterTermOnce, envVars, execVars, recordVars
  <2> QED
    BY <1>g, <2>1
<1>9. ASSUME \/ StartProcess \/ StartFails \/ StdinEOF \/ HandlerReturns \/ ForwardSignal
             \/ Process \/ \E s \in Streams : Pipe(s)
             \/ DialSFTP \/ Announce \/ SendCheck \/ SendWrite \/ UNCHANGED vars
      PROVE  UNCHANGED Life!lifeVars
  <2>1. UNCHANGED <<status, code, bufClosed, execDone, exitOnce, pc>>
    BY <1>9
    DEF StartProcess, StartFails, StdinEOF, HandlerReturns, ForwardSignal, Process, Exit,
        Emit, Pipe, PipeRead, PipeWrite, PipePoll, DialSFTP, Announce, SendCheck,
        SendWrite, vars, clientVars, onceVars, recordVars, execVars, envVars
  <2> QED
    BY <1>0, <2>1 DEF SomeReturned
<1> QED
  BY <1>1, <1>2, <1>3, <1>4, <1>5, <1>6, <1>7, <1>8, <1>9, RecorderSets
  DEF Next, Host, ExitGoroutine, Record, Killing, Life!LifeNext

\* The host, the client, the exit goroutine, the pipe readers and all Terminate calls
\* together implement the life of a session: it ends once, its code is final, readers
\* are told the end only after it is recorded, and no Terminate returns while it runs
\* (session.go:137-152, 226-258).
THEOREM SessionImplementsLife == Spec => ImplementsLife
<1>1. ASSUME Init PROVE Life!LifeInit /\ ReturnInv
  BY <1>1, RecorderSets DEF Init, Life!LifeInit, Phase, SomeReturned, ReturnInv
<1>2. TypeOK /\ OnceInv /\ ReturnInv /\ [Next]_vars => ReturnInv'
  BY ReturnStep
<1>3. /\ TypeOK /\ OnceInv /\ RecordInv /\ ReturnInv
      /\ TypeOK' /\ OnceInv' /\ RecordInv' /\ ReturnInv' /\ [Next]_vars
      => [Life!LifeNext]_(Life!lifeVars)
  BY LifeStep
<1> QED
  BY <1>1, <1>2, <1>3, OnceInvariant, RecordInvariant, PTL
  DEF Spec, ImplementsLife, Life!LifeSpec
================================================================================
