----------------------------- MODULE OutputBuffer -----------------------------
(***************************************************************************)
(* internal/buffer/buffer.go: the multi-reader output buffer of a session. *)
(*                                                                         *)
(* Every reader owns a ring that overwrites its oldest bytes; one mutex    *)
(* (mu) guards the map of rings and the closed flag; one condition         *)
(* variable parks the readers that found nothing.  Callers are goroutines: *)
(* the two pipe readers, the exit goroutine, and one per tool call.        *)
(*                                                                         *)
(* Grain.  What a goroutine does from Lock to Unlock without waiting is    *)
(* one step.  Read is the exception, because the goroutine that enforces   *)
(* its deadline broadcasts WITHOUT the lock: the test of the deadline      *)
(* (ReadCheck) and the registration on the condition variable (ReadWait)   *)
(* are two steps although mu is held across both.  Unregister and Close    *)
(* broadcast after unlocking and take two steps as well.                   *)
(*                                                                         *)
(* Data.  A byte is its position in the order of acceptance; positions are *)
(* all that overwriting, draining and delivery can tell apart.             *)
(*                                                                         *)
(* Definitions whose comment begins with FAULT are wrong on purpose: each  *)
(* is a defect some property must detect when it replaces the definition   *)
(* that follows it.                                                        *)
(***************************************************************************)
EXTENDS Integers, Sequences

CONSTANTS
    Callers,     \* goroutines that call the buffer
    NoCaller,    \* nobody holds mu
    Size,        \* bytes of one ring, New(maxBytes)
    MaxChunk,    \* most bytes one Write brings (pipeToBuffer: 4096 << 1 MB)
    MaxReaders,  \* bound: readers ever registered
    MaxBytes     \* bound: bytes ever accepted

ASSUME CallersAssumption == NoCaller \notin Callers
ASSUME SizesAssumption ==
    /\ Size \in Nat \ {0}
    /\ MaxChunk \in 1..Size
    /\ MaxReaders \in Nat
    /\ MaxBytes \in Nat

ReaderIds == 0..(MaxReaders - 1)

VARIABLES
    mu,       \* the caller that holds the mutex between two steps, or NoCaller
    closed,   \* Buffer.closed
    nextID,   \* Buffer.nextID
    readers,  \* Buffer.readers: registered identifier -> contents of its ring
    wrote,    \* history: bytes accepted
    got,      \* history: identifier -> positions handed to callers
    pc,       \* where each caller is (see Locations)
    rid,      \* the readerID of the caller's Read in progress or last Read
    due,      \* the deadline of the caller's Read has passed or ctx is cancelled
    timer,    \* the goroutine started by the caller's Read
    ret       \* what the caller's last Read returned

bufferVars == <<closed, nextID, readers, wrote, got>>
readVars == <<rid, due, timer, ret>>
vars == <<mu, closed, nextID, readers, wrote, got, pc, rid, due, timer, ret>>

Locations == {"idle",    \* not in a call
              "check",   \* Read, holds mu, at the head of the loop
              "wait",    \* Read, holds mu, found nothing, about to Wait
              "asleep",  \* Read, on the condition variable
              "woken",   \* Read, notified, needs mu again
              "bcast"}   \* Unregister or Close, unlocked, about to Broadcast

InRead(t) == pc[t] \in {"check", "wait", "asleep", "woken"}

--------------------------------------------------------------------------------
(* Operators on rings and on the condition variable. *)

\* The positions a+1 .. b as a sequence.
Interval(a, b) == [i \in 1..(b - a) |-> a + i]

\* FAULT: the ring grows.
KeepAll(q) == q
\* FAULT: a full ring refuses new bytes (ringbuffer without overwriting).
KeepOldest(q) == SubSeq(q, 1, IF Len(q) > Size THEN Size ELSE Len(q))
\* ringbuffer with SetOverwrite(true): only the last Size bytes stay.
KeepNewest(q) ==
    SubSeq(q, IF Len(q) > Size THEN Len(q) - Size + 1 ELSE 1, Len(q))

HasMore(id) == id \in DOMAIN readers /\ readers[id] # <<>>

\* FAULT: a closed buffer is at its end, whatever is left in the ring.
ClosedBeforeData(id) ==
    IF id \notin DOMAIN readers THEN "errReader"
    ELSE IF closed THEN "eof"
    ELSE IF HasMore(id) THEN "data"
    ELSE "none"
\* What a look at the buffer under mu gives reader id: invalid reader, then
\* data, then end of file, then nothing yet.
Outcome(id) ==
    IF id \notin DOMAIN readers THEN "errReader"
    ELSE IF HasMore(id) THEN "data"
    ELSE IF closed THEN "eof"
    ELSE "none"

\* cond.Broadcast: every parked caller leaves the wait set.
Awakened(p) == [t \in Callers |-> IF p[t] = "asleep" THEN "woken" ELSE p[t]]

\* FAULT: the ring is copied but not emptied.
DrainKeepingRing(id) ==
    /\ got' = [got EXCEPT ![id] = @ \o readers[id]]
    /\ UNCHANGED readers
\* drain: hand the whole ring of id over and leave it empty.
Drain(id) ==
    /\ got' = [got EXCEPT ![id] = @ \o readers[id]]
    /\ readers' = [readers EXCEPT ![id] = <<>>]

Free == mu = NoCaller

Init ==
    /\ mu = NoCaller
    /\ closed = FALSE
    /\ nextID = 0
    /\ readers = [id \in {} |-> <<>>]
    /\ wrote = 0
    /\ got = [id \in ReaderIds |-> <<>>]
    /\ pc = [t \in Callers |-> "idle"]
    /\ rid = [t \in Callers |-> 0]
    /\ due = [t \in Callers |-> FALSE]
    /\ timer = [t \in Callers |-> "off"]
    /\ ret = [t \in Callers |-> "none"]

--------------------------------------------------------------------------------
(* NewReader, Unregister, Write, Close. *)

\* NewReader: on a closed buffer it returns ErrClosed and changes nothing.
NewReader(t) ==
    /\ pc[t] = "idle" /\ Free
    /\ ~closed
    /\ nextID \in ReaderIds
    /\ nextID' = nextID + 1
    /\ readers' = [id \in DOMAIN readers \cup {nextID} |->
                     IF id = nextID THEN <<>> ELSE readers[id]]
    /\ UNCHANGED <<mu, closed, wrote, got, pc, readVars>>

\* Unregister, up to the unlock; Broadcast completes it.
Unregister(t, id) ==
    /\ pc[t] = "idle" /\ Free
    /\ readers' = [other \in DOMAIN readers \ {id} |-> readers[other]]
    /\ pc' = [pc EXCEPT ![t] = "bcast"]
    /\ UNCHANGED <<mu, closed, nextID, wrote, got, readVars>>

\* Close, up to the unlock; Broadcast completes it.
Close(t) ==
    /\ pc[t] = "idle" /\ Free
    /\ closed' = TRUE
    /\ pc' = [pc EXCEPT ![t] = "bcast"]
    /\ UNCHANGED <<mu, nextID, readers, wrote, got, readVars>>

\* FAULT: the broadcast is forgotten.
SilentBroadcast(t) ==
    /\ pc[t] = "bcast"
    /\ pc' = [pc EXCEPT ![t] = "idle"]
    /\ UNCHANGED <<mu, bufferVars, readVars>>

\* The broadcast of Unregister and Close, made without mu.
Broadcast(t) ==
    /\ pc[t] = "bcast"
    /\ pc' = Awakened([pc EXCEPT ![t] = "idle"])
    /\ UNCHANGED <<mu, bufferVars, readVars>>

\* FAULT: closed is not tested.
WriteAfterClose(t, n) ==
    /\ pc[t] = "idle" /\ Free
    /\ wrote + n <= MaxBytes
    /\ readers' = [id \in DOMAIN readers |->
                     KeepNewest(readers[id] \o Interval(wrote, wrote + n))]
    /\ wrote' = wrote + n
    /\ pc' = Awakened(pc)
    /\ UNCHANGED <<mu, closed, nextID, got, readVars>>
\* FAULT: nobody is woken.
QuietWrite(t, n) ==
    /\ pc[t] = "idle" /\ Free
    /\ ~closed
    /\ wrote + n <= MaxBytes
    /\ readers' = [id \in DOMAIN readers |->
                     KeepNewest(readers[id] \o Interval(wrote, wrote + n))]
    /\ wrote' = wrote + n
    /\ UNCHANGED <<mu, closed, nextID, got, pc, readVars>>
\* Write of n bytes: they go to every ring and everybody is woken, under mu.
\* On a closed buffer it returns ErrClosed and changes nothing.
Write(t, n) ==
    /\ pc[t] = "idle" /\ Free
    /\ ~closed
    /\ wrote + n <= MaxBytes
    /\ readers' = [id \in DOMAIN readers |->
                     KeepNewest(readers[id] \o Interval(wrote, wrote + n))]
    /\ wrote' = wrote + n
    /\ pc' = Awakened(pc)
    /\ UNCHANGED <<mu, closed, nextID, got, readVars>>

--------------------------------------------------------------------------------
(* Read. *)

\* The timer goroutine of a call that returns finds stop closed; if its
\* deadline passes before it runs, its select may still pick the broadcast.
Stopped(s) == IF s = "armed" THEN "stale" ELSE s

\* The call of t returns r for reader id and releases mu.
Finish(t, id, r) ==
    /\ ret' = [ret EXCEPT ![t] = r]
    /\ pc' = [pc EXCEPT ![t] = "idle"]
    /\ mu' = NoCaller
    /\ due' = [due EXCEPT ![t] = FALSE]
    /\ timer' = [timer EXCEPT ![t] = Stopped(@)]
    /\ IF r = "data" THEN Drain(id) ELSE UNCHANGED <<readers, got>>
    /\ UNCHANGED <<closed, nextID, wrote>>

\* Nothing to return and time to wait: start the timer goroutine and go to
\* the loop, mu still held.
EnterLoop(t) ==
    /\ pc' = [pc EXCEPT ![t] = "check"]
    /\ mu' = t
    /\ due' = [due EXCEPT ![t] = FALSE]
    /\ timer' = [timer EXCEPT ![t] = "armed"]
    /\ UNCHANGED <<bufferVars, ret>>

\* The first look; blocking is timeout > 0.
ReadBegin(t, id, blocking) ==
    /\ pc[t] = "idle" /\ Free
    /\ rid' = [rid EXCEPT ![t] = id]
    /\ IF Outcome(id) = "none" /\ blocking
       THEN EnterLoop(t)
       ELSE Finish(t, id, Outcome(id))

\* One pass of the loop up to cond.Wait.
ReadCheck(t) ==
    /\ pc[t] = "check"
    /\ UNCHANGED rid
    /\ \/ /\ Outcome(rid[t]) # "none" \/ due[t]
          /\ Finish(t, rid[t], Outcome(rid[t]))
       \/ /\ Outcome(rid[t]) = "none" /\ ~due[t]
          /\ pc' = [pc EXCEPT ![t] = "wait"]
          /\ UNCHANGED <<mu, bufferVars, due, timer, ret>>

\* cond.Wait: on the wait set and off the mutex, in one step.
ReadWait(t) ==
    /\ pc[t] = "wait"
    /\ pc' = [pc EXCEPT ![t] = "asleep"]
    /\ mu' = NoCaller
    /\ UNCHANGED <<bufferVars, readVars>>

\* FAULT: whether the reader is still registered is not tested.
WakeUnchecked(t) ==
    /\ pc[t] = "woken" /\ Free
    /\ pc' = [pc EXCEPT ![t] = "check"]
    /\ mu' = t
    /\ UNCHANGED <<bufferVars, readVars>>
\* cond.Wait returns with mu held; an unregistered reader stops here.
ReadWake(t) ==
    /\ pc[t] = "woken" /\ Free
    /\ IF rid[t] \in DOMAIN readers
       THEN /\ pc' = [pc EXCEPT ![t] = "check"]
            /\ mu' = t
            /\ UNCHANGED <<bufferVars, readVars>>
       ELSE /\ Finish(t, rid[t], "errReader")
            /\ UNCHANGED rid

\* Environment: the deadline passes or the caller's ctx is cancelled.
Expire(t) ==
    /\ InRead(t) /\ ~due[t]
    /\ due' = [due EXCEPT ![t] = TRUE]
    /\ UNCHANGED <<mu, bufferVars, pc, rid, timer, ret>>

\* FAULT: the timer goroutine ends without a broadcast.
MutedTimer(t) ==
    /\ timer[t] = "armed" /\ due[t]
    /\ timer' = [timer EXCEPT ![t] = "off"]
    /\ UNCHANGED <<mu, bufferVars, pc, rid, due, ret>>
\* The timer goroutine broadcasts, once and without mu.
TimerFire(t) ==
    /\ timer[t] = "armed" /\ due[t]
    /\ timer' = [timer EXCEPT ![t] = "off"]
    /\ pc' = Awakened(pc)
    /\ UNCHANGED <<mu, bufferVars, rid, due, ret>>

\* The timer goroutine of a call that has returned ends, with a late
\* broadcast or without one.  A new blocking Read of the same caller forgets
\* it; the late broadcasts it could still make are those of other callers.
TimerStop(t) ==
    /\ timer[t] = "stale"
    /\ timer' = [timer EXCEPT ![t] = "off"]
    /\ pc' \in {pc, Awakened(pc)}
    /\ UNCHANGED <<mu, bufferVars, rid, due, ret>>

--------------------------------------------------------------------------------

Call(t) ==
    \/ NewReader(t)
    \/ Close(t)
    \/ \E n \in 1..MaxChunk : Write(t, n)
    \/ \E id \in ReaderIds :
          \/ Unregister(t, id)
          \/ \E blocking \in BOOLEAN : ReadBegin(t, id, blocking)

Progress(t) ==
    \/ Broadcast(t)
    \/ ReadCheck(t)
    \/ ReadWait(t)
    \/ ReadWake(t)

Timer(t) == Expire(t) \/ TimerFire(t) \/ TimerStop(t)

Next == \E t \in Callers : Call(t) \/ Progress(t) \/ Timer(t)

Spec == Init /\ [][Next]_vars

\* What the Go scheduler gives: a goroutine that can run does run (weak
\* fairness); one that competes for mu gets it, since sync.Mutex hands the
\* lock over after a millisecond of starvation (strong fairness); time passes.
\* Callers owe nothing: no fairness on Call.
Fairness ==
    \A t \in Callers :
        /\ WF_vars(Broadcast(t))
        /\ WF_vars(ReadCheck(t))
        /\ WF_vars(ReadWait(t))
        /\ SF_vars(ReadWake(t))
        /\ WF_vars(Expire(t))
        /\ WF_vars(TimerFire(t))

FairSpec == Spec /\ Fairness

--------------------------------------------------------------------------------
(* Properties. *)

\* Types of all variables; rings never exceed their capacity and only
\* identifiers already given out are registered.
TypeOK ==
    /\ mu \in Callers \cup {NoCaller}
    /\ closed \in BOOLEAN
    /\ nextID \in 0..MaxReaders
    /\ DOMAIN readers \in SUBSET (0..(nextID - 1))
    /\ readers \in [DOMAIN readers -> Seq(Nat)]
    /\ \A id \in DOMAIN readers : Len(readers[id]) <= Size
    /\ wrote \in Nat
    /\ got \in [ReaderIds -> Seq(Nat)]
    /\ pc \in [Callers -> Locations]
    /\ rid \in [Callers -> Nat]
    /\ due \in [Callers -> BOOLEAN]
    /\ timer \in [Callers -> {"off", "armed", "stale"}]
    /\ ret \in [Callers -> {"none", "data", "eof", "errReader"}]

\* From the head of the loop until it parks, a Read holds the mutex alone, its
\* reader stays registered and what it found stays true (buffer.go:127-145).
LoopHoldsLock ==
    \A t \in Callers :
        /\ pc[t] \in {"check", "wait"} <=> mu = t
        /\ mu = t => rid[t] \in DOMAIN readers
        /\ pc[t] = "wait" => Outcome(rid[t]) = "none"

\* No wakeup for data, for end of file or for unregistration is ever lost: a
\* caller that sleeps although its Read could return is about to be woken by
\* somebody who has yet to broadcast (buffer.go:62-84, 127-145, 182-187).
NoLostWakeup ==
    \A t \in Callers :
        pc[t] = "asleep" /\ Outcome(rid[t]) # "none"
            => \E u \in Callers : pc[u] = "bcast"

\* Whatever the other readers do, a reader's ring is exactly the newest part
\* of the log it has not been handed: nothing missing, doubled or reordered
\* inside it, and bytes lost only at the old end (buffer.go:79-81, 161-168).
RingsHoldNewest ==
    \A id \in DOMAIN readers :
        /\ Len(readers[id]) <= wrote
        /\ readers[id] = Interval(wrote - Len(readers[id]), wrote)

\* Two Reads never both hand out a byte, also not two callers on one reader,
\* and what is handed out comes in order and before what is still in the ring
\* (buffer.go:98, 147: drain under mu on both paths).
DeliveredInOrder ==
    \A id \in ReaderIds :
        /\ \A i, j \in 1..Len(got[id]) : i < j => got[id][i] < got[id][j]
        /\ \A i \in 1..Len(got[id]) :
               /\ got[id][i] <= wrote
               /\ id \in DOMAIN readers =>
                      got[id][i] <= wrote - Len(readers[id])

\* Read reports end of file only when the reader has been handed everything
\* its ring kept and nothing can follow (buffer.go:103, 147-155).
EOFIsFinal ==
    \A t \in Callers :
        ret[t] = "eof" /\ ~InRead(t) => closed /\ ~HasMore(rid[t])

\* The abstract log this buffer implements.
Log == INSTANCE SharedLog
         WITH cursor <- [id \in DOMAIN readers |-> wrote - Len(readers[id])]

\* Every behaviour of the buffer is one of the shared log, locks, parking and
\* timers being invisible (all of buffer.go).
ImplementsLog == Log!LogSpec

\* After Close, or after its reader is unregistered, a Read in progress
\* returns (buffer.go:61 "wakes any goroutines waiting on it", :181).
ReadsEnd ==
    \A t \in Callers :
        InRead(t) /\ (closed \/ rid[t] \notin DOMAIN readers) ~> ~InRead(t)

\* A Read for whose reader there is data returns, unless another caller takes
\* the data first (buffer.go:82, 127, 147).
DataIsServed ==
    \A t \in Callers :
        InRead(t) /\ HasMore(rid[t]) ~> ~InRead(t) \/ ~HasMore(rid[t])

\* A deadline or cancellation that comes while the Read is parked ends it
\* (buffer.go:116-124, 128).
ParkedReadTimesOut ==
    \A t \in Callers :
        pc[t] = "asleep" /\ due[t] /\ timer[t] = "armed" ~> ~InRead(t)

\* What the changelog says: a Read returns once its timeout has passed
\* (CHANGELOG.md:65, "guarantees reads return after the specified timeout").
ReadHonoursTimeout ==
    \A t \in Callers : InRead(t) /\ due[t] ~> ~InRead(t)
================================================================================
