-------------------------- MODULE OutputBufferProofs --------------------------
(***************************************************************************)
(* Proofs about OutputBuffer, for every number of callers and readers,     *)
(* every capacity and every bound.                                         *)
(***************************************************************************)
EXTENDS OutputBuffer, SequenceTheorems, TLAPS

--------------------------------------------------------------------------------
(* Lemmas about intervals of positions and about the overwriting ring. *)

\* An interval is a sequence of naturals; its length and its elements.
LEMMA IntervalProperties ==
    ASSUME NEW a \in Nat, NEW b \in Nat, a <= b
    PROVE  /\ Interval(a, b) \in Seq(Nat)
           /\ Len(Interval(a, b)) = b - a
           /\ \A i \in 1..(b - a) : Interval(a, b)[i] = a + i
<1>1. Interval(a, b) \in [1..(b - a) -> Nat]
  BY DEF Interval
<1>2. b - a \in Nat
  OBVIOUS
<1>3. Interval(a, b) \in Seq(Nat)
  BY <1>1, <1>2, SeqDef
<1>4. Len(Interval(a, b)) = b - a
  BY <1>1, <1>2, <1>3, LenProperties
<1> QED
  BY <1>3, <1>4 DEF Interval

\* Two adjacent intervals make one.
LEMMA IntervalConcat ==
    ASSUME NEW a \in Nat, NEW b \in Nat, NEW c \in Nat, a <= b, b <= c
    PROVE  Interval(a, b) \o Interval(b, c) = Interval(a, c)
<1> DEFINE p == Interval(a, b)
           q == Interval(b, c)
           r == Interval(a, c)
<1>1. /\ p \in Seq(Nat) /\ Len(p) = b - a
      /\ \A i \in 1..(b - a) : p[i] = a + i
  BY IntervalProperties
<1>2. /\ q \in Seq(Nat) /\ Len(q) = c - b
      /\ \A i \in 1..(c - b) : q[i] = b + i
  BY IntervalProperties
<1>3. /\ r \in Seq(Nat) /\ Len(r) = c - a
      /\ \A i \in 1..(c - a) : r[i] = a + i
  BY IntervalProperties
<1> HIDE DEF p, q, r
<1>4. /\ p \o q \in Seq(Nat)
      /\ Len(p \o q) = Len(p) + Len(q)
      /\ \A i \in 1..Len(p) + Len(q) :
            (p \o q)[i] = IF i <= Len(p) THEN p[i] ELSE q[i - Len(p)]
  BY <1>1, <1>2, ConcatProperties
<1>5. Len(p \o q) = Len(r)
  BY <1>1, <1>2, <1>3, <1>4
<1>6. ASSUME NEW i \in 1..Len(r) PROVE (p \o q)[i] = r[i]
  <2>1. r[i] = a + i
    BY <1>3
  <2>2. i \in 1..Len(p) + Len(q)
    BY <1>1, <1>2, <1>3
  <2>3. CASE i <= Len(p)
    BY <1>1, <1>4, <2>1, <2>2, <2>3
  <2>4. CASE i > Len(p)
    <3>1. i - Len(p) \in 1..(c - b)
      BY <1>1, <1>2, <2>2, <2>4
    <3> QED
      BY SMTT(30), <1>1, <1>2, <1>4, <2>1, <2>2, <2>4, <3>1
  <2> QED
    BY <1>1, <2>2, <2>3, <2>4
<1>7. p \o q = r
  BY <1>3, <1>4, <1>5, <1>6, SeqEqual
<1> QED
  BY <1>7 DEF p, q, r

\* What the ring keeps of an interval is an interval with the same end.
LEMMA KeepNewestInterval ==
    ASSUME NEW a \in Nat, NEW b \in Nat, a <= b
    PROVE  KeepNewest(Interval(a, b)) =
             Interval(IF b - a > Size THEN b - Size ELSE a, b)
<1> USE SizesAssumption
<1> DEFINE q == Interval(a, b)
           m == IF Len(q) > Size THEN Len(q) - Size + 1 ELSE 1
           start == IF b - a > Size THEN b - Size ELSE a
           r == Interval(start, b)
           k == SubSeq(q, m, Len(q))
<1>1. /\ q \in Seq(Nat) /\ Len(q) = b - a
      /\ \A i \in 1..(b - a) : q[i] = a + i
  BY IntervalProperties
<1>2. start \in Nat /\ start <= b
  OBVIOUS
<1>3. /\ r \in Seq(Nat) /\ Len(r) = b - start
      /\ \A i \in 1..(b - start) : r[i] = start + i
  BY <1>2, IntervalProperties
<1>4. m \in 1..(Len(q) + 1) /\ m - 1 = start - a
  BY <1>1
<1> HIDE DEF q, m, r, start
<1>5. \A i \in m..Len(q) : q[i] \in Nat
  BY <1>1, <1>4
<1>6. /\ k \in Seq(Nat)
      /\ Len(k) = IF m <= Len(q) THEN Len(q) - m + 1 ELSE 0
      /\ \A i \in 1..Len(q) - m + 1 : k[i] = q[m + i - 1]
  <2>1. m \in Int /\ Len(q) \in Int
    BY <1>1, <1>4
  <2> QED
    BY <1>5, <2>1, SubSeqProperties
<1> HIDE DEF k
<1>7. Len(k) = Len(r)
  BY <1>1, <1>2, <1>3, <1>4, <1>6
<1>8. ASSUME NEW i \in 1..Len(k) PROVE k[i] = r[i]
  <2>1. i \in 1..Len(q) - m + 1 /\ m + i - 1 \in 1..(b - a)
    BY <1>1, <1>4, <1>6
  <2>2. k[i] = a + (m + i - 1)
    BY <1>1, <1>6, <2>1
  <2>3. r[i] = start + i
    BY <1>3, <1>7
  <2> QED
    BY <1>1, <1>2, <1>4, <2>1, <2>2, <2>3
<1>9. k = r
  BY <1>3, <1>6, <1>7, <1>8, SeqEqual
<1> QED
  BY <1>9 DEF k, q, m, r, start, KeepNewest

\* Behind the first byte of a ring that held a+1 .. b before overwriting.
OldestKept(a, b) == IF b - a > Size THEN b - Size ELSE a

LEMMA OldestKeptBounds ==
    ASSUME NEW a \in Nat, NEW b \in Nat, a <= b
    PROVE  /\ OldestKept(a, b) \in Nat /\ OldestKept(a, b) <= b
           /\ a <= OldestKept(a, b)
BY SizesAssumption DEF OldestKept

\* A ring that holds the newest bytes still does so after a Write: what it
\* keeps of a+1 .. w followed by w+1 .. b is an interval that ends at b.
LEMMA WriteKeepsNewest ==
    ASSUME NEW a \in Nat, NEW w \in Nat, NEW b \in Nat, a <= w, w <= b,
           NEW k, k = KeepNewest(Interval(a, w) \o Interval(w, b))
    PROVE  /\ k = Interval(OldestKept(a, b), b)
           /\ k \in Seq(Nat) /\ Len(k) = b - OldestKept(a, b)
<1>1. k = KeepNewest(Interval(a, b))
  BY IntervalConcat
<1>2. k = Interval(OldestKept(a, b), b)
  BY <1>1, KeepNewestInterval DEF OldestKept
<1> DEFINE o == OldestKept(a, b)
<1>3. o \in Nat /\ o <= b
  BY OldestKeptBounds
<1> HIDE DEF o
<1>4. Interval(o, b) \in Seq(Nat) /\ Len(Interval(o, b)) = b - o
  BY <1>3, IntervalProperties
<1> QED
  BY <1>2, <1>4 DEF o

\* Whatever goes through the ring stays a sequence and fits its capacity.
LEMMA KeepNewestType ==
    ASSUME NEW q \in Seq(Nat)
    PROVE  KeepNewest(q) \in Seq(Nat) /\ Len(KeepNewest(q)) <= Size
<1> DEFINE m == IF Len(q) > Size THEN Len(q) - Size + 1 ELSE 1
<1>1. Len(q) \in Nat /\ Size \in Nat /\ Size > 0
  BY LenProperties, SizesAssumption
<1>2. m \in 1..(Len(q) + 1) /\ Len(q) - m + 1 <= Size
  BY <1>1
<1> HIDE DEF m
<1>3. \A i \in m..Len(q) : q[i] \in Nat
  BY <1>1, <1>2, ElementOfSeq
<1>4. /\ SubSeq(q, m, Len(q)) \in Seq(Nat)
      /\ Len(SubSeq(q, m, Len(q))) =
            IF m <= Len(q) THEN Len(q) - m + 1 ELSE 0
  <2>1. m \in Int /\ Len(q) \in Int
    BY <1>1, <1>2
  <2> QED
    BY <1>3, <2>1, SubSeqProperties
<1> QED
  BY <1>1, <1>2, <1>4 DEF KeepNewest, m

--------------------------------------------------------------------------------
(* Type correctness. *)

\* A registered reader has an identifier of the model.
LEMMA RegisteredIds ==
    ASSUME TypeOK, NEW id \in DOMAIN readers
    PROVE  id \in ReaderIds /\ id \in Nat /\ id < nextID
BY SizesAssumption DEF TypeOK, ReaderIds

\* A returning Read keeps the types.
LEMMA FinishType ==
    ASSUME TypeOK, NEW t \in Callers, NEW id, rid' \in [Callers -> Nat],
           NEW r \in {"none", "data", "eof", "errReader"},
           r = "data" => id \in DOMAIN readers,
           Finish(t, id, r)
    PROVE  TypeOK'
<1>1. ret' \in [Callers -> {"none", "data", "eof", "errReader"}]
  BY DEF Finish, TypeOK
<1>2. pc' \in [Callers -> Locations]
  BY DEF Finish, TypeOK, Locations
<1>3. due' \in [Callers -> BOOLEAN]
  BY DEF Finish, TypeOK
<1>4. timer' \in [Callers -> {"off", "armed", "stale"}]
  BY DEF Finish, TypeOK, Stopped
<1>5. /\ mu' \in Callers \cup {NoCaller} /\ closed' \in BOOLEAN
      /\ nextID' \in 0..MaxReaders /\ wrote' \in Nat /\ nextID' = nextID
  BY DEF Finish, TypeOK
<1>6. /\ DOMAIN readers' = DOMAIN readers
      /\ readers' \in [DOMAIN readers -> Seq(Nat)]
      /\ \A x \in DOMAIN readers : Len(readers'[x]) <= Size
      /\ got' \in [ReaderIds -> Seq(Nat)]
  <2>1. CASE r = "data"
    <3>1. id \in ReaderIds /\ readers[id] \in Seq(Nat) /\ got[id] \in Seq(Nat)
      BY <2>1, RegisteredIds DEF TypeOK
    <3>2. /\ got' = [got EXCEPT ![id] = @ \o readers[id]]
          /\ readers' = [readers EXCEPT ![id] = <<>>]
      BY <2>1 DEF Finish, Drain
    <3>3. got[id] \o readers[id] \in Seq(Nat)
      BY <3>1, ConcatProperties
    <3>4. got' \in [ReaderIds -> Seq(Nat)]
      BY <3>1, <3>2, <3>3 DEF TypeOK
    <3>5. <<>> \in Seq(Nat) /\ Len(<<>>) <= Size
      BY EmptySeq, SizesAssumption
    <3> QED
      BY <3>2, <3>4, <3>5 DEF TypeOK
  <2>2. CASE r # "data"
    BY <2>2 DEF Finish, TypeOK
  <2> QED
    BY <2>1, <2>2
<1> QED
  BY <1>1, <1>2, <1>3, <1>4, <1>5, <1>6 DEF TypeOK

\* So do the steps that only move callers between locations.
LEMMA AwakenedType ==
    ASSUME NEW p \in [Callers -> Locations]
    PROVE  Awakened(p) \in [Callers -> Locations]
BY DEF Awakened, Locations

\* TypeOK is inductive.
LEMMA TypeStep == TypeOK /\ [Next]_vars => TypeOK'
<1> SUFFICES ASSUME TypeOK, [Next]_vars PROVE TypeOK'
  OBVIOUS
<1> USE DEF bufferVars, readVars
<1>1. CASE UNCHANGED vars
  BY <1>1 DEF vars, TypeOK
<1>2. ASSUME NEW t \in Callers, NewReader(t) PROVE TypeOK'
  <2>1. /\ DOMAIN readers' = DOMAIN readers \cup {nextID}
        /\ \A x \in DOMAIN readers' :
              readers'[x] \in Seq(Nat) /\ Len(readers'[x]) <= Size
    <3>1. <<>> \in Seq(Nat) /\ Len(<<>>) <= Size
      BY EmptySeq, SizesAssumption
    <3> QED
      BY <1>2, <3>1 DEF NewReader, TypeOK
  <2>2. readers' \in [DOMAIN readers' -> Seq(Nat)]
    BY <1>2, <2>1 DEF NewReader
  <2>3. nextID' \in 0..MaxReaders /\ DOMAIN readers' \in SUBSET (0..(nextID' - 1))
    BY SMTT(30), <1>2, <2>1, SizesAssumption DEF NewReader, TypeOK, ReaderIds
  <2> QED
    BY <1>2, <2>1, <2>2, <2>3 DEF NewReader, TypeOK
<1>3. ASSUME NEW t \in Callers, NEW id \in ReaderIds, Unregister(t, id)
      PROVE  TypeOK'
  BY <1>3 DEF Unregister, TypeOK, Locations
<1>4. ASSUME NEW t \in Callers, Close(t) PROVE TypeOK'
  BY <1>4 DEF Close, TypeOK, Locations
<1>5. ASSUME NEW t \in Callers, Broadcast(t) PROVE TypeOK'
  <2>1. [pc EXCEPT ![t] = "idle"] \in [Callers -> Locations]
    BY DEF TypeOK, Locations
  <2>2. pc' \in [Callers -> Locations]
    BY <1>5, <2>1, AwakenedType DEF Broadcast
  <2> QED
    BY <1>5, <2>2 DEF Broadcast, TypeOK
<1>6. ASSUME NEW t \in Callers, NEW n \in 1..MaxChunk, Write(t, n) PROVE TypeOK'
  <2>1. n \in Nat /\ wrote \in Nat /\ wrote + n \in Nat
    BY SizesAssumption DEF TypeOK
  <2>2. ASSUME NEW x \in DOMAIN readers
        PROVE  /\ KeepNewest(readers[x] \o Interval(wrote, wrote + n)) \in Seq(Nat)
               /\ Len(KeepNewest(readers[x] \o Interval(wrote, wrote + n))) <= Size
    <3>1. readers[x] \in Seq(Nat)
      BY DEF TypeOK
    <3>2. Interval(wrote, wrote + n) \in Seq(Nat)
      BY <2>1, IntervalProperties
    <3>3. readers[x] \o Interval(wrote, wrote + n) \in Seq(Nat)
      BY <3>1, <3>2, ConcatProperties
    <3> QED
      BY <3>3, KeepNewestType
  <2>3. /\ DOMAIN readers' = DOMAIN readers
        /\ readers' \in [DOMAIN readers -> Seq(Nat)]
        /\ \A x \in DOMAIN readers : Len(readers'[x]) <= Size
    BY <1>6, <2>2 DEF Write
  <2>4. pc' \in [Callers -> Locations]
    BY <1>6, AwakenedType DEF Write, TypeOK
  <2> QED
    BY <1>6, <2>1, <2>3, <2>4 DEF Write, TypeOK
<1>7. ASSUME NEW t \in Callers, NEW id \in ReaderIds, NEW blocking \in BOOLEAN,
             ReadBegin(t, id, blocking)
      PROVE  TypeOK'
  <2>1. rid' \in [Callers -> Nat]
    BY <1>7, SizesAssumption DEF ReadBegin, TypeOK, ReaderIds
  <2>2. CASE Finish(t, id, Outcome(id))
    BY <2>1, <2>2, FinishType DEF Outcome, HasMore
  <2>3. CASE EnterLoop(t)
    BY <2>1, <2>3 DEF EnterLoop, TypeOK, Locations
  <2> QED
    BY <1>7, <2>2, <2>3 DEF ReadBegin
<1>8. ASSUME NEW t \in Callers, ReadCheck(t) PROVE TypeOK'
  <2>1. rid' \in [Callers -> Nat]
    BY <1>8 DEF ReadCheck, TypeOK
  <2>2. CASE Finish(t, rid[t], Outcome(rid[t]))
    BY <2>1, <2>2, FinishType DEF Outcome, HasMore
  <2>3. CASE ~Finish(t, rid[t], Outcome(rid[t]))
    BY <1>8, <2>3 DEF ReadCheck, TypeOK, Locations
  <2> QED
    BY <2>2, <2>3
<1>9. ASSUME NEW t \in Callers, ReadWait(t) PROVE TypeOK'
  BY <1>9 DEF ReadWait, TypeOK, Locations
<1>10. ASSUME NEW t \in Callers, ReadWake(t) PROVE TypeOK'
  <2>1. CASE Finish(t, rid[t], "errReader") /\ UNCHANGED rid
    <3>1. rid' \in [Callers -> Nat]
      BY <2>1 DEF TypeOK
    <3> QED
      BY <2>1, <3>1, FinishType
  <2>2. CASE rid[t] \in DOMAIN readers
    BY <1>10, <2>2 DEF ReadWake, TypeOK, Locations
  <2> QED
    BY <1>10, <2>1, <2>2 DEF ReadWake
<1>11. ASSUME NEW t \in Callers, Expire(t) PROVE TypeOK'
  BY <1>11 DEF Expire, TypeOK
<1>12. ASSUME NEW t \in Callers, TimerFire(t) PROVE TypeOK'
  <2>1. pc' \in [Callers -> Locations]
    BY <1>12, AwakenedType DEF TimerFire, TypeOK
  <2> QED
    BY <1>12, <2>1 DEF TimerFire, TypeOK
<1>13. ASSUME NEW t \in Callers, TimerStop(t) PROVE TypeOK'
  <2>1. pc' \in [Callers -> Locations]
    BY <1>13, AwakenedType DEF TimerStop, TypeOK
  <2> QED
    BY <1>13, <2>1 DEF TimerStop, TypeOK
<1> QED
  BY <1>1, <1>2, <1>3, <1>4, <1>5, <1>6, <1>7, <1>8, <1>9, <1>10, <1>11, <1>12, <1>13
  DEF Next, Call, Progress, Timer

\* Every variable keeps its type, and no ring outgrows its capacity.
THEOREM TypeCorrect == Spec => []TypeOK
<1>1. ASSUME Init PROVE TypeOK
  <2>1. DOMAIN readers = {} /\ readers \in [DOMAIN readers -> Seq(Nat)]
    BY <1>1 DEF Init
  <2>2. got \in [ReaderIds -> Seq(Nat)]
    BY <1>1 DEF Init
  <2>3. nextID = 0 /\ wrote = 0 /\ MaxReaders \in Nat
    BY <1>1, SizesAssumption DEF Init
  <2>6. nextID \in 0..MaxReaders /\ wrote \in Nat
    BY <2>3
  <2>7. mu \in Callers \cup {NoCaller} /\ closed \in BOOLEAN
    BY <1>1 DEF Init
  <2>4. /\ pc \in [Callers -> Locations] /\ rid \in [Callers -> Nat]
        /\ due \in [Callers -> BOOLEAN]
        /\ timer \in [Callers -> {"off", "armed", "stale"}]
        /\ ret \in [Callers -> {"none", "data", "eof", "errReader"}]
    BY <1>1 DEF Init, Locations
  <2>5. /\ DOMAIN readers \in SUBSET (0..(nextID - 1))
        /\ \A id \in DOMAIN readers : Len(readers[id]) <= Size
    BY <2>1
  <2> QED
    BY <2>1, <2>2, <2>4, <2>5, <2>6, <2>7 DEF TypeOK
<1> QED
  BY <1>1, TypeStep, PTL DEF Spec

--------------------------------------------------------------------------------
(* The lock discipline of Read and the absence of lost wakeups.            *)
(*                                                                         *)
(* NoLostWakeup is not inductive: a reader that parks must have found      *)
(* nothing at the moment it parks, although it looked a step before.       *)
(* LoopHoldsLock supplies that: nobody can change what it found, since     *)
(* whoever writes, closes or unregisters needs the mutex it still holds.   *)

\* While the mutex is free, no Read is inside its loop.
LEMMA FreeMeansNoLoop ==
    ASSUME LoopHoldsLock, Free
    PROVE  \A t \in Callers : pc[t] \notin {"check", "wait"}
BY CallersAssumption DEF LoopHoldsLock, Free

\* A step after which the mutex is free and nobody is in the loop keeps the
\* discipline.
LEMMA LoopLeft ==
    ASSUME mu' = NoCaller, \A u \in Callers : pc'[u] \notin {"check", "wait"}
    PROVE  LoopHoldsLock'
BY CallersAssumption DEF LoopHoldsLock

\* Waking the sleepers moves nobody into or out of the loop, and leaves
\* nobody asleep.
LEMMA AwakenedLocations ==
    ASSUME NEW p \in [Callers -> Locations], NEW u \in Callers
    PROVE  /\ Awakened(p)[u] # "asleep"
           /\ \A l \in {"check", "wait"} : Awakened(p)[u] = l <=> p[u] = l
BY DEF Awakened

\* LoopHoldsLock is inductive relative to TypeOK.
LEMMA LoopStep == TypeOK /\ LoopHoldsLock /\ [Next]_vars => LoopHoldsLock'
<1> SUFFICES ASSUME TypeOK, LoopHoldsLock, [Next]_vars PROVE LoopHoldsLock'
  OBVIOUS
<1> USE DEF bufferVars, readVars
<1>p. pc \in [Callers -> Locations]
  BY DEF TypeOK
<1>1. CASE UNCHANGED vars
  BY <1>1 DEF vars, LoopHoldsLock, Outcome, HasMore
<1>2. ASSUME NEW t \in Callers, NewReader(t) PROVE LoopHoldsLock'
  BY <1>2, FreeMeansNoLoop, LoopLeft DEF NewReader, Free
<1>3. ASSUME NEW t \in Callers, NEW id \in ReaderIds, Unregister(t, id)
      PROVE  LoopHoldsLock'
  BY <1>3, <1>p, FreeMeansNoLoop, LoopLeft DEF Unregister, Free
<1>4. ASSUME NEW t \in Callers, Close(t) PROVE LoopHoldsLock'
  BY <1>4, <1>p, FreeMeansNoLoop, LoopLeft DEF Close, Free
<1>5. ASSUME NEW t \in Callers, Broadcast(t) PROVE LoopHoldsLock'
  <2>1. [pc EXCEPT ![t] = "idle"] \in [Callers -> Locations]
    BY <1>p DEF Locations
  <2>2. \A u \in Callers : \A l \in {"check", "wait"} :
            pc'[u] = l <=> pc[u] = l
    BY ZenonT(30), <1>5, <1>p, <2>1, AwakenedLocations DEF Broadcast
  <2> QED
    BY <1>5, <2>2 DEF Broadcast, LoopHoldsLock, Outcome, HasMore
<1>6. ASSUME NEW t \in Callers, NEW n \in 1..MaxChunk, Write(t, n)
      PROVE  LoopHoldsLock'
  <2>1. \A u \in Callers : pc'[u] \notin {"check", "wait"}
    BY <1>6, <1>p, FreeMeansNoLoop, AwakenedLocations DEF Write
  <2> QED
    BY <1>6, <2>1, LoopLeft DEF Write, Free
<1>7. ASSUME NEW t \in Callers, NEW id \in ReaderIds, NEW blocking \in BOOLEAN,
             ReadBegin(t, id, blocking)
      PROVE  LoopHoldsLock'
  <2>1. \A u \in Callers : pc[u] \notin {"check", "wait"}
    BY <1>7, FreeMeansNoLoop DEF ReadBegin
  <2>2. CASE Finish(t, id, Outcome(id))
    BY <1>p, <2>1, <2>2, LoopLeft DEF Finish
  <2>3. CASE EnterLoop(t) /\ Outcome(id) = "none"
    <3>1. /\ \A u \in Callers : pc'[u] = IF u = t THEN "check" ELSE pc[u]
          /\ mu' = t /\ rid'[t] = id /\ UNCHANGED readers
      BY <1>7, <1>p, <2>3 DEF EnterLoop, ReadBegin, TypeOK
    <3>2. id \in DOMAIN readers
      BY <2>3 DEF Outcome
    <3> QED
      BY <2>1, <3>1, <3>2 DEF LoopHoldsLock
  <2> QED
    BY <1>7, <2>2, <2>3 DEF ReadBegin
<1>8. ASSUME NEW t \in Callers, ReadCheck(t) PROVE LoopHoldsLock'
  <2>1. /\ mu = t
        /\ \A u \in Callers \ {t} : pc[u] \notin {"check", "wait"}
    BY <1>8 DEF ReadCheck, LoopHoldsLock
  <2>2. CASE Finish(t, rid[t], Outcome(rid[t]))
    <3>1. \A u \in Callers : pc'[u] \notin {"check", "wait"}
      BY <1>p, <2>1, <2>2 DEF Finish
    <3> QED
      BY <2>2, <3>1, LoopLeft DEF Finish
  <2>3. CASE ~Finish(t, rid[t], Outcome(rid[t]))
    <3>1. /\ Outcome(rid[t]) = "none" /\ pc' = [pc EXCEPT ![t] = "wait"]
          /\ UNCHANGED <<mu, closed, readers, rid>>
      BY <1>8, <2>3 DEF ReadCheck
    <3>2. \A u \in Callers : Outcome(rid[u])' = Outcome(rid[u])
      BY <3>1 DEF Outcome, HasMore
    <3> QED
      BY <1>p, <2>1, <3>1, <3>2 DEF LoopHoldsLock
  <2> QED
    BY <2>2, <2>3
<1>9. ASSUME NEW t \in Callers, ReadWait(t) PROVE LoopHoldsLock'
  <2>1. \A u \in Callers : pc'[u] \notin {"check", "wait"}
    BY <1>9, <1>p DEF ReadWait, LoopHoldsLock
  <2> QED
    BY <1>9, <2>1, LoopLeft DEF ReadWait
<1>10. ASSUME NEW t \in Callers, ReadWake(t) PROVE LoopHoldsLock'
  <2>1. \A u \in Callers : pc[u] \notin {"check", "wait"}
    BY <1>10, FreeMeansNoLoop DEF ReadWake
  <2>2. CASE Finish(t, rid[t], "errReader")
    BY <1>p, <2>1, <2>2, LoopLeft DEF Finish
  <2>3. CASE rid[t] \in DOMAIN readers
    BY <1>10, <1>p, <2>1, <2>3 DEF ReadWake, LoopHoldsLock
  <2> QED
    BY <1>10, <2>2, <2>3 DEF ReadWake
<1>11. ASSUME NEW t \in Callers, Expire(t) PROVE LoopHoldsLock'
  BY <1>11 DEF Expire, LoopHoldsLock, Outcome, HasMore
<1>12. ASSUME NEW t \in Callers, TimerFire(t) \/ TimerStop(t) PROVE LoopHoldsLock'
  <2>1. \A u \in Callers : \A l \in {"check", "wait"} :
            pc'[u] = l <=> pc[u] = l
    BY <1>12, <1>p, AwakenedLocations DEF TimerFire, TimerStop
  <2> QED
    BY <1>12, <2>1 DEF TimerFire, TimerStop, LoopHoldsLock, Outcome, HasMore
<1> QED
  BY <1>1, <1>2, <1>3, <1>4, <1>5, <1>6, <1>7, <1>8, <1>9, <1>10, <1>11, <1>12
  DEF Next, Call, Progress, Timer

\* A step that puts nobody to sleep, gives no sleeper a reason to return and
\* drops no pending broadcast loses no wakeup.
LEMMA NobodyForgotten ==
    ASSUME NoLostWakeup,
           \A u \in Callers : pc'[u] = "asleep" /\ Outcome(rid[u])' # "none"
                                 => pc[u] = "asleep" /\ Outcome(rid[u]) # "none",
           \A u \in Callers : pc[u] = "bcast" => pc'[u] = "bcast"
    PROVE  NoLostWakeup'
BY DEF NoLostWakeup

\* A step that leaves nobody asleep loses no wakeup.
LEMMA EverybodyAwake ==
    ASSUME \A u \in Callers : pc'[u] # "asleep"
    PROVE  NoLostWakeup'
BY DEF NoLostWakeup

\* Draining a ring gives nobody a reason to return, so a Read that finishes
\* keeps NoLostWakeup.
LEMMA FinishWakeup ==
    ASSUME TypeOK, NoLostWakeup, NEW t \in Callers, NEW id, NEW r,
           pc[t] \notin {"asleep", "bcast"},
           r = "data" => id \in DOMAIN readers,
           \A u \in Callers \ {t} : rid'[u] = rid[u],
           Finish(t, id, r)
    PROVE  NoLostWakeup'
<1>1. \A u \in Callers : pc'[u] = IF u = t THEN "idle" ELSE pc[u]
  BY DEF Finish, TypeOK
<1>2. closed' = closed /\ DOMAIN readers' = DOMAIN readers
  BY DEF Finish, Drain
<1>3. \A x \in DOMAIN readers : readers'[x] # <<>> => readers[x] # <<>>
  BY DEF Finish, Drain
<1>4. ASSUME NEW u \in Callers \ {t}, Outcome(rid[u])' # "none"
      PROVE  Outcome(rid[u]) # "none"
  BY <1>2, <1>3, <1>4 DEF Outcome, HasMore
<1> QED
  BY <1>1, <1>4, NobodyForgotten

\* NoLostWakeup is inductive relative to the other two.
LEMMA WakeupStep ==
    TypeOK /\ LoopHoldsLock /\ NoLostWakeup /\ [Next]_vars => NoLostWakeup'
<1> SUFFICES ASSUME TypeOK, LoopHoldsLock, NoLostWakeup, [Next]_vars
             PROVE  NoLostWakeup'
  OBVIOUS
<1> USE DEF bufferVars, readVars
<1>p. pc \in [Callers -> Locations]
  BY DEF TypeOK
<1>1. CASE UNCHANGED vars
  BY <1>1 DEF vars, NoLostWakeup, Outcome, HasMore
<1>2. ASSUME NEW t \in Callers, NewReader(t) PROVE NoLostWakeup'
  <2>1. /\ DOMAIN readers' = DOMAIN readers \cup {nextID}
        /\ \A x \in DOMAIN readers' :
              readers'[x] = IF x = nextID THEN <<>> ELSE readers[x]
        /\ UNCHANGED <<closed, rid, pc>> /\ ~closed
    BY <1>2 DEF NewReader
  <2>2. ASSUME NEW u \in Callers, Outcome(rid[u])' # "none"
        PROVE  Outcome(rid[u]) # "none"
    BY <2>1, <2>2 DEF Outcome, HasMore
  <2> QED
    BY <2>1, <2>2, NobodyForgotten
<1>3. ASSUME NEW t \in Callers, NEW id \in ReaderIds, Unregister(t, id)
      PROVE  NoLostWakeup'
  BY <1>3, <1>p DEF Unregister, NoLostWakeup
<1>4. ASSUME NEW t \in Callers, Close(t) PROVE NoLostWakeup'
  BY <1>4, <1>p DEF Close, NoLostWakeup
<1>5. ASSUME NEW t \in Callers, Broadcast(t) PROVE NoLostWakeup'
  <2>1. [pc EXCEPT ![t] = "idle"] \in [Callers -> Locations]
    BY <1>p DEF Locations
  <2> QED
    BY <1>5, <2>1, AwakenedLocations, EverybodyAwake DEF Broadcast
<1>6. ASSUME NEW t \in Callers, NEW n \in 1..MaxChunk, Write(t, n)
      PROVE  NoLostWakeup'
  BY <1>6, <1>p, AwakenedLocations, EverybodyAwake DEF Write
<1>7. ASSUME NEW t \in Callers, NEW id \in ReaderIds, NEW blocking \in BOOLEAN,
             ReadBegin(t, id, blocking)
      PROVE  NoLostWakeup'
  <2>1. /\ pc[t] = "idle" /\ \A u \in Callers \ {t} : rid'[u] = rid[u]
    BY <1>7 DEF ReadBegin, TypeOK
  <2>2. CASE Finish(t, id, Outcome(id))
    BY <2>1, <2>2, FinishWakeup DEF Outcome, HasMore
  <2>3. CASE EnterLoop(t)
    <3>1. /\ \A u \in Callers : pc'[u] = IF u = t THEN "check" ELSE pc[u]
          /\ UNCHANGED <<closed, readers>>
      BY <1>p, <2>3 DEF EnterLoop
    <3>2. \A u \in Callers \ {t} : Outcome(rid[u])' = Outcome(rid[u])
      BY <2>1, <3>1 DEF Outcome, HasMore
    <3> QED
      BY <2>1, <3>1, <3>2, NobodyForgotten
  <2> QED
    BY <1>7, <2>2, <2>3 DEF ReadBegin
<1>8. ASSUME NEW t \in Callers, ReadCheck(t) PROVE NoLostWakeup'
  <2>1. CASE Finish(t, rid[t], Outcome(rid[t]))
    BY <1>8, <2>1, FinishWakeup DEF ReadCheck, Outcome, HasMore
  <2>2. CASE ~Finish(t, rid[t], Outcome(rid[t]))
    <3>1. /\ \A u \in Callers : pc'[u] = IF u = t THEN "wait" ELSE pc[u]
          /\ pc[t] = "check" /\ UNCHANGED <<closed, readers, rid>>
      BY <1>8, <1>p, <2>2 DEF ReadCheck
    <3>2. \A u \in Callers : Outcome(rid[u])' = Outcome(rid[u])
      BY <3>1 DEF Outcome, HasMore
    <3> QED
      BY <3>1, <3>2, NobodyForgotten
  <2> QED
    BY <2>1, <2>2
<1>9. ASSUME NEW t \in Callers, ReadWait(t) PROVE NoLostWakeup'
  <2>1. /\ \A u \in Callers : pc'[u] = IF u = t THEN "asleep" ELSE pc[u]
        /\ pc[t] = "wait" /\ UNCHANGED <<closed, readers, rid>>
    BY <1>9, <1>p DEF ReadWait
  <2>2. \A u \in Callers : Outcome(rid[u])' = Outcome(rid[u])
    BY <2>1 DEF Outcome, HasMore
  <2>3. Outcome(rid[t]) = "none"
    BY <2>1 DEF LoopHoldsLock
  <2> QED
    BY <2>1, <2>2, <2>3, NobodyForgotten
<1>10. ASSUME NEW t \in Callers, ReadWake(t) PROVE NoLostWakeup'
  <2>1. CASE Finish(t, rid[t], "errReader") /\ UNCHANGED rid
    BY <1>10, <2>1, FinishWakeup DEF ReadWake
  <2>2. CASE rid[t] \in DOMAIN readers
    <3>1. /\ \A u \in Callers : pc'[u] = IF u = t THEN "check" ELSE pc[u]
          /\ pc[t] = "woken" /\ UNCHANGED <<closed, readers, rid>>
      BY <1>10, <1>p, <2>2 DEF ReadWake
    <3>2. \A u \in Callers : Outcome(rid[u])' = Outcome(rid[u])
      BY <3>1 DEF Outcome, HasMore
    <3> QED
      BY <3>1, <3>2, NobodyForgotten
  <2> QED
    BY <1>10, <2>1, <2>2 DEF ReadWake
<1>11. ASSUME NEW t \in Callers, Expire(t) PROVE NoLostWakeup'
  BY <1>11 DEF Expire, NoLostWakeup, Outcome, HasMore
<1>12. ASSUME NEW t \in Callers, TimerFire(t) PROVE NoLostWakeup'
  BY <1>12, <1>p, AwakenedLocations, EverybodyAwake DEF TimerFire
<1>13. ASSUME NEW t \in Callers, TimerStop(t) PROVE NoLostWakeup'
  <2>1. CASE pc' = pc
    BY <1>13, <2>1 DEF TimerStop, NoLostWakeup, Outcome, HasMore
  <2>2. CASE pc' = Awakened(pc)
    BY <1>p, <2>2, AwakenedLocations, EverybodyAwake
  <2> QED
    BY <1>13, <2>1, <2>2 DEF TimerStop
<1> QED
  BY <1>1, <1>2, <1>3, <1>4, <1>5, <1>6, <1>7, <1>8, <1>9, <1>10, <1>11, <1>12, <1>13
  DEF Next, Call, Progress, Timer

\* Between the test of the loop and parking, a Read has the buffer to itself.
THEOREM LockDiscipline == Spec => []LoopHoldsLock
<1>1. ASSUME Init PROVE LoopHoldsLock
  <2>1. \A t \in Callers : pc[t] = "idle" /\ mu # t
    BY <1>1, CallersAssumption DEF Init
  <2> QED
    BY <2>1 DEF LoopHoldsLock
<1>2. TypeOK /\ LoopHoldsLock /\ [Next]_vars => LoopHoldsLock'
  BY LoopStep
<1> QED
  BY <1>1, <1>2, TypeCorrect, PTL DEF Spec

\* No caller sleeps through data, end of file or the loss of its reader.
THEOREM WakeupsAreNotLost == Spec => []NoLostWakeup
<1>1. Init => NoLostWakeup
  BY DEF Init, NoLostWakeup
<1>2. TypeOK /\ LoopHoldsLock /\ NoLostWakeup /\ [Next]_vars => NoLostWakeup'
  BY WakeupStep
<1> QED
  BY <1>1, <1>2, TypeCorrect, LockDiscipline, PTL DEF Spec

--------------------------------------------------------------------------------
(* The contents of the rings and what callers were handed.                 *)

\* A returning Read changes the contents of a ring only by emptying it, and
\* then hands its contents over.
LEMMA FinishData ==
    ASSUME TypeOK, NEW t \in Callers, NEW id, NEW r,
           r = "data" => id \in DOMAIN readers,
           Finish(t, id, r)
    PROVE  /\ UNCHANGED <<wrote, nextID, closed>>
           /\ DOMAIN readers' = DOMAIN readers
           /\ \/ UNCHANGED <<readers, got>>
              \/ /\ id \in DOMAIN readers /\ id \in ReaderIds
                 /\ readers' = [readers EXCEPT ![id] = <<>>]
                 /\ got' = [got EXCEPT ![id] = @ \o readers[id]]
BY RegisteredIds DEF Finish, Drain, TypeOK

\* An empty ring holds the newest bytes trivially.
LEMMA EmptyInterval ==
    ASSUME NEW w \in Nat
    PROVE  <<>> = Interval(w - Len(<<>>), w) /\ Len(<<>>) = 0
<1>1. Interval(w, w) \in Seq(Nat) /\ Len(Interval(w, w)) = 0
  BY IntervalProperties
<1>2. Interval(w, w) = <<>>
  BY <1>1, EmptySeq
<1> QED
  BY <1>2

\* RingsHoldNewest is inductive relative to TypeOK.
LEMMA RingsStep == TypeOK /\ RingsHoldNewest /\ [Next]_vars => RingsHoldNewest'
<1> SUFFICES ASSUME TypeOK, RingsHoldNewest, [Next]_vars PROVE RingsHoldNewest'
  OBVIOUS
<1> USE DEF bufferVars, readVars
<1>w. wrote \in Nat
  BY DEF TypeOK
<1>1. CASE UNCHANGED <<readers, wrote>>
  BY <1>1 DEF RingsHoldNewest
<1>2. ASSUME NEW t \in Callers, NewReader(t) PROVE RingsHoldNewest'
  <2>1. /\ wrote' = wrote
        /\ \A x \in DOMAIN readers' :
              \/ readers'[x] = <<>>
              \/ x \in DOMAIN readers /\ readers'[x] = readers[x]
    BY <1>2 DEF NewReader
  <2> QED
    BY <1>w, <2>1, EmptyInterval DEF RingsHoldNewest
<1>3. ASSUME NEW t \in Callers, NEW id \in ReaderIds, Unregister(t, id)
      PROVE  RingsHoldNewest'
  BY <1>3 DEF Unregister, RingsHoldNewest
<1>6. ASSUME NEW t \in Callers, NEW n \in 1..MaxChunk, Write(t, n)
      PROVE  RingsHoldNewest'
  <2>1. /\ n \in Nat /\ n > 0 /\ wrote' = wrote + n
        /\ DOMAIN readers' = DOMAIN readers
    BY <1>6, SizesAssumption DEF Write
  <2>2. ASSUME NEW x \in DOMAIN readers
        PROVE  /\ Len(readers'[x]) <= wrote'
               /\ readers'[x] = Interval(wrote' - Len(readers'[x]), wrote')
    <3> DEFINE a == wrote - Len(readers[x])
               k == readers'[x]
               b == wrote + n
               o == OldestKept(a, b)
    <3>1. a \in Nat /\ a <= wrote /\ readers[x] = Interval(a, wrote)
      BY <1>w, LenProperties DEF TypeOK, RingsHoldNewest
    <3>2. k = KeepNewest(readers[x] \o Interval(wrote, b))
      BY <1>6 DEF Write
    <3> HIDE DEF a, k
    <3>3. k = KeepNewest(Interval(a, wrote) \o Interval(wrote, b))
      BY <3>1, <3>2
    <3>4. b \in Nat /\ wrote <= b /\ a <= b
      BY <1>w, <2>1, <3>1
    <3>5. k = Interval(o, b) /\ Len(k) = b - o
      BY <1>w, <3>1, <3>3, <3>4, WriteKeepsNewest
    <3>6. o \in Nat /\ o <= b
      BY <3>1, <3>4, OldestKeptBounds
    <3> HIDE DEF b, o
    <3>7. Len(k) <= b /\ o = b - Len(k)
      BY <3>4, <3>5, <3>6
    <3>8. Len(k) <= b /\ k = Interval(b - Len(k), b)
      BY <3>5, <3>7
    <3> QED
      BY <2>1, <3>8 DEF b, k
  <2> QED
    BY <2>1, <2>2 DEF RingsHoldNewest
<1>7. ASSUME NEW t \in Callers, NEW id, NEW r,
             r = "data" => id \in DOMAIN readers, Finish(t, id, r)
      PROVE  RingsHoldNewest'
  <2>1. /\ wrote' = wrote /\ DOMAIN readers' = DOMAIN readers
        /\ \A x \in DOMAIN readers : readers'[x] \in {<<>>, readers[x]}
    BY <1>7, FinishData
  <2> QED
    BY <1>w, <2>1, EmptyInterval DEF RingsHoldNewest
<1>8. ASSUME NEW t \in Callers, NEW id \in ReaderIds, NEW blocking \in BOOLEAN,
             ReadBegin(t, id, blocking)
      PROVE  RingsHoldNewest'
  BY <1>1, <1>7, <1>8 DEF ReadBegin, EnterLoop, Outcome, HasMore
<1>9. ASSUME NEW t \in Callers, ReadCheck(t) PROVE RingsHoldNewest'
  BY <1>1, <1>7, <1>9 DEF ReadCheck, Outcome, HasMore
<1>10. ASSUME NEW t \in Callers, ReadWake(t) PROVE RingsHoldNewest'
  BY <1>1, <1>7, <1>10 DEF ReadWake
<1>11. ASSUME NEW t \in Callers,
              Close(t) \/ Broadcast(t) \/ ReadWait(t) \/ Timer(t)
       PROVE  RingsHoldNewest'
  BY <1>1, <1>11
  DEF Close, Broadcast, ReadWait, Timer, Expire, TimerFire, TimerStop
<1> QED
  BY <1>1, <1>2, <1>3, <1>6, <1>8, <1>9, <1>10, <1>11
  DEF Next, Call, Progress, vars

\* Every ring holds exactly the newest bytes its reader has not been handed.
THEOREM RingsAreNewest == Spec => []RingsHoldNewest
<1>1. Init => RingsHoldNewest
  BY DEF Init, RingsHoldNewest
<1>2. TypeOK /\ RingsHoldNewest /\ [Next]_vars => RingsHoldNewest'
  BY RingsStep
<1> QED
  BY <1>1, <1>2, TypeCorrect, PTL DEF Spec

\* Appending the interval a+1 .. w to increasing positions up to a gives
\* increasing positions up to w.
LEMMA AppendInterval ==
    ASSUME NEW g \in Seq(Nat), NEW a \in Nat, NEW w \in Nat, a <= w,
           \A i, j \in 1..Len(g) : i < j => g[i] < g[j],
           \A i \in 1..Len(g) : g[i] <= a
    PROVE  LET h == g \o Interval(a, w)
           IN  /\ \A i, j \in 1..Len(h) : i < j => h[i] < h[j]
               /\ \A i \in 1..Len(h) : h[i] <= w
<1> DEFINE v == Interval(a, w)
           h == g \o v
<1>1. /\ v \in Seq(Nat) /\ Len(v) = w - a
      /\ \A i \in 1..(w - a) : v[i] = a + i
  BY IntervalProperties
<1>2. Len(g) \in Nat /\ \A i \in 1..Len(g) : g[i] \in Nat
  BY LenProperties, ElementOfSeq
<1> HIDE DEF v
<1>3. /\ Len(h) = Len(g) + Len(v)
      /\ \A i \in 1..Len(g) + Len(v) :
            h[i] = IF i <= Len(g) THEN g[i] ELSE v[i - Len(g)]
  BY <1>1, ConcatProperties
<1> HIDE DEF h
<1>4. \A i \in 1..Len(h) :
          \/ i <= Len(g) /\ h[i] = g[i]
          \/ /\ i > Len(g) /\ i - Len(g) \in 1..(w - a)
             /\ h[i] = a + (i - Len(g))
  BY <1>1, <1>2, <1>3
<1>5. ASSUME NEW i \in 1..Len(h) PROVE h[i] <= w
  BY SMTT(30), <1>2, <1>3, <1>4, <1>5
<1>6. ASSUME NEW i \in 1..Len(h), NEW j \in 1..Len(h), i < j PROVE h[i] < h[j]
  <2>n. i \in Nat /\ j \in Nat /\ Len(g) \in Nat /\ Len(h) \in Nat
    BY <1>1, <1>2, <1>3
  <2>1. CASE j <= Len(g)
    <3>1. i \in 1..Len(g) /\ j \in 1..Len(g) /\ h[i] = g[i] /\ h[j] = g[j]
      BY <1>4, <1>6, <2>n, <2>1
    <3> QED
      BY <1>6, <3>1
  <2>2. CASE i <= Len(g) /\ j > Len(g)
    <3>1. i \in 1..Len(g) /\ h[i] = g[i] /\ h[j] = a + (j - Len(g))
      BY <1>4, <2>n, <2>2
    <3>2. g[i] \in Nat /\ g[i] <= a
      BY <1>2, <3>1
    <3> QED
      BY <2>n, <2>2, <3>1, <3>2
  <2>3. CASE i > Len(g)
    <3>1. h[i] = a + (i - Len(g)) /\ h[j] = a + (j - Len(g))
      BY <1>4, <1>6, <2>n, <2>3
    <3> QED
      BY <1>6, <2>n, <3>1
  <2> QED
    BY <2>n, <2>1, <2>2, <2>3
<1> QED
  BY <1>5, <1>6 DEF h, v

\* DeliveredInOrder is inductive relative to the contents of the rings.
LEMMA DeliveredStep ==
    TypeOK /\ RingsHoldNewest /\ RingsHoldNewest' /\ DeliveredInOrder /\ [Next]_vars
        => DeliveredInOrder'
<1> SUFFICES ASSUME TypeOK, RingsHoldNewest, RingsHoldNewest', DeliveredInOrder,
                    [Next]_vars
             PROVE  DeliveredInOrder'
  OBVIOUS
<1> USE DEF bufferVars, readVars
<1>w. /\ wrote \in Nat
      /\ \A x \in DOMAIN readers : readers[x] \in Seq(Nat) /\ Len(readers[x]) \in Nat
      /\ \A x \in ReaderIds :
            /\ Len(got[x]) \in Nat
            /\ \A i \in 1..Len(got[x]) : got[x][i] \in Nat
  BY LenProperties, ElementOfSeq DEF TypeOK
<1>1. CASE UNCHANGED <<readers, wrote, got>>
  BY <1>1 DEF DeliveredInOrder
<1>2. ASSUME NEW t \in Callers, NewReader(t) PROVE DeliveredInOrder'
  <2>1. /\ UNCHANGED <<wrote, got>>
        /\ \A x \in DOMAIN readers' :
              \/ readers'[x] = <<>>
              \/ x \in DOMAIN readers /\ readers'[x] = readers[x]
    BY <1>2 DEF NewReader
  <2>2. Len(<<>>) = 0
    OBVIOUS
  <2> QED
    BY <1>w, <2>1, <2>2 DEF DeliveredInOrder
<1>3. ASSUME NEW t \in Callers, NEW id \in ReaderIds, Unregister(t, id)
      PROVE  DeliveredInOrder'
  BY <1>3 DEF Unregister, DeliveredInOrder
<1>6. ASSUME NEW t \in Callers, NEW n \in 1..MaxChunk, Write(t, n)
      PROVE  DeliveredInOrder'
  <2>1. /\ n \in Nat /\ wrote' = wrote + n /\ got' = got
        /\ DOMAIN readers' = DOMAIN readers
    BY <1>6, SizesAssumption DEF Write
  <2>2. ASSUME NEW x \in DOMAIN readers
        PROVE  /\ Len(readers'[x]) \in Nat
               /\ wrote - Len(readers[x]) <= wrote' - Len(readers'[x])
    <3> DEFINE a == wrote - Len(readers[x])
               b == wrote + n
               k == readers'[x]
    <3>1. a \in Nat /\ a <= wrote /\ readers[x] = Interval(a, wrote)
      BY <1>w DEF RingsHoldNewest
    <3>2. k = KeepNewest(readers[x] \o Interval(wrote, b))
      BY <1>6 DEF Write
    <3> HIDE DEF a, k
    <3>3. k = KeepNewest(Interval(a, wrote) \o Interval(wrote, b))
      BY <3>1, <3>2
    <3>4. b \in Nat /\ wrote <= b /\ a <= b
      BY <1>w, <2>1, <3>1
    <3>5. Len(k) = b - OldestKept(a, b)
      BY <1>w, <3>1, <3>3, <3>4, WriteKeepsNewest
    <3>6. /\ OldestKept(a, b) \in Nat /\ OldestKept(a, b) <= b
          /\ a <= OldestKept(a, b)
      BY <3>1, <3>4, OldestKeptBounds
    <3> HIDE DEF b
    <3>7. Len(k) \in Nat /\ a <= b - Len(k)
      BY <3>1, <3>4, <3>5, <3>6
    <3> QED
      BY <2>1, <3>7 DEF a, b, k
  <2>3. ASSUME NEW x \in ReaderIds, NEW i \in 1..Len(got[x])
        PROVE  /\ got[x][i] <= wrote'
               /\ x \in DOMAIN readers => got[x][i] <= wrote' - Len(readers'[x])
    <3>1. got[x][i] \in Nat /\ got[x][i] <= wrote
      BY <1>w DEF DeliveredInOrder
    <3>2. x \in DOMAIN readers => got[x][i] <= wrote - Len(readers[x])
      BY DEF DeliveredInOrder
    <3>3. got[x][i] <= wrote'
      BY <1>w, <2>1, <3>1
    <3>4. ASSUME x \in DOMAIN readers PROVE got[x][i] <= wrote' - Len(readers'[x])
      <4>1. /\ wrote - Len(readers[x]) <= wrote' - Len(readers'[x])
            /\ got[x][i] <= wrote - Len(readers[x])
        BY <2>2, <3>2, <3>4
      <4>2. /\ got[x][i] \in Nat /\ Len(readers[x]) \in Nat /\ Len(readers'[x]) \in Nat
            /\ wrote \in Nat /\ wrote' \in Nat
        BY <1>w, <2>1, <2>2, <3>1, <3>4
      <4> QED
        BY SMTT(30), <4>1, <4>2
    <3> QED
      BY <3>3, <3>4
  <2> QED
    BY <2>1, <2>3 DEF DeliveredInOrder
<1>7. ASSUME NEW t \in Callers, NEW id, NEW r,
             r = "data" => id \in DOMAIN readers, Finish(t, id, r)
      PROVE  DeliveredInOrder'
  <2>1. CASE UNCHANGED <<readers, got>>
    BY <1>1, <1>7, <2>1, FinishData
  <2>2. CASE /\ id \in DOMAIN readers /\ id \in ReaderIds
             /\ readers' = [readers EXCEPT ![id] = <<>>]
             /\ got' = [got EXCEPT ![id] = @ \o readers[id]]
    <3>1. wrote' = wrote /\ DOMAIN readers' = DOMAIN readers
      BY <1>7, FinishData
    <3>2. \A x \in ReaderIds \ {id} :
              got'[x] = got[x] /\ (x \in DOMAIN readers => readers'[x] = readers[x])
      BY <2>2
    <3>3. /\ \A i, j \in 1..Len(got'[id]) : i < j => got'[id][i] < got'[id][j]
          /\ \A i \in 1..Len(got'[id]) : got'[id][i] <= wrote
      <4> DEFINE a == wrote - Len(readers[id])
                 g == got[id]
      <4>1. a \in Nat /\ a <= wrote /\ readers[id] = Interval(a, wrote)
        BY <1>w, <2>2 DEF RingsHoldNewest
      <4>2. got'[id] = g \o Interval(a, wrote)
        BY <2>2, <4>1 DEF TypeOK
      <4>3. /\ g \in Seq(Nat)
            /\ \A i, j \in 1..Len(g) : i < j => g[i] < g[j]
            /\ \A i \in 1..Len(g) : g[i] <= a
        BY <2>2 DEF TypeOK, DeliveredInOrder
      <4> HIDE DEF a, g
      <4> QED
        BY <1>w, <4>1, <4>2, <4>3, AppendInterval
    <3>4. readers'[id] = <<>> /\ Len(<<>>) = 0
      BY <2>2
    <3>5. ASSUME NEW x \in ReaderIds
          PROVE  /\ \A i, j \in 1..Len(got'[x]) : i < j => got'[x][i] < got'[x][j]
                 /\ \A i \in 1..Len(got'[x]) :
                       /\ got'[x][i] <= wrote
                       /\ x \in DOMAIN readers =>
                              got'[x][i] <= wrote - Len(readers'[x])
      <4>1. CASE x = id
        BY <1>w, <3>3, <3>4, <4>1
      <4>2. CASE x # id
        BY <3>2, <4>2 DEF DeliveredInOrder
      <4> QED
        BY <4>1, <4>2
    <3> QED
      BY <3>1, <3>5 DEF DeliveredInOrder
  <2> QED
    BY <1>7, <2>1, <2>2, FinishData
<1>8. ASSUME NEW t \in Callers, NEW id \in ReaderIds, NEW blocking \in BOOLEAN,
             ReadBegin(t, id, blocking)
      PROVE  DeliveredInOrder'
  BY <1>1, <1>7, <1>8 DEF ReadBegin, EnterLoop, Outcome, HasMore
<1>9. ASSUME NEW t \in Callers, ReadCheck(t) PROVE DeliveredInOrder'
  BY <1>1, <1>7, <1>9 DEF ReadCheck, Outcome, HasMore
<1>10. ASSUME NEW t \in Callers, ReadWake(t) PROVE DeliveredInOrder'
  BY <1>1, <1>7, <1>10 DEF ReadWake
<1>11. ASSUME NEW t \in Callers,
              Close(t) \/ Broadcast(t) \/ ReadWait(t) \/ Timer(t)
       PROVE  DeliveredInOrder'
  BY <1>1, <1>11
  DEF Close, Broadcast, ReadWait, Timer, Expire, TimerFire, TimerStop
<1> QED
  BY <1>1, <1>2, <1>3, <1>6, <1>8, <1>9, <1>10, <1>11
  DEF Next, Call, Progress, vars

\* No byte is handed out twice or out of order on one reader.
THEOREM DeliveryIsInOrder == Spec => []DeliveredInOrder
<1>1. ASSUME Init PROVE DeliveredInOrder
  <2>1. \A id \in ReaderIds : got[id] = <<>> /\ Len(<<>>) = 0
    BY <1>1 DEF Init
  <2> QED
    BY <2>1 DEF DeliveredInOrder
<1>2. TypeOK /\ RingsHoldNewest /\ RingsHoldNewest' /\ DeliveredInOrder /\ [Next]_vars
        => DeliveredInOrder'
  BY DeliveredStep
<1> QED
  BY <1>1, <1>2, TypeCorrect, RingsAreNewest, PTL DEF Spec

--------------------------------------------------------------------------------
(* End of file. *)

\* EOFIsFinal is inductive relative to TypeOK.
LEMMA EOFStep == TypeOK /\ EOFIsFinal /\ [Next]_vars => EOFIsFinal'
<1> SUFFICES ASSUME TypeOK, EOFIsFinal, [Next]_vars PROVE EOFIsFinal'
  OBVIOUS
<1> USE DEF bufferVars, readVars
<1>p. pc \in [Callers -> Locations]
  BY DEF TypeOK
\* Steps that change no ring, and let nobody out of a Read.
<1>1. ASSUME UNCHANGED <<readers, rid, ret>>, closed => closed',
             \A u \in Callers : InRead(u) => InRead(u)'
      PROVE  EOFIsFinal'
  BY <1>1 DEF EOFIsFinal, HasMore
\* Steps that need the buffer open.
<1>2. ASSUME ~closed, UNCHANGED ret,
             \A u \in Callers : InRead(u) => InRead(u)'
      PROVE  EOFIsFinal'
  BY <1>2 DEF EOFIsFinal
<1>3. ASSUME NEW t \in Callers, NEW id, NEW r,
             r = "data" => id \in DOMAIN readers,
             r = "eof" => closed /\ ~HasMore(rid'[t]),
             \A u \in Callers \ {t} : rid'[u] = rid[u],
             Finish(t, id, r)
      PROVE  EOFIsFinal'
  <2>1. /\ closed' = closed /\ DOMAIN readers' = DOMAIN readers
        /\ \A x \in DOMAIN readers : readers'[x] # <<>> => readers[x] # <<>>
    BY <1>3, FinishData
  <2>2. /\ \A u \in Callers : pc'[u] = IF u = t THEN "idle" ELSE pc[u]
        /\ \A u \in Callers : ret'[u] = IF u = t THEN r ELSE ret[u]
    BY <1>3 DEF Finish, TypeOK
  <2>3. ASSUME NEW u \in Callers, ret'[u] = "eof", ~InRead(u)'
        PROVE  closed /\ ~HasMore(rid'[u])
    BY <1>3, <2>2, <2>3 DEF EOFIsFinal, InRead
  <2> QED
    BY <2>1, <2>3 DEF EOFIsFinal, HasMore
<1>4. ASSUME NEW t \in Callers, NewReader(t) PROVE EOFIsFinal'
  BY <1>2, <1>4 DEF NewReader, InRead
<1>5. ASSUME NEW t \in Callers, NEW id \in ReaderIds, Unregister(t, id)
      PROVE  EOFIsFinal'
  <2>1. \A u \in Callers : InRead(u) => InRead(u)'
    BY <1>5, <1>p DEF Unregister, InRead
  <2> QED
    BY <1>5, <2>1 DEF Unregister, EOFIsFinal, HasMore
<1>6. ASSUME NEW t \in Callers, Close(t) PROVE EOFIsFinal'
  BY <1>1, <1>6, <1>p DEF Close, InRead
<1>7. ASSUME NEW p \in [Callers -> Locations], pc' = Awakened(p),
             \A u \in Callers : InRead(u) => p[u] = pc[u]
      PROVE  \A u \in Callers : InRead(u) => InRead(u)'
  BY <1>7 DEF Awakened, InRead
<1>8. ASSUME NEW t \in Callers, Broadcast(t) PROVE EOFIsFinal'
  <2> DEFINE p == [pc EXCEPT ![t] = "idle"]
  <2>1. /\ p \in [Callers -> Locations]
        /\ \A u \in Callers : InRead(u) => p[u] = pc[u]
    BY <1>8, <1>p DEF Broadcast, InRead, Locations
  <2>2. pc' = Awakened(p)
    BY <1>8 DEF Broadcast
  <2> HIDE DEF p
  <2>3. \A u \in Callers : InRead(u) => InRead(u)'
    BY <1>7, <2>1, <2>2
  <2> QED
    BY <1>1, <1>8, <2>3 DEF Broadcast
<1>9. ASSUME NEW t \in Callers, NEW n \in 1..MaxChunk, Write(t, n)
      PROVE  EOFIsFinal'
  BY <1>2, <1>7, <1>9, <1>p DEF Write
<1>10. ASSUME NEW t \in Callers, NEW id \in ReaderIds, NEW blocking \in BOOLEAN,
              ReadBegin(t, id, blocking)
       PROVE  EOFIsFinal'
  <2>1. /\ rid'[t] = id
        /\ \A u \in Callers \ {t} : rid'[u] = rid[u]
    BY <1>10 DEF ReadBegin, TypeOK
  <2>2. CASE Finish(t, id, Outcome(id))
    BY <1>3, <2>1, <2>2 DEF Outcome, HasMore
  <2>3. CASE EnterLoop(t)
    <3>1. \A u \in Callers : pc'[u] = IF u = t THEN "check" ELSE pc[u]
      BY <1>p, <2>3 DEF EnterLoop
    <3> QED
      BY <2>1, <2>3, <3>1 DEF EnterLoop, EOFIsFinal, InRead, HasMore
  <2> QED
    BY <1>10, <2>2, <2>3 DEF ReadBegin
<1>11. ASSUME NEW t \in Callers, ReadCheck(t) PROVE EOFIsFinal'
  <2>1. CASE Finish(t, rid[t], Outcome(rid[t]))
    BY <1>3, <1>11, <2>1 DEF ReadCheck, Outcome, HasMore
  <2>2. CASE ~Finish(t, rid[t], Outcome(rid[t]))
    BY <1>1, <1>11, <1>p, <2>2 DEF ReadCheck, InRead
  <2> QED
    BY <2>1, <2>2
<1>12. ASSUME NEW t \in Callers, ReadWait(t) PROVE EOFIsFinal'
  BY <1>1, <1>12, <1>p DEF ReadWait, InRead
<1>13. ASSUME NEW t \in Callers, ReadWake(t) PROVE EOFIsFinal'
  <2>1. CASE Finish(t, rid[t], "errReader") /\ UNCHANGED rid
    BY <1>3, <2>1
  <2>2. CASE rid[t] \in DOMAIN readers
    BY <1>1, <1>13, <1>p, <2>2 DEF ReadWake, InRead
  <2> QED
    BY <1>13, <2>1, <2>2 DEF ReadWake
<1>14. ASSUME NEW t \in Callers, Timer(t) PROVE EOFIsFinal'
  <2>1. \A u \in Callers : InRead(u) => InRead(u)'
    BY <1>7, <1>14, <1>p DEF Timer, Expire, TimerFire, TimerStop, InRead
  <2> QED
    BY <1>1, <1>14, <2>1 DEF Timer, Expire, TimerFire, TimerStop
<1>15. CASE UNCHANGED vars
  BY <1>1, <1>15 DEF vars, InRead
<1> QED
  BY <1>4, <1>5, <1>6, <1>8, <1>9, <1>10, <1>11, <1>12, <1>13, <1>14, <1>15
  DEF Next, Call, Progress

\* End of file is reported only when nothing is left and nothing can follow.
THEOREM EOFIsTheEnd == Spec => []EOFIsFinal
<1>1. Init => EOFIsFinal
  BY DEF Init, EOFIsFinal
<1>2. TypeOK /\ EOFIsFinal /\ [Next]_vars => EOFIsFinal'
  BY EOFStep
<1> QED
  BY <1>1, <1>2, TypeCorrect, PTL DEF Spec

--------------------------------------------------------------------------------
(* The buffer implements the shared log. *)

\* The abstract cursor of each registered reader.
Cursor == [id \in DOMAIN readers |-> wrote - Len(readers[id])]

\* A returning Read is a delivery, or invisible.
LEMMA FinishLog ==
    ASSUME TypeOK, RingsHoldNewest, NEW t \in Callers, NEW id, NEW r,
           r = "data" => id \in DOMAIN readers /\ readers[id] # <<>>,
           Finish(t, id, r)
    PROVE  [Log!LogNext]_(Log!logVars)
<1>1. /\ UNCHANGED <<wrote, nextID, closed>> /\ DOMAIN readers' = DOMAIN readers
  BY FinishData
<1>2. CASE UNCHANGED <<readers, got>>
  BY <1>1, <1>2 DEF Log!logVars
<1>3. CASE ~UNCHANGED <<readers, got>>
  <2>1. r = "data" /\ id \in DOMAIN readers /\ readers[id] # <<>>
    BY <1>3 DEF Finish
  <2>2. /\ id \in ReaderIds
        /\ readers' = [readers EXCEPT ![id] = <<>>]
        /\ got' = [got EXCEPT ![id] = @ \o readers[id]]
    BY <2>1, RegisteredIds DEF Finish, Drain
  <2>3. /\ wrote \in Nat /\ Len(readers[id]) \in Nat /\ Len(readers[id]) > 0
        /\ readers[id] = Interval(wrote - Len(readers[id]), wrote)
    BY <2>1, EmptySeq DEF TypeOK, RingsHoldNewest
  <2>4. Cursor[id] < wrote /\ id \in DOMAIN Cursor
    BY <2>1, <2>3 DEF Cursor
  <2>5. got' = [got EXCEPT ![id] = @ \o Log!Interval(Cursor[id], wrote)]
    BY <2>1, <2>2, <2>3 DEF Cursor, Interval, Log!Interval
  <2>6. Cursor' = [Cursor EXCEPT ![id] = wrote]
    <3>1. Len(<<>>) = 0
      OBVIOUS
    <3>2. \A x \in DOMAIN readers :
              readers'[x] = IF x = id THEN <<>> ELSE readers[x]
      BY <2>2
    <3>3. \A x \in DOMAIN readers :
              Cursor'[x] = IF x = id THEN wrote ELSE Cursor[x]
      BY <1>1, <2>3, <3>1, <3>2 DEF Cursor
    <3> QED
      BY <1>1, <3>3 DEF Cursor
  <2>7. Log!LogDeliver(id)
    BY <1>1, <2>4, <2>5, <2>6 DEF Log!LogDeliver, Cursor
  <2> QED
    BY <2>2, <2>7 DEF Log!LogNext, Log!ReaderIds, ReaderIds
<1> QED
  BY <1>2, <1>3

\* Every step of the buffer is a step of the log, or invisible in it.
LEMMA LogStep ==
    TypeOK /\ RingsHoldNewest /\ [Next]_vars => [Log!LogNext]_(Log!logVars)
<1> SUFFICES ASSUME TypeOK, RingsHoldNewest, [Next]_vars
             PROVE  [Log!LogNext]_(Log!logVars)
  OBVIOUS
<1> USE DEF bufferVars, readVars
<1>w. wrote \in Nat
  BY DEF TypeOK
<1>1. CASE UNCHANGED <<closed, nextID, readers, wrote, got>>
  BY <1>1 DEF Log!logVars
<1>2. ASSUME NEW t \in Callers, NewReader(t) PROVE Log!LogNext
  <2>1. Len(<<>>) = 0
    OBVIOUS
  <2>2. /\ DOMAIN Cursor' = DOMAIN Cursor \cup {nextID}
        /\ \A x \in DOMAIN readers' :
              Cursor'[x] = IF x = nextID THEN wrote ELSE Cursor[x]
    BY <1>2, <1>w, <2>1 DEF NewReader, Cursor
  <2>3. Cursor' = [id \in DOMAIN Cursor \cup {nextID} |->
                     IF id = nextID THEN wrote ELSE Cursor[id]]
    BY <2>2 DEF Cursor
  <2>4. Log!LogRegister
    BY <1>2, <2>3
    DEF NewReader, Log!LogRegister, Log!ReaderIds, ReaderIds, Cursor
  <2> QED
    BY <2>4 DEF Log!LogNext
<1>3. ASSUME NEW t \in Callers, NEW id \in ReaderIds, Unregister(t, id)
      PROVE  [Log!LogNext]_(Log!logVars)
  <2>1. CASE id \in DOMAIN readers
    <3>1. Cursor' = [other \in DOMAIN Cursor \ {id} |-> Cursor[other]]
      BY <1>3 DEF Unregister, Cursor
    <3>2. Log!LogUnregister(id)
      BY <1>3, <2>1, <3>1 DEF Unregister, Log!LogUnregister, Cursor
    <3> QED
      BY <3>2 DEF Log!LogNext, Log!ReaderIds, ReaderIds
  <2>2. CASE id \notin DOMAIN readers
    <3>1. readers' = readers
      BY SMTT(30), <1>3, <2>2 DEF Unregister, TypeOK
    <3> QED
      BY <1>1, <1>3, <3>1 DEF Unregister
  <2> QED
    BY <2>1, <2>2
<1>4. ASSUME NEW t \in Callers, Close(t) PROVE Log!LogNext
  BY <1>4 DEF Close, Log!LogClose, Log!LogNext
<1>6. ASSUME NEW t \in Callers, NEW n \in 1..MaxChunk, Write(t, n)
      PROVE  Log!LogNext
  <2>1. /\ n \in Nat /\ wrote' = wrote + n
        /\ DOMAIN readers' = DOMAIN readers
    BY <1>6, SizesAssumption DEF Write
  <2>2. ASSUME NEW x \in DOMAIN readers
        PROVE  wrote' - Len(readers'[x]) = Log!PushedBy(Cursor[x], wrote + n)
    <3> DEFINE a == wrote - Len(readers[x])
               b == wrote + n
               k == readers'[x]
    <3>1. a \in Nat /\ a <= wrote /\ readers[x] = Interval(a, wrote)
      BY <1>w, LenProperties DEF TypeOK, RingsHoldNewest
    <3>2. k = KeepNewest(readers[x] \o Interval(wrote, b))
      BY <1>6 DEF Write
    <3>c. Cursor[x] = a
      BY DEF Cursor
    <3> HIDE DEF a, k
    <3>3. k = KeepNewest(Interval(a, wrote) \o Interval(wrote, b))
      BY <3>1, <3>2
    <3>4. b \in Nat /\ wrote <= b /\ a <= b
      BY <1>w, <2>1, <3>1
    <3>5. Len(k) = b - OldestKept(a, b)
      BY <1>w, <3>1, <3>3, <3>4, WriteKeepsNewest
    <3>6. OldestKept(a, b) \in Nat
      BY <3>1, <3>4, OldestKeptBounds
    <3> HIDE DEF b
    <3>7. b - Len(k) = OldestKept(a, b)
      BY <3>4, <3>5, <3>6
    <3>8. OldestKept(a, b) = Log!PushedBy(a, b)
      BY <3>1, <3>4, SizesAssumption DEF OldestKept, Log!PushedBy
    <3> QED
      BY <2>1, <3>7, <3>8, <3>c DEF b, k
  <2>3. Cursor' = [id \in DOMAIN Cursor |-> Log!PushedBy(Cursor[id], wrote + n)]
    BY <2>1, <2>2 DEF Cursor
  <2>4. Log!LogWrite(n)
    BY <1>6, <2>3 DEF Write, Log!LogWrite, Cursor
  <2> QED
    BY <2>4 DEF Log!LogNext
<1>7. ASSUME NEW t \in Callers, NEW id \in ReaderIds, NEW blocking \in BOOLEAN,
             ReadBegin(t, id, blocking)
      PROVE  [Log!LogNext]_(Log!logVars)
  BY <1>1, <1>7, FinishLog DEF ReadBegin, EnterLoop, Outcome, HasMore
<1>8. ASSUME NEW t \in Callers, ReadCheck(t) PROVE [Log!LogNext]_(Log!logVars)
  BY <1>1, <1>8, FinishLog DEF ReadCheck, Outcome, HasMore
<1>9. ASSUME NEW t \in Callers, ReadWake(t) PROVE [Log!LogNext]_(Log!logVars)
  BY <1>1, <1>9, FinishLog DEF ReadWake
<1>10. ASSUME NEW t \in Callers, Broadcast(t) \/ ReadWait(t) \/ Timer(t)
       PROVE  [Log!LogNext]_(Log!logVars)
  BY <1>1, <1>10 DEF Broadcast, ReadWait, Timer, Expire, TimerFire, TimerStop
<1> QED
  BY <1>1, <1>2, <1>3, <1>4, <1>6, <1>7, <1>8, <1>9, <1>10
  DEF Next, Call, Progress, vars

\* The buffer implements the shared log, for every instance.
THEOREM BufferImplementsLog == Spec => ImplementsLog
<1>1. ASSUME Init PROVE Log!LogInit
  <2>1. Cursor = [id \in {} |-> 0]
    BY <1>1 DEF Init, Cursor
  <2> QED
    BY <1>1, <2>1 DEF Init, Log!LogInit, Log!ReaderIds, ReaderIds, Cursor
<1>2. TypeOK /\ RingsHoldNewest /\ [Next]_vars => [Log!LogNext]_(Log!logVars)
  BY LogStep
<1> QED
  BY <1>1, <1>2, TypeCorrect, RingsAreNewest, PTL DEF Spec, ImplementsLog, Log!LogSpec
================================================================================
