---------------------------- MODULE ToolCallsProofs ----------------------------
(***************************************************************************)
(* Proofs about ToolCalls, for every number of agents, readers, lines and  *)
(* calls, every buffer size and all values of max_lines and rows.          *)
(***************************************************************************)
EXTENDS ToolCalls, SequenceTheorems, FiniteSetTheorems, TLAPS

--------------------------------------------------------------------------------
(* Intervals of the log. *)

\* The positions a+1 .. b, in order.
LEMMA IntervalType ==
    ASSUME NEW a \in Nat, NEW b \in Nat, a <= b
    PROVE  /\ Interval(a, b) \in Seq((a + 1)..b) /\ Len(Interval(a, b)) = b - a
           /\ \A i \in 1..(b - a) : Interval(a, b)[i] = a + i
           /\ DOMAIN Interval(a, b) = 1..(b - a)
           /\ ToSet(Interval(a, b)) = (a + 1)..b
<1>1. b - a \in Nat /\ \A i \in 1..(b - a) : a + i \in (a + 1)..b
  OBVIOUS
<1>2. Interval(a, b) \in [1..(b - a) -> (a + 1)..b]
  BY <1>1 DEF Interval
<1>3. Interval(a, b) \in Seq((a + 1)..b)
  BY <1>1, <1>2, SeqDef
<1>4. Len(Interval(a, b)) = b - a
  BY <1>1, <1>2, <1>3, LenProperties
<1>5. \A i \in 1..(b - a) : Interval(a, b)[i] = a + i
  BY DEF Interval
<1>6. \A l \in (a + 1)..b : l - a \in 1..(b - a) /\ Interval(a, b)[l - a] = l
  BY <1>5
<1> QED
  BY <1>1, <1>2, <1>3, <1>4, <1>5, <1>6 DEF ToSet

\* What max_lines leaves of some lines is the beginning of them.
LEMMA CutType ==
    ASSUME NEW S, NEW s \in Seq(S), NEW max \in Nat
    PROVE  /\ Cut(s, max) \in Seq(S) /\ ToSet(Cut(s, max)) \subseteq ToSet(s)
           /\ InOrder(s) => InOrder(Cut(s, max))
<1> DEFINE kept == Cut(s, max)
<1>1. Len(s) \in Nat /\ DOMAIN s = 1..Len(s) /\ \A i \in 1..Len(s) : s[i] \in S
  BY LenProperties, ElementOfSeq
<1>2. CASE max = 0 \/ Len(s) <= max
  <2>1. kept = s
    BY <1>2 DEF Cut
  <2> QED
    BY <2>1
<1>3. CASE ~(max = 0 \/ Len(s) <= max)
  <2>1. kept = SubSeq(s, 1, max) /\ max < Len(s)
    BY <1>1, <1>3 DEF Cut
  <2>2. \A i \in 1..max : s[i] \in S
    BY <1>1, <2>1
  <2>3. /\ kept \in Seq(S) /\ Len(kept) = max
        /\ \A i \in 1..max : kept[i] = s[1 + i - 1]
    BY <1>3, <2>1, <2>2, SubSeqProperties
  <2>4. DOMAIN kept = 1..max /\ \A i \in 1..max : kept[i] = s[i] /\ i \in 1..Len(s)
    BY <1>1, <2>1, <2>3, LenProperties
  <2>5. ToSet(kept) \subseteq ToSet(s)
    BY <1>1, <2>4 DEF ToSet
  <2>6. InOrder(s) => InOrder(kept)
    BY <2>3, <2>4 DEF InOrder
  <2> QED
    BY <2>3, <2>5, <2>6
<1> QED
  BY <1>2, <1>3

\* The elements of two sequences, one behind the other.
LEMMA ConcatSet ==
    ASSUME NEW S, NEW s \in Seq(S), NEW t \in Seq(S)
    PROVE  ToSet(s \o t) = ToSet(s) \cup ToSet(t)
<1>1. /\ Len(s) \in Nat /\ Len(t) \in Nat
      /\ DOMAIN s = 1..Len(s) /\ DOMAIN t = 1..Len(t)
      /\ DOMAIN (s \o t) = 1..(Len(s) + Len(t))
      /\ \A i \in 1..(Len(s) + Len(t)) :
            (s \o t)[i] = IF i <= Len(s) THEN s[i] ELSE t[i - Len(s)]
  <2>1. s \o t \in Seq(S) /\ Len(s \o t) = Len(s) + Len(t)
    BY ConcatProperties
  <2> QED
    BY <2>1, ConcatProperties, LenProperties
<1>2. ASSUME NEW i \in DOMAIN s PROVE s[i] \in ToSet(s \o t)
  <2>1. i \in DOMAIN (s \o t) /\ (s \o t)[i] = s[i]
    BY <1>1
  <2> QED
    BY <2>1 DEF ToSet
<1>3. ASSUME NEW i \in DOMAIN t PROVE t[i] \in ToSet(s \o t)
  <2>1. Len(s) + i \in 1..(Len(s) + Len(t)) /\ ~(Len(s) + i <= Len(s))
        /\ Len(s) + i - Len(s) = i
    BY <1>1
  <2>2. Len(s) + i \in DOMAIN (s \o t) /\ (s \o t)[Len(s) + i] = t[i]
    BY <1>1, <2>1
  <2> QED
    BY <2>2 DEF ToSet
<1>4. ASSUME NEW i \in DOMAIN (s \o t) PROVE (s \o t)[i] \in ToSet(s) \cup ToSet(t)
  <2>1. CASE i <= Len(s)
    BY <1>1, <2>1 DEF ToSet
  <2>2. CASE ~(i <= Len(s))
    <3>1. i - Len(s) \in DOMAIN t /\ (s \o t)[i] = t[i - Len(s)]
      BY <1>1, <2>2
    <3> QED
      BY <3>1 DEF ToSet
  <2> QED
    BY <2>1, <2>2
<1> QED
  BY <1>2, <1>3, <1>4 DEF ToSet

\* Lines in order, followed by later lines in order, are in order.
LEMMA ConcatInOrder ==
    ASSUME NEW s \in Seq(Nat), NEW t \in Seq(Nat), NEW c \in Nat, InOrder(s), InOrder(t),
           \A l \in ToSet(s) : l <= c, \A l \in ToSet(t) : c < l
    PROVE  InOrder(s \o t)
<1>1. /\ Len(s) \in Nat /\ Len(t) \in Nat /\ Len(s \o t) = Len(s) + Len(t)
      /\ \A i \in 1..Len(s) : s[i] \in Nat /\ s[i] <= c
      /\ \A i \in 1..Len(t) : t[i] \in Nat /\ c < t[i]
      /\ \A i \in 1..(Len(s) + Len(t)) :
            (s \o t)[i] = IF i <= Len(s) THEN s[i] ELSE t[i - Len(s)]
  <2>1. /\ Len(s) \in Nat /\ Len(t) \in Nat /\ Len(s \o t) = Len(s) + Len(t)
        /\ \A i \in 1..(Len(s) + Len(t)) :
              (s \o t)[i] = IF i <= Len(s) THEN s[i] ELSE t[i - Len(s)]
    BY ConcatProperties, LenProperties
  <2>2. /\ DOMAIN s = 1..Len(s) /\ DOMAIN t = 1..Len(t)
        /\ \A i \in 1..Len(s) : s[i] \in Nat
        /\ \A i \in 1..Len(t) : t[i] \in Nat
    BY LenProperties, ElementOfSeq
  <2>3. \A i \in 1..Len(s) : s[i] <= c
    BY <2>2 DEF ToSet
  <2>4. \A i \in 1..Len(t) : c < t[i]
    BY <2>2 DEF ToSet
  <2> QED
    BY <2>1, <2>2, <2>3, <2>4
<1>2. ASSUME NEW i \in 1..Len(s \o t), NEW j \in 1..Len(s \o t), i < j
      PROVE  (s \o t)[i] < (s \o t)[j]
  <2>0. i \in 1..(Len(s) + Len(t)) /\ j \in 1..(Len(s) + Len(t))
    BY <1>1
  <2>1. CASE j <= Len(s)
    <3>1. i \in 1..Len(s) /\ j \in 1..Len(s)
      BY <1>1, <1>2, <2>0, <2>1
    <3>2. s[i] < s[j]
      BY <1>2, <3>1 DEF InOrder
    <3> QED
      BY <1>1, <2>0, <3>1, <3>2
  <2>2. CASE i <= Len(s) /\ ~(j <= Len(s))
    <3>1. i \in 1..Len(s) /\ j - Len(s) \in 1..Len(t)
      BY <1>1, <2>0, <2>2
    <3>2. s[i] \in Nat /\ s[i] <= c /\ t[j - Len(s)] \in Nat /\ c < t[j - Len(s)]
      BY <1>1, <3>1
    <3>3. (s \o t)[i] = s[i] /\ (s \o t)[j] = t[j - Len(s)]
      BY <1>1, <2>0, <2>2
    <3> QED
      BY SMTT(30), <3>2, <3>3
  <2>3. CASE ~(i <= Len(s))
    <3>1. /\ i - Len(s) \in 1..Len(t) /\ j - Len(s) \in 1..Len(t)
          /\ i - Len(s) < j - Len(s) /\ ~(j <= Len(s))
      BY <1>1, <1>2, <2>0, <2>3
    <3>2. t[i - Len(s)] < t[j - Len(s)]
      BY <3>1 DEF InOrder
    <3>3. (s \o t)[i] = t[i - Len(s)] /\ (s \o t)[j] = t[j - Len(s)]
      BY <1>1, <2>0, <2>3, <3>1
    <3> QED
      BY <3>2, <3>3
  <2> QED
    BY <1>1, <2>0, <2>1, <2>2, <2>3
<1> QED
  BY <1>2 DEF InOrder

--------------------------------------------------------------------------------
(* Types. *)

\* Reader 0 is the first of finitely many.
LEMMA Ids ==
    /\ 0 \in ReaderIds /\ ReaderIds \subseteq Nat /\ IsFiniteSet(ReaderIds)
    /\ \A id \in ReaderIds : id + 1 \in 0..MaxReaders
<1>1. MaxReaders - 1 \in Nat
  BY BoundsAssumption
<1> QED
  BY <1>1, BoundsAssumption, FS_Interval DEF ReaderIds

\* What a reader that is behind is handed: every line it lacks, of which the passes and
\* max_lines leave some.
LEMMA Handed ==
    ASSUME LogTypes, CallTypes, NEW a \in Agents, NEW id \in DOMAIN cursor,
           NEW text \in Stripped(Interval(cursor[id], wrote))
    PROVE  LET lines == Interval(cursor[id], wrote)
               kept == Cut(text, call[a].max)
           IN  /\ cursor[id] \in Nat /\ wrote \in Nat /\ cursor[id] <= wrote
               /\ lines \in Seq(Lines) /\ ToSet(lines) = (cursor[id] + 1)..wrote
               /\ ToSet(lines) \subseteq Lines
               /\ text \in Seq(Lines) /\ ToSet(text) \subseteq ToSet(lines)
               /\ kept \in Seq(Lines) /\ ToSet(kept) \subseteq ToSet(text)
               /\ InOrder(kept)
<1> DEFINE lines == Interval(cursor[id], wrote)
           kept == Cut(text, call[a].max)
<1>1. /\ cursor[id] \in Nat /\ wrote \in Nat /\ cursor[id] <= wrote
      /\ (cursor[id] + 1)..wrote \subseteq Lines
  BY BoundsAssumption DEF LogTypes, Lines
<1>2. call[a].max \in Nat
  <2>1. Cuts \subseteq Nat
    BY ValuesAssumption
  <2>2. call[a] \in Calls
    BY DEF CallTypes
  <2>3. call[a].max \in Cuts \cup {0}
    BY <2>2 DEF Calls
  <2>4. CASE call[a].max = 0
    BY <2>4
  <2>5. CASE call[a].max \in Cuts
    BY <2>1, <2>5
  <2> QED
    BY <2>3, <2>4, <2>5
<1>3. lines \in Seq((cursor[id] + 1)..wrote) /\ ToSet(lines) = (cursor[id] + 1)..wrote
  BY <1>1, IntervalType
<1>4. lines \in Seq(Lines)
  BY <1>1, <1>3, SeqMonotonic
<1>5. text \in Texts /\ ToSet(text) \subseteq ToSet(lines)
  BY DEF Stripped
<1>6. text \in Seq(Lines) /\ InOrder(text)
  <2>1. PICK n \in 0..MaxOutput : text \in [1..n -> 1..MaxOutput]
    BY <1>5 DEF Texts
  <2>2. n \in Nat
    BY <2>1
  <2> QED
    BY ZenonT(30), <1>5, <2>1, <2>2, SeqDef DEF Texts, Lines
<1>7. kept \in Seq(Lines) /\ ToSet(kept) \subseteq ToSet(text) /\ InOrder(kept)
  BY <1>2, <1>6, CutType
<1> QED
  BY <1>1, <1>3, <1>4, <1>5, <1>6, <1>7

\* The actions, each with its parameters.
LEMMA Actions ==
    [Next]_vars =>
        \/ \E n \in 1..MaxChunk : Emit(n)
        \/ Exit \/ Delete \/ Setsize \/ UNCHANGED vars
        \/ \E a \in Agents, l \in {"read", "send_and_read", "send"}, id \in ReaderIds,
              max \in Cuts \cup {0} : Call(a, l, id, max)
        \/ \E a \in Agents :
              \/ SendInput(a) \/ ReadOutput(a) \/ AppendOutput(a) \/ Reply(a)
              \/ Cancel(a) \/ RegisterReader(a)
              \/ \E id \in ReaderIds : UnregisterReader(a, id)
              \/ \E r \in Rows : ResizePty(a, r)
<1>1. ASSUME NEW a \in Agents, NEW id \in ReaderIds, NEW max \in Cuts,
             Call(a, "read", id, max) \/ Call(a, "send_and_read", id, max)
      PROVE  \E l \in {"read", "send_and_read", "send"}, max2 \in Cuts \cup {0} :
                Call(a, l, id, max2)
  BY <1>1
<1>2. ASSUME NEW a \in Agents, Call(a, "send", 0, 0)
      PROVE  \E l \in {"read", "send_and_read", "send"}, id \in ReaderIds,
                max \in Cuts \cup {0} : Call(a, l, id, max)
  BY <1>2, Ids
<1> QED
  BY <1>1, <1>2 DEF Next

\* The log and the readers.
LEMMA LogStep == LogTypes /\ CallTypes /\ [Next]_vars => LogTypes'
<1> SUFFICES ASSUME LogTypes, CallTypes, [Next]_vars PROVE LogTypes'
  OBVIOUS
<1>1. ASSUME NEW n \in 1..MaxChunk, Emit(n) PROVE LogTypes'
  <2>1. /\ wrote' = wrote + n /\ wrote' \in 0..MaxOutput
        /\ UNCHANGED <<closed, nextID, got, since>>
        /\ cursor' = [id \in DOMAIN cursor |-> PushedBy(cursor[id], wrote + n)]
    BY <1>1, BoundsAssumption DEF Emit, LogWrite, LogTypes, readerVars
  <2>2. \A id \in DOMAIN cursor : PushedBy(cursor[id], wrote + n) \in 0..(wrote + n)
    BY <1>1, BoundsAssumption DEF LogTypes, PushedBy
  <2>3. DOMAIN cursor' = DOMAIN cursor /\ cursor' \in [DOMAIN cursor' -> 0..wrote']
    BY <2>1, <2>2
  <2>4. since' \in [ReaderIds -> 0..wrote']
    BY <2>1 DEF LogTypes
  <2> QED
    BY <2>1, <2>3, <2>4 DEF LogTypes
<1>2. ASSUME Exit \/ Delete PROVE LogTypes'
  BY <1>2 DEF Exit, Delete, LogClose, logVars, readerVars, LogTypes
<1>3. ASSUME NEW a \in Agents, ReadOutput(a) PROVE LogTypes'
  <2> DEFINE id == ReaderOf(a)
  <2>1. UNCHANGED since
    BY <1>3 DEF ReadOutput
  <2>2. CASE Deliver(a, id)
    <3>1. /\ id \in DOMAIN cursor
          /\ got' = [got EXCEPT ![id] = got[id] \o Interval(cursor[id], wrote)]
          /\ cursor' = [cursor EXCEPT ![id] = wrote]
          /\ UNCHANGED <<wrote, closed, nextID>>
      BY <2>2 DEF Deliver, LogDeliver
    <3>2. id \in ReaderIds /\ got[id] \in Seq(Lines) /\ Interval(cursor[id], wrote) \in Seq(Lines)
      <4>1. \E text : text \in Stripped(Interval(cursor[id], wrote))
        BY <2>2 DEF Deliver
      <4>2. Interval(cursor[id], wrote) \in Seq(Lines)
        BY <3>1, <4>1, Handed
      <4> QED
        BY <3>1, <4>2 DEF LogTypes
    <3>3. got[id] \o Interval(cursor[id], wrote) \in Seq(Lines)
      BY <3>2, ConcatProperties
    <3>4. got' \in [ReaderIds -> Seq(Lines)]
      BY <3>1, <3>3 DEF LogTypes
    <3>5. wrote \in 0..wrote /\ DOMAIN cursor' = DOMAIN cursor
          /\ cursor' \in [DOMAIN cursor' -> 0..wrote']
      BY <3>1, BoundsAssumption DEF LogTypes
    <3> QED
      BY <2>1, <3>1, <3>4, <3>5 DEF LogTypes
  <2>3. CASE Nothing(a, id)
    BY <2>1, <2>3 DEF Nothing, logVars, LogTypes
  <2> QED
    BY <1>3, <2>2, <2>3 DEF ReadOutput
<1>4. ASSUME NEW a \in Agents, RegisterReader(a) PROVE LogTypes'
  <2>1. /\ nextID \in ReaderIds /\ nextID' = nextID + 1
        /\ cursor' = [id \in DOMAIN cursor \cup {nextID} |->
                        IF id = nextID THEN wrote ELSE cursor[id]]
        /\ since' = [since EXCEPT ![nextID] = wrote]
        /\ UNCHANGED <<wrote, closed, got>>
    BY <1>4 DEF RegisterReader, LogRegister
  <2>2. wrote \in 0..wrote /\ since' \in [ReaderIds -> 0..wrote]
    BY <2>1, BoundsAssumption DEF LogTypes
  <2>3. DOMAIN cursor' \subseteq ReaderIds /\ cursor' \in [DOMAIN cursor' -> 0..wrote]
    BY <2>1, <2>2 DEF LogTypes
  <2> QED
    BY <2>1, <2>2, <2>3 DEF LogTypes
<1>5. ASSUME NEW a \in Agents, NEW id \in ReaderIds, UnregisterReader(a, id) PROVE LogTypes'
  <2>1. /\ cursor' = [other \in DOMAIN cursor \ {id} |-> cursor[other]]
        /\ UNCHANGED <<wrote, closed, nextID, got, since>>
    BY <1>5 DEF UnregisterReader, LogUnregister, readerVars
  <2> QED
    BY <2>1 DEF LogTypes
<1>6. ASSUME NEW a \in Agents,
             \/ \E l \in {"read", "send_and_read", "send"}, id \in ReaderIds,
                   max \in Cuts \cup {0} : Call(a, l, id, max)
             \/ SendInput(a) \/ AppendOutput(a) \/ Reply(a) \/ Cancel(a)
             \/ \E r \in Rows : ResizePty(a, r)
      PROVE  LogTypes'
  <2>1. UNCHANGED <<logVars, since>>
    BY <1>6 DEF Call, SendInput, AppendOutput, Reply, Cancel, ResizePty, readerVars
  <2> QED
    BY <2>1 DEF logVars, LogTypes
<1>7. ASSUME Setsize \/ UNCHANGED vars PROVE LogTypes'
  BY <1>7 DEF Setsize, vars, logVars, readerVars, LogTypes
<1> QED
  BY <1>1, <1>2, <1>3, <1>4, <1>5, <1>6, <1>7, Actions

--------------------------------------------------------------------------------
(* What the longer actions do, case by case. *)

\* A call that comes in: a send reads nothing, the owner of a reader keeps it, a
\* reader nobody has read with gets its owner, any other is shared from now on.
LEMMA Called ==
    ASSUME NEW a \in Agents, NEW l, NEW id, NEW max, Call(a, l, id, max)
    PROVE  /\ pc[a] = "idle" /\ calls < MaxCalls /\ calls' = calls + 1
           /\ call' = [call EXCEPT ![a] = [rid |-> id, max |-> max]]
           /\ pc' = [pc EXCEPT ![a] = l] /\ reply' = [reply EXCEPT ![a] = NoReply]
           /\ UNCHANGED <<logVars, registered, out, gone, recorded, removed, cut, refused,
                          since, rows, windows, hostRows>>
           /\ \/ (l = "send" \/ owner[id] = {a}) /\ UNCHANGED <<owner, shown>>
              \/ /\ owner[id] = {} /\ owner' = [owner EXCEPT ![id] = {a}]
                 /\ UNCHANGED shown
              \/ /\ owner[id] # {a}
                 /\ owner' = [owner EXCEPT ![id] = {Shared}]
                 /\ shown' = [shown EXCEPT ![id] = <<>>]
<1>1. CASE l = "send" \/ owner[id] = {a}
  BY <1>1 DEF Call, Begin, Goto, ptyVars
<1>2. CASE ~(l = "send" \/ owner[id] = {a})
  BY <1>2 DEF Call, Begin, Goto, Spoil, ptyVars
<1> QED
  BY <1>1, <1>2

\* A read that hands over output.
LEMMA Delivered ==
    ASSUME LogTypes, NEW a \in Agents, ReadOutput(a), Deliver(a, ReaderOf(a))
    PROVE  LET id == call[a].rid
               lines == Interval(cursor[id], wrote)
           IN  /\ pc[a] = "read" /\ id \in DOMAIN cursor /\ id \in ReaderIds
               /\ cursor[id] < wrote
               /\ got' = [got EXCEPT ![id] = got[id] \o lines]
               /\ cursor' = [cursor EXCEPT ![id] = wrote]
               /\ call' = [call EXCEPT ![a] = [call[a] EXCEPT !.max = 0]]
               /\ UNCHANGED <<wrote, closed, nextID, gone, registered, calls, reply, recorded,
                              owner, shown, refused, since, rows, windows, hostRows>>
               /\ \E text \in Stripped(lines) :
                     LET kept == Cut(text, call[a].max)
                     IN  /\ out' = [out EXCEPT ![a] = kept]
                         /\ removed' = [removed EXCEPT ![id] = removed[id] \cup
                               (((cursor[id] + 1)..wrote) \ ToSet(text))]
                         /\ cut' = [cut EXCEPT ![id] =
                               cut[id] \cup (ToSet(text) \ ToSet(kept))]
                         /\ pc' = [pc EXCEPT ![a] = IF kept = <<>> THEN "more" ELSE "append"]
<1> DEFINE id == call[a].rid
<1>1. /\ pc[a] = "read" /\ id \in DOMAIN cursor /\ id \in ReaderIds
      /\ cursor[id] < wrote
      /\ got' = [got EXCEPT ![id] = got[id] \o Interval(cursor[id], wrote)]
      /\ cursor' = [cursor EXCEPT ![id] = wrote]
      /\ call' = [call EXCEPT ![a] = [call[a] EXCEPT !.max = 0]]
      /\ UNCHANGED <<wrote, closed, nextID, gone, registered, calls, reply, recorded,
                     owner, shown, refused, since, rows, windows, hostRows>>
  BY DEF ReadOutput, Deliver, ReaderOf, LogDeliver, LogTypes, ptyVars
<1> QED
  BY <1>1 DEF Deliver, ReaderOf, Goto

\* A read that hands over nothing.
LEMMA NothingRead ==
    ASSUME NEW a \in Agents, ReadOutput(a), Nothing(a, ReaderOf(a))
    PROVE  /\ pc[a] = "read"
           /\ UNCHANGED <<logVars, out, removed, cut, refused, registered, calls, reply,
                          recorded, owner, shown, since, rows, windows, hostRows>>
           /\ \/ /\ pc' = [pc EXCEPT ![a] = "idle"] /\ gone' = gone \ {a}
                 /\ call' = [call EXCEPT ![a] = NoCall]
              \/ /\ pc' = [pc EXCEPT ![a] = "more"] /\ UNCHANGED gone
                 /\ call[a].rid \in DOMAIN cursor
                 /\ call' = [call EXCEPT ![a] = [call[a] EXCEPT !.max = 0]]
BY DEF ReadOutput, Nothing, ReaderOf, Return, Goto, ptyVars

\* The end of a call: nobody waits for the output, the reader is shared already, or
\* its owner is shown the output and told whether there is more.
LEMMA Replied ==
    ASSUME NEW a \in Agents, Reply(a)
    PROVE  LET id == call[a].rid
           IN  /\ pc[a] = "more" /\ pc' = [pc EXCEPT ![a] = "idle"]
               /\ call' = [call EXCEPT ![a] = NoCall]
               /\ out' = [out EXCEPT ![a] = <<>>] /\ gone' = gone \ {a}
               /\ UNCHANGED <<logVars, registered, calls, recorded, removed, cut, refused, since,
                              rows, windows, hostRows>>
               /\ \/ /\ owner' = [owner EXCEPT ![id] = {Shared}]
                     /\ shown' = [shown EXCEPT ![id] = <<>>] /\ UNCHANGED reply
                  \/ owner[id] = {Shared} /\ UNCHANGED <<owner, shown, reply>>
                  \/ /\ shown' = [shown EXCEPT ![id] = shown[id] \o out[a]]
                     /\ UNCHANGED owner
                     /\ \E more \in {"unasked", "yes", "no"}, rid \in {0, id} :
                           /\ reply' = [reply EXCEPT ![a] = [rid |-> rid, more |-> more]]
                           /\ more = "yes" => rid = id /\ id \in DOMAIN cursor
                                                /\ cursor[id] < wrote
<1> DEFINE id == call[a].rid
<1>1. /\ pc[a] = "more" /\ pc' = [pc EXCEPT ![a] = "idle"]
      /\ call' = [call EXCEPT ![a] = NoCall]
      /\ out' = [out EXCEPT ![a] = <<>>] /\ gone' = gone \ {a}
      /\ UNCHANGED <<logVars, registered, calls, recorded, removed, cut, refused, since,
                     rows, windows, hostRows>>
  BY DEF Reply, Return, Goto, ptyVars
<1>2. CASE a \in gone
  BY <1>1, <1>2 DEF Reply, Spoil
<1>3. CASE a \notin gone /\ owner[id] = {Shared}
  BY <1>1, <1>3 DEF Reply
<1>4. CASE a \notin gone /\ owner[id] # {Shared}
  <2>1. /\ shown' = [shown EXCEPT ![id] = shown[id] \o out[a]] /\ UNCHANGED owner
        /\ reply' = [reply EXCEPT ![a] =
              IF reply[a] = Initial THEN NoReply
              ELSE [rid |-> id, more |-> IF HasMore(id) THEN "yes" ELSE "no"]]
    BY <1>4 DEF Reply
  <2>2. CASE reply[a] = Initial
    <3>1. reply' = [reply EXCEPT ![a] = [rid |-> 0, more |-> "unasked"]]
      BY <2>1, <2>2 DEF NoReply
    <3> QED
      BY <1>1, <2>1, <3>1
  <2>3. CASE reply[a] # Initial /\ HasMore(id)
    <3>1. reply' = [reply EXCEPT ![a] = [rid |-> id, more |-> "yes"]]
          /\ id \in DOMAIN cursor /\ cursor[id] < wrote
      BY <2>1, <2>3 DEF HasMore
    <3> QED
      BY <1>1, <2>1, <3>1
  <2>4. CASE reply[a] # Initial /\ ~HasMore(id)
    <3>1. reply' = [reply EXCEPT ![a] = [rid |-> id, more |-> "no"]]
      BY <2>1, <2>4
    <3> QED
      BY <1>1, <2>1, <3>1
  <2> QED
    BY <2>2, <2>3, <2>4
<1> QED
  BY <1>2, <1>3, <1>4

\* An input that is sent, or refused.
LEMMA Sent ==
    ASSUME NEW a \in Agents, SendInput(a)
    PROVE  /\ pc[a] \in {"send", "send_and_read"}
           /\ UNCHANGED <<logVars, registered, calls, out, gone, reply, recorded, owner,
                          shown, removed, cut, refused, since, rows, windows, hostRows>>
           /\ \/ pc' = [pc EXCEPT ![a] = "idle"] /\ call' = [call EXCEPT ![a] = NoCall]
              \/ /\ pc[a] = "send_and_read" /\ pc' = [pc EXCEPT ![a] = "read"]
                 /\ UNCHANGED call
BY DEF SendInput, Return, Goto, readerVars, ptyVars

\* What the agents are about.
LEMMA CallStep == LogTypes /\ CallTypes /\ [Next]_vars => CallTypes'
<1> SUFFICES ASSUME LogTypes, CallTypes, [Next]_vars PROVE CallTypes'
  OBVIOUS
<1>n. NoCall \in Calls /\ NoReply \in Replies /\ 0 \in Cuts \cup {0}
  BY Ids DEF NoCall, NoReply, Calls, Replies
<1>m. ASSUME NEW a \in Agents PROVE [call[a] EXCEPT !.max = 0] \in Calls
  BY DEF CallTypes, Calls
<1>e. <<>> \in Seq(Lines)
  BY EmptySeq
<1>1. ASSUME \/ \E n \in 1..MaxChunk : Emit(n)
             \/ Exit \/ Delete \/ Setsize \/ UNCHANGED vars
             \/ \E a \in Agents :
                   \/ RegisterReader(a) \/ \E id \in ReaderIds : UnregisterReader(a, id)
                   \/ \E r \in Rows : ResizePty(a, r)
      PROVE  CallTypes'
  <2>1. UNCHANGED <<pc, call, out, gone, reply>>
    BY <1>1 DEF Emit, Exit, Delete, Setsize, RegisterReader, UnregisterReader, ResizePty,
                Begin, callVars, vars
  <2> QED
    BY <2>1 DEF CallTypes
<1>2. ASSUME NEW a \in Agents, NEW l \in {"read", "send_and_read", "send"},
             NEW id \in ReaderIds, NEW max \in Cuts \cup {0}, Call(a, l, id, max)
      PROVE  CallTypes'
  <2>1. /\ pc' = [pc EXCEPT ![a] = l]
        /\ call' = [call EXCEPT ![a] = [rid |-> id, max |-> max]]
        /\ reply' = [reply EXCEPT ![a] = NoReply] /\ UNCHANGED <<out, gone>>
    BY <1>2, Called
  <2>2. [rid |-> id, max |-> max] \in Calls /\ l \in Places
    BY DEF Calls, Places
  <2> QED
    BY <1>n, <2>1, <2>2 DEF CallTypes
<1>3. ASSUME NEW a \in Agents, SendInput(a) PROVE CallTypes'
  <2>1. UNCHANGED <<out, gone, reply>>
    BY <1>3, Sent
  <2>2. pc' \in [Agents -> Places] /\ call' \in [Agents -> Calls]
    BY <1>3, <1>n, Sent DEF CallTypes, Places
  <2> QED
    BY <2>1, <2>2 DEF CallTypes
<1>4. ASSUME NEW a \in Agents, ReadOutput(a) PROVE CallTypes'
  <2>1. CASE Deliver(a, ReaderOf(a))
    <3>0. PICK text \in Stripped(Interval(cursor[call[a].rid], wrote)) :
               /\ out' = [out EXCEPT ![a] = Cut(text, call[a].max)]
               /\ pc' = [pc EXCEPT ![a] =
                           IF Cut(text, call[a].max) = <<>> THEN "more" ELSE "append"]
      BY <1>4, <2>1, Delivered
    <3> DEFINE kept == Cut(text, call[a].max)
    <3>1. /\ call[a].rid \in DOMAIN cursor /\ out' = [out EXCEPT ![a] = kept]
          /\ call' = [call EXCEPT ![a] = [call[a] EXCEPT !.max = 0]]
          /\ pc' = [pc EXCEPT ![a] = "append"] \/ pc' = [pc EXCEPT ![a] = "more"]
          /\ UNCHANGED <<gone, reply>>
      BY <1>4, <2>1, <3>0, Delivered
    <3>2. kept \in Seq(Lines)
      BY <3>1, Handed
    <3> HIDE DEF kept
    <3>3. pc' \in [Agents -> Places] /\ call' \in [Agents -> Calls]
          /\ out' \in [Agents -> Seq(Lines)]
      BY <1>m, <3>1, <3>2 DEF CallTypes, Places
    <3> QED
      BY <3>1, <3>3 DEF CallTypes
  <2>2. CASE Nothing(a, ReaderOf(a))
    <3>1. UNCHANGED <<out, reply>> /\ gone' \subseteq gone
      BY <1>4, <2>2, NothingRead
    <3>2. pc' \in [Agents -> Places] /\ call' \in [Agents -> Calls]
      BY ZenonT(30), <1>4, <1>m, <1>n, <2>2, NothingRead DEF CallTypes, Places
    <3> QED
      BY <3>1, <3>2 DEF CallTypes
  <2> QED
    BY <1>4, <2>1, <2>2 DEF ReadOutput
<1>5. ASSUME NEW a \in Agents, AppendOutput(a) \/ Cancel(a) PROVE CallTypes'
  <2>1. UNCHANGED <<call, out, reply>> /\ gone' \subseteq gone \cup {a}
    BY <1>5 DEF AppendOutput, Cancel
  <2>2. pc' \in [Agents -> Places]
    BY <1>5 DEF AppendOutput, Cancel, Goto, CallTypes, Places
  <2> QED
    BY <2>1, <2>2 DEF CallTypes
<1>6. ASSUME NEW a \in Agents, Reply(a) PROVE CallTypes'
  <2>1. /\ pc' = [pc EXCEPT ![a] = "idle"] /\ call' = [call EXCEPT ![a] = NoCall]
        /\ out' = [out EXCEPT ![a] = <<>>] /\ gone' = gone \ {a}
    BY <1>6, Replied
  <2>2. call[a].rid \in ReaderIds
    BY DEF CallTypes, Calls
  <2>3. \/ UNCHANGED reply
        \/ \E more \in {"unasked", "yes", "no"}, rid \in {0, call[a].rid} :
              reply' = [reply EXCEPT ![a] = [rid |-> rid, more |-> more]]
    BY <1>6, Replied
  <2>4. reply' \in [Agents -> Replies]
    <3>1. reply \in [Agents -> Replies]
      BY DEF CallTypes
    <3>2. ASSUME NEW more \in {"unasked", "yes", "no"}, NEW rid \in {0, call[a].rid}
          PROVE  [rid |-> rid, more |-> more] \in Replies
      BY <2>2, Ids DEF Replies
    <3> QED
      BY <2>3, <3>1, <3>2
  <2>5. pc' \in [Agents -> Places] /\ call' \in [Agents -> Calls]
        /\ out' \in [Agents -> Seq(Lines)]
    BY <1>e, <1>n, <2>1 DEF CallTypes, Places
  <2> QED
    BY <2>1, <2>4, <2>5 DEF CallTypes
<1> QED
  BY <1>1, <1>2, <1>3, <1>4, <1>5, <1>6, Actions

\* What is known of the readers.
LEMMA ReaderStep == LogTypes /\ CallTypes /\ ReaderTypes /\ [Next]_vars => ReaderTypes'
<1> SUFFICES ASSUME LogTypes, CallTypes, ReaderTypes, [Next]_vars PROVE ReaderTypes'
  OBVIOUS
<1>e. <<>> \in Seq(Lines) /\ {Shared} \in SUBSET (Agents \cup {Shared})
  BY EmptySeq
<1>1. ASSUME \/ \E n \in 1..MaxChunk : Emit(n)
             \/ Exit \/ Delete \/ Setsize \/ UNCHANGED vars
             \/ \E a \in Agents :
                   \/ SendInput(a) \/ Cancel(a)
                   \/ RegisterReader(a) \/ \E id \in ReaderIds : UnregisterReader(a, id)
                   \/ \E r \in Rows : ResizePty(a, r)
      PROVE  ReaderTypes'
  <2>1. UNCHANGED <<owner, shown, removed, cut, refused>>
    BY <1>1 DEF Emit, Exit, Delete, Setsize, SendInput, Cancel,
                RegisterReader, UnregisterReader, ResizePty, readerVars, vars
  <2> QED
    BY <2>1 DEF ReaderTypes
<1>2. ASSUME NEW a \in Agents, NEW l, NEW id, NEW max, Call(a, l, id, max)
      PROVE  ReaderTypes'
  <2>1. {a} \in SUBSET (Agents \cup {Shared})
    OBVIOUS
  <2> QED
    <3>1. /\ UNCHANGED <<removed, cut, refused>>
          /\ \/ UNCHANGED <<owner, shown>>
             \/ owner' = [owner EXCEPT ![id] = {a}] /\ UNCHANGED shown
             \/ /\ owner' = [owner EXCEPT ![id] = {Shared}]
                /\ shown' = [shown EXCEPT ![id] = <<>>]
      BY <1>2, Called
    <3> QED
      BY <1>e, <2>1, <3>1 DEF ReaderTypes
<1>3. ASSUME NEW a \in Agents, ReadOutput(a) PROVE ReaderTypes'
  <2>1. CASE Deliver(a, ReaderOf(a))
    <3> DEFINE id == call[a].rid  lines == Interval(cursor[id], wrote)
    <3>0. PICK text \in Stripped(lines) :
               /\ removed' = [removed EXCEPT ![id] = removed[id] \cup
                                (((cursor[id] + 1)..wrote) \ ToSet(text))]
               /\ cut' = [cut EXCEPT ![id] =
                            cut[id] \cup (ToSet(text) \ ToSet(Cut(text, call[a].max)))]
      BY <1>3, <2>1, Delivered
    <3> DEFINE less == ((cursor[id] + 1)..wrote) \ ToSet(text)
               rest == ToSet(text) \ ToSet(Cut(text, call[a].max))
    <3>1. /\ id \in DOMAIN cursor /\ id \in ReaderIds
          /\ UNCHANGED <<owner, shown, refused>>
          /\ removed' = [removed EXCEPT ![id] = removed[id] \cup less]
          /\ cut' = [cut EXCEPT ![id] = cut[id] \cup rest]
      BY <1>3, <2>1, <3>0, Delivered
    <3>2. less \subseteq Lines /\ rest \subseteq Lines
      <4>1. ToSet(lines) \subseteq Lines /\ ToSet(lines) = (cursor[id] + 1)..wrote
            /\ ToSet(text) \subseteq ToSet(lines)
        BY <3>1, Handed
      <4> QED
        BY <4>1
    <3> HIDE DEF less, rest
    <3> QED
      BY <3>1, <3>2 DEF ReaderTypes
  <2>2. CASE Nothing(a, ReaderOf(a))
    BY <1>3, <2>2, NothingRead DEF ReaderTypes
  <2> QED
    BY <1>3, <2>1, <2>2 DEF ReadOutput
<1>4. ASSUME NEW a \in Agents, Reply(a) PROVE ReaderTypes'
  <2> DEFINE id == call[a].rid
  <2>1. id \in ReaderIds /\ out[a] \in Seq(Lines) /\ shown[id] \in Seq(Lines)
    BY DEF CallTypes, Calls, ReaderTypes
  <2>2. shown[id] \o out[a] \in Seq(Lines)
    BY <2>1, ConcatProperties
  <2>3. /\ UNCHANGED <<removed, cut, refused>>
        /\ \/ owner' = [owner EXCEPT ![id] = {Shared}] /\ shown' = [shown EXCEPT ![id] = <<>>]
           \/ UNCHANGED <<owner, shown>>
           \/ shown' = [shown EXCEPT ![id] = shown[id] \o out[a]] /\ UNCHANGED owner
    BY <1>4, Replied
  <2> QED
    BY ZenonT(30), <1>e, <2>1, <2>2, <2>3 DEF ReaderTypes
<1>5. ASSUME NEW a \in Agents, AppendOutput(a) PROVE ReaderTypes'
  <2>1. /\ UNCHANGED <<owner, shown, removed, cut>>
        /\ UNCHANGED refused
              \/ refused' = [refused EXCEPT ![call[a].rid] =
                               refused[call[a].rid] \cup ToSet(out[a])]
    BY <1>5 DEF AppendOutput, Kept
  <2>2. call[a].rid \in ReaderIds /\ ToSet(out[a]) \subseteq Lines
    <3>1. out[a] \in Seq(Lines) /\ call[a] \in Calls
      BY DEF CallTypes
    <3>2. DOMAIN out[a] = 1..Len(out[a]) /\ \A i \in 1..Len(out[a]) : out[a][i] \in Lines
      BY <3>1, LenProperties, ElementOfSeq
    <3> QED
      BY <3>1, <3>2 DEF Calls, ToSet
  <2> QED
    BY <2>1, <2>2 DEF ReaderTypes
<1> QED
  BY <1>1, <1>2, <1>3, <1>4, <1>5, Actions

\* Sizes are 16 bits on the host, and small ones are what they were.
LEMMA Sizes ==
    /\ Rows \subseteq Int
    /\ \A r \in Rows : IsUint16(Uint16(r))
    /\ \A r \in 1..1000 : Uint16(r) = r /\ IsUint16(r)
<1>1. Rows \subseteq Int
  BY ValuesAssumption
<1>2. ASSUME NEW r \in Int PROVE IsUint16(Uint16(r))
  BY DEF Uint16, IsUint16
<1>3. ASSUME NEW r \in 1..1000 PROVE Uint16(r) = r /\ IsUint16(r)
  BY DEF Uint16, IsUint16
<1> QED
  BY <1>1, <1>2, <1>3

\* The sizes of the terminal.
LEMMA PtyStep == PtyTypes /\ [Next]_vars => PtyTypes'
<1> SUFFICES ASSUME PtyTypes, [Next]_vars PROVE PtyTypes'
  OBVIOUS
<1>1. ASSUME \/ \E n \in 1..MaxChunk : Emit(n)
             \/ Exit \/ Delete \/ UNCHANGED vars
             \/ \E a \in Agents :
                   \/ \E l, id, max : Call(a, l, id, max)
                   \/ SendInput(a) \/ ReadOutput(a) \/ AppendOutput(a) \/ Reply(a)
                   \/ Cancel(a) \/ RegisterReader(a)
                   \/ \E id \in ReaderIds : UnregisterReader(a, id)
      PROVE  PtyTypes'
  <2>1. UNCHANGED <<rows, windows, hostRows>>
    BY <1>1 DEF Emit, Exit, Delete, Call, SendInput, ReadOutput, AppendOutput, Reply,
                Cancel, RegisterReader, UnregisterReader, ptyVars, vars
  <2> QED
    BY <2>1 DEF PtyTypes
<1>2. ASSUME NEW a \in Agents, NEW r \in Rows, ResizePty(a, r) PROVE PtyTypes'
  <2>1. rows' = r /\ windows' = windows \o <<r>> /\ UNCHANGED hostRows
    BY <1>2 DEF ResizePty, Window
  <2>2. windows \o <<r>> \in Seq(Rows)
    BY ConcatProperties DEF PtyTypes
  <2> QED
    BY <2>1, <2>2 DEF PtyTypes
<1>3. ASSUME Setsize PROVE PtyTypes'
  <2>1. windows # <<>> /\ hostRows' = Uint16(Head(windows)) /\ windows' = Tail(windows)
        /\ UNCHANGED rows
    BY <1>3 DEF Setsize
  <2>2. Head(windows) \in Rows /\ Tail(windows) \in Seq(Rows)
    BY <2>1, HeadTailProperties DEF PtyTypes
  <2>3. IsUint16(hostRows')
    BY <2>1, <2>2, Sizes
  <2> QED
    BY <2>1, <2>2, <2>3 DEF PtyTypes
<1> QED
  BY <1>1, <1>2, <1>3, Actions

--------------------------------------------------------------------------------
(* Calls and what they record. *)

Busy == {a \in Agents : pc[a] # "idle"}

\* Few agents are in a call at a time, however many there are.
FewBusy == IsFiniteSet(Busy)

\* A step takes at most one more agent into a call.
LEMMA FewBusyStep == CallTypes /\ FewBusy /\ [Next]_vars => FewBusy'
<1> SUFFICES ASSUME CallTypes, FewBusy, [Next]_vars PROVE FewBusy'
  OBVIOUS
<1>1. \E a \in Agents : \A b \in Agents \ {a} : pc'[b] = pc[b]
  <2>1. Starter \in Agents /\ pc \in [Agents -> Places]
    BY StarterAssumption DEF CallTypes
  <2>2. UNCHANGED pc \/ \E a \in Agents : \E l : pc' = [pc EXCEPT ![a] = l]
    <3>1. ASSUME NEW a \in Agents, NEW l \in {"read", "send_and_read", "send"}, NEW id,
                 NEW max, Call(a, l, id, max)
          PROVE  \E k : pc' = [pc EXCEPT ![a] = k]
      BY <3>1 DEF Call, Goto
    <3>2. ASSUME NEW a \in Agents,
                 SendInput(a) \/ ReadOutput(a) \/ AppendOutput(a) \/ Reply(a)
          PROVE  \E k : pc' = [pc EXCEPT ![a] = k]
      <4>1. ASSUME ReadOutput(a) PROVE \E k : pc' = [pc EXCEPT ![a] = k]
        BY <4>1 DEF ReadOutput, Deliver, Nothing, Return, Goto
      <4>2. ASSUME SendInput(a) \/ AppendOutput(a) \/ Reply(a)
            PROVE  \E k : pc' = [pc EXCEPT ![a] = k]
        BY <4>2 DEF SendInput, AppendOutput, Reply, Return, Goto
      <4> QED
        BY <3>2, <4>1, <4>2
    <3>3. ASSUME \/ \E n \in 1..MaxChunk : Emit(n)
                 \/ Exit \/ Delete \/ Setsize \/ UNCHANGED vars
                 \/ \E a \in Agents :
                       \/ Cancel(a) \/ RegisterReader(a)
                       \/ \E id \in ReaderIds : UnregisterReader(a, id)
                       \/ \E r \in Rows : ResizePty(a, r)
          PROVE  UNCHANGED pc
      BY <3>3 DEF Emit, Exit, Delete, Setsize, Cancel, RegisterReader, UnregisterReader,
                  ResizePty, callVars, vars
    <3> QED
      BY <3>1, <3>2, <3>3, Actions
  <2> QED
    BY <2>1, <2>2
<1>2. PICK a \in Agents : \A b \in Agents \ {a} : pc'[b] = pc[b]
  BY <1>1
<1>3. Busy' \subseteq Busy \cup {a}
  BY <1>2 DEF Busy
<1>4. IsFiniteSet(Busy \cup {a})
  BY FS_AddElement DEF FewBusy
<1> QED
  BY <1>3, <1>4, FS_Subset DEF FewBusy

\* Calls are counted, and records.
LEMMA HistoryStep == HistoryTypes /\ [Next]_vars => HistoryTypes'
<1> SUFFICES ASSUME HistoryTypes, [Next]_vars PROVE HistoryTypes'
  OBVIOUS
<1>h. calls \in 0..MaxCalls /\ MaxCalls \in Nat /\ recorded \in [Lines -> Nat]
  BY BoundsAssumption DEF HistoryTypes
<1>1. calls' \in 0..MaxCalls
  <2>1. UNCHANGED calls \/ (calls < MaxCalls /\ calls' = calls + 1)
    BY Actions
    DEF Emit, Exit, Delete, Setsize, Call, Begin, SendInput, ReadOutput, AppendOutput, Reply,
        Cancel, RegisterReader, UnregisterReader, ResizePty, callVars, vars
  <2> QED
    BY <1>h, <2>1
<1>2. CASE UNCHANGED recorded
  BY <1>1, <1>2 DEF HistoryTypes
<1>3. ASSUME NEW a \in Agents, AppendOutput(a) PROVE recorded' \in [Lines -> Nat]
  BY <1>h, <1>3 DEF AppendOutput, Lines
<1>4. UNCHANGED recorded \/ \E a \in Agents : AppendOutput(a)
  BY Actions
  DEF Emit, Exit, Delete, Setsize, Call, SendInput, ReadOutput, Reply, Cancel,
      RegisterReader, UnregisterReader, ResizePty, vars
<1> QED
  BY <1>1, <1>2, <1>3, <1>4 DEF HistoryTypes

\* The types hold in every reachable state.
LEMMA TypeInvariant == Spec => [](TypeOK /\ FewBusy)
<1>1. ASSUME Init PROVE TypeOK /\ FewBusy
  <2>e. /\ <<>> \in Seq(Lines) /\ <<>> \in Seq(Rows) /\ 0 \in 0..MaxOutput /\ 0 \in 0..0
        /\ 0 \in 0..MaxCalls
    BY EmptySeq, BoundsAssumption
  <2>1. LogTypes
    BY ZenonT(30), <1>1, <2>e, Ids DEF Init, LogTypes
  <2>2. CallTypes
    <3>1. NoCall \in Calls /\ NoReply \in Replies /\ Initial \in Replies
      BY Ids DEF NoCall, NoReply, Initial, Calls, Replies
    <3> QED
      BY <1>1, <2>e, <3>1 DEF Init, CallTypes, Places
  <2>3. HistoryTypes
    BY <1>1, <2>e DEF Init, HistoryTypes, Lines
  <2>4. ReaderTypes
    BY <1>1, <2>e, StarterAssumption DEF Init, ReaderTypes
  <2>5. PtyTypes
    <3>1. rows \in Rows /\ rows \in 1..1000 /\ windows = <<>> /\ hostRows = rows
      BY <1>1 DEF Init
    <3> QED
      BY ZenonT(30), <2>e, <3>1, Sizes DEF PtyTypes
  <2>6. FewBusy
    <3>1. Busy \subseteq {Starter}
      BY <1>1 DEF Init, Busy
    <3> QED
      BY <3>1, FS_Singleton, FS_Subset DEF FewBusy
  <2>7. registered \in BOOLEAN
    BY <1>1 DEF Init
  <2> QED
    BY <2>1, <2>2, <2>3, <2>4, <2>5, <2>6, <2>7 DEF TypeOK
<1>2. ASSUME TypeOK, FewBusy, [Next]_vars PROVE TypeOK' /\ FewBusy'
  <2>1. LogTypes /\ CallTypes /\ HistoryTypes /\ ReaderTypes /\ PtyTypes
    BY <1>2 DEF TypeOK
  <2>2. LogTypes' /\ CallTypes' /\ ReaderTypes' /\ PtyTypes' /\ HistoryTypes' /\ FewBusy'
    BY <1>2, <2>1, LogStep, CallStep, ReaderStep, PtyStep, HistoryStep, FewBusyStep
  <2>3. registered' \in BOOLEAN
    BY <1>2, Actions
    DEF TypeOK, Emit, Exit, Delete, Setsize, Call, SendInput, ReadOutput, AppendOutput,
        Reply, Cancel, RegisterReader, UnregisterReader, ResizePty, vars
  <2> QED
    BY <2>2, <2>3 DEF TypeOK
<1> QED
  BY <1>1, <1>2, PTL DEF Spec

\* Types of all variables; the terminal on the host has 16-bit sizes.
THEOREM TypeCorrect == Spec => []TypeOK
BY TypeInvariant, PTL

--------------------------------------------------------------------------------
(* The size of the terminal. *)

\* The last size on its way, or the host's, is the recorded one.
SizeInv == (IF windows = <<>> THEN hostRows ELSE Uint16(Last(windows))) = Uint16(rows)

LEMMA SizeStep == PtyTypes /\ SizeInv /\ [Next]_vars => SizeInv'
<1> SUFFICES ASSUME PtyTypes, SizeInv, [Next]_vars PROVE SizeInv'
  OBVIOUS
<1>t. windows \in Seq(Rows) /\ rows \in Rows
  BY DEF PtyTypes
<1>1. ASSUME \/ \E n \in 1..MaxChunk : Emit(n)
             \/ Exit \/ Delete \/ UNCHANGED vars
             \/ \E a \in Agents :
                   \/ \E l, id, max : Call(a, l, id, max)
                   \/ SendInput(a) \/ ReadOutput(a) \/ AppendOutput(a) \/ Reply(a)
                   \/ Cancel(a) \/ RegisterReader(a)
                   \/ \E id \in ReaderIds : UnregisterReader(a, id)
      PROVE  SizeInv'
  <2>1. UNCHANGED <<rows, windows, hostRows>>
    BY <1>1 DEF Emit, Exit, Delete, Call, SendInput, ReadOutput, AppendOutput, Reply,
                Cancel, RegisterReader, UnregisterReader, ptyVars, vars
  <2> QED
    BY <2>1 DEF SizeInv
<1>2. ASSUME NEW a \in Agents, NEW r \in Rows, ResizePty(a, r) PROVE SizeInv'
  <2>1. rows' = r /\ windows' = windows \o <<r>>
    BY <1>2 DEF ResizePty, Window
  <2>2. <<r>> \in Seq(Rows) /\ Len(<<r>>) = 1 /\ <<r>>[1] = r
    OBVIOUS
  <2>3. /\ Len(windows') = Len(windows) + 1 /\ Len(windows) \in Nat
        /\ windows'[Len(windows) + 1] = r /\ windows' # <<>>
    <3>1. Len(windows) \in Nat
      BY <1>t, LenProperties
    <3>2. /\ windows \o <<r>> \in Seq(Rows)
          /\ Len(windows \o <<r>>) = Len(windows) + Len(<<r>>)
          /\ \A i \in 1..(Len(windows) + Len(<<r>>)) : (windows \o <<r>>)[i] =
                IF i <= Len(windows) THEN windows[i] ELSE <<r>>[i - Len(windows)]
      BY <1>t, <2>2, ConcatProperties
    <3>3. /\ Len(windows') = Len(windows) + 1
          /\ windows'[Len(windows) + 1] = <<r>>[Len(windows) + 1 - Len(windows)]
      BY <2>1, <2>2, <3>1, <3>2
    <3>4. windows'[Len(windows) + 1] = r
      BY <2>2, <3>1, <3>3
    <3>5. windows' # <<>>
      BY <3>1, <3>3, EmptySeq
    <3> QED
      BY <3>1, <3>3, <3>4, <3>5
  <2>4. Last(windows') = r
    BY <2>3 DEF Last
  <2> QED
    BY <2>1, <2>3, <2>4 DEF SizeInv, Last
<1>3. ASSUME Setsize PROVE SizeInv'
  <2>1. windows # <<>> /\ hostRows' = Uint16(Head(windows)) /\ windows' = Tail(windows)
        /\ rows' = rows
    BY <1>3 DEF Setsize
  <2>2. Uint16(windows[Len(windows)]) = Uint16(rows)
    BY <2>1 DEF SizeInv, Last
  <2>3. /\ Len(windows) \in Nat \ {0} /\ Tail(windows) \in Seq(Rows)
        /\ Len(Tail(windows)) = Len(windows) - 1
        /\ \A i \in 1..Len(Tail(windows)) : Tail(windows)[i] = windows[i + 1]
    BY <1>t, <2>1, EmptySeq, HeadTailProperties
  <2>4. CASE Len(windows) = 1
    <3>1. windows' = <<>> /\ Head(windows) = windows[1]
      BY <1>t, <2>1, <2>3, <2>4, EmptySeq
    <3> QED
      BY <2>1, <2>2, <2>4, <3>1 DEF SizeInv
  <2>5. CASE Len(windows) # 1
    <3>0. Len(Tail(windows)) # 0 /\ Len(windows) - 1 \in 1..Len(Tail(windows))
      BY <2>3, <2>5
    <3>1. Len(windows) - 1 \in 1..Len(Tail(windows)) /\ windows' # <<>>
      BY <2>1, <3>0, EmptySeq
    <3>2. windows'[Len(windows')] = windows[Len(windows)]
      BY <2>1, <2>3, <3>1
    <3> QED
      BY <2>1, <2>2, <3>1, <3>2 DEF SizeInv, Last
  <2> QED
    BY <2>4, <2>5
<1> QED
  BY <1>1, <1>2, <1>3, Actions

\* The terminal has, or is going to have, the size the session records, cut to 16 bits
\* (session.go:261-276, server.go:163-171).
THEOREM SizesReachTheHost == Spec => []SizeReachesHost
<1>1. Init => SizeInv
  <2> SUFFICES ASSUME Init PROVE SizeInv
    OBVIOUS
  <2>1. windows = <<>> /\ hostRows = rows /\ rows \in 1..1000
    BY DEF Init
  <2> QED
    BY ZenonT(30), <2>1, Sizes DEF SizeInv
<1>2. TypeOK => PtyTypes
  BY DEF TypeOK
<1>3. SizeInv => SizeReachesHost
  BY DEF SizeInv, SizeReachesHost
<1> QED
  BY <1>1, <1>2, <1>3, SizeStep, TypeInvariant, PTL DEF Spec

--------------------------------------------------------------------------------
(* Readers, their owners and the calls under way. *)

Types == LogTypes /\ CallTypes /\ ReaderTypes

\* What a reader was handed lies behind its cursor; an identifier not yet given out
\* was handed nothing.
LogInv ==
    /\ \A id \in DOMAIN cursor :
          /\ id < nextID /\ since[id] <= cursor[id]
          /\ ToSet(got[id]) \subseteq 1..cursor[id]
    /\ \A id \in ReaderIds : removed[id] \cup cut[id] \subseteq ToSet(got[id])
    /\ \A id \in ReaderIds : id >= nextID => got[id] = <<>>

Reading == {"send_and_read", "read", "append", "more"}

\* Who is going to read with a reader owns it, unless it is shared; only a read that
\* was answered has output, or an agent that knows of more.
CallInv(a) ==
    /\ pc[a] \in Reading => owner[call[a].rid] \in {{a}, {Shared}}
    /\ pc[a] \notin {"append", "more"} => out[a] = <<>>
    /\ pc[a] \in {"append", "more"} => call[a].rid < nextID
    /\ reply[a].more = "yes" => pc[a] = "idle" /\ reply[a].rid < nextID

\* With a reader that nobody owns nothing was read or shown.
OwnerInv ==
    \A id \in ReaderIds :
        /\ owner[id] = {} \/ id >= nextID => shown[id] = <<>>
        /\ id \in DOMAIN cursor /\ owner[id] = {} /\ wrote <= Size => cursor[id] = since[id]

\* The marker of a shared reader is no agent.
LEMMA SharedIsNobody == \A a \in Agents : {a} # {Shared} /\ {a} # {} /\ {Shared} # {}
BY StarterAssumption

\* A reader's owner is set once and given up for good.
LEMMA OwnerMoves ==
    ASSUME Types, [Next]_vars
    PROVE  \A id \in ReaderIds :
              owner'[id] = owner[id] \/ owner[id] = {} \/ owner'[id] = {Shared}
<1>1. ASSUME \/ \E n \in 1..MaxChunk : Emit(n)
             \/ Exit \/ Delete \/ Setsize \/ UNCHANGED vars
             \/ \E a \in Agents :
                   \/ SendInput(a) \/ ReadOutput(a) \/ AppendOutput(a) \/ Cancel(a)
                   \/ RegisterReader(a) \/ \E id \in ReaderIds : UnregisterReader(a, id)
                   \/ \E r \in Rows : ResizePty(a, r)
      PROVE  UNCHANGED owner
  BY <1>1 DEF Emit, Exit, Delete, Setsize, SendInput, ReadOutput, AppendOutput, Cancel,
              RegisterReader, UnregisterReader, ResizePty, readerVars, vars
<1>2. ASSUME NEW a \in Agents, NEW l, NEW id \in ReaderIds, NEW max, Call(a, l, id, max)
      PROVE  \A other \in ReaderIds : \/ owner'[other] = owner[other]
                                      \/ owner[other] = {} \/ owner'[other] = {Shared}
  BY <1>2, Called DEF Types, ReaderTypes
<1>3. ASSUME NEW a \in Agents, Reply(a)
      PROVE  \A id \in ReaderIds : owner'[id] = owner[id] \/ owner'[id] = {Shared}
  BY <1>3, Replied DEF Types, ReaderTypes
<1> QED
  BY <1>1, <1>2, <1>3, Actions

\* The next identifier never goes back.
LEMMA NextIDGrows == ASSUME Types, [Next]_vars PROVE nextID' \in Nat /\ nextID <= nextID'
<1>1. nextID \in Nat
  BY DEF Types, LogTypes
<1>2. UNCHANGED nextID \/ nextID' = nextID + 1
  BY Actions
  DEF Emit, LogWrite, Exit, LogClose, Delete, Setsize, Call, SendInput, ReadOutput, Deliver,
      LogDeliver, Nothing, AppendOutput, Reply, Cancel, RegisterReader, LogRegister,
      UnregisterReader, LogUnregister, ResizePty, vars, logVars
<1> QED
  BY <1>1, <1>2

\* An agent that does nothing keeps its invariant.
LEMMA OthersKeep ==
    ASSUME Types, [Next]_vars, NEW b \in Agents, CallInv(b),
           pc'[b] = pc[b], call'[b] = call[b], out'[b] = out[b], reply'[b] = reply[b]
    PROVE  CallInv(b)'
<1>1. call[b] \in Calls /\ reply[b] \in Replies
  BY DEF Types, CallTypes
<1>2. call[b].rid \in ReaderIds /\ reply[b].rid \in ReaderIds
  BY <1>1 DEF Calls, Replies
<1>3. nextID \in Nat /\ nextID' \in Nat /\ nextID <= nextID'
      /\ call[b].rid \in Nat /\ reply[b].rid \in Nat
  BY <1>2, NextIDGrows, Ids DEF Types, LogTypes
<1>4. pc'[b] \in Reading => owner'[call[b].rid] \in {{b}, {Shared}}
  BY <1>2, OwnerMoves, SharedIsNobody DEF CallInv
<1>5. pc'[b] \in {"append", "more"} => call[b].rid < nextID'
  BY <1>3 DEF CallInv
<1>6. reply[b].more = "yes" => reply[b].rid < nextID'
  BY <1>3 DEF CallInv
<1> QED
  BY <1>4, <1>5, <1>6 DEF CallInv

\* Every step keeps the calls with their readers and their output.
LEMMA CallInvStep ==
    ASSUME Types, LogInv, \A a \in Agents : CallInv(a), [Next]_vars
    PROVE  \A a \in Agents : CallInv(a)'
<1>t. /\ pc \in [Agents -> Places] /\ call \in [Agents -> Calls]
      /\ out \in [Agents -> Seq(Lines)] /\ reply \in [Agents -> Replies]
      /\ nextID \in Nat /\ owner \in [ReaderIds -> SUBSET (Agents \cup {Shared})]
      /\ \A a \in Agents : call[a].rid \in ReaderIds
  BY DEF Types, CallTypes, LogTypes, ReaderTypes, Calls
<1>1. ASSUME \/ \E n \in 1..MaxChunk : Emit(n)
             \/ Exit \/ Delete \/ Setsize \/ UNCHANGED vars
             \/ \E a \in Agents :
                   \/ Cancel(a) \/ RegisterReader(a)
                   \/ \E id \in ReaderIds : UnregisterReader(a, id)
                   \/ \E r \in Rows : ResizePty(a, r)
      PROVE  \A a \in Agents : CallInv(a)'
  <2>1. UNCHANGED <<pc, call, out, reply>>
    BY <1>1 DEF Emit, Exit, Delete, Setsize, Cancel, RegisterReader, UnregisterReader,
                ResizePty, Begin, callVars, vars
  <2> QED
    BY <2>1, OthersKeep
<1>2. ASSUME NEW a \in Agents, NEW l \in {"read", "send_and_read", "send"},
             NEW id \in ReaderIds, NEW max \in Cuts \cup {0}, Call(a, l, id, max)
      PROVE  \A b \in Agents : CallInv(b)'
  <2>1. /\ pc[a] = "idle" /\ pc' = [pc EXCEPT ![a] = l]
        /\ call' = [call EXCEPT ![a] = [rid |-> id, max |-> max]]
        /\ reply' = [reply EXCEPT ![a] = NoReply] /\ UNCHANGED out
    BY <1>2, Called
  <2>2. l = "send" \/ owner'[id] \in {{a}, {Shared}}
    <3>1. \/ (l = "send" \/ owner[id] = {a}) /\ UNCHANGED <<owner, shown>>
          \/ owner' = [owner EXCEPT ![id] = {a}]
          \/ owner' = [owner EXCEPT ![id] = {Shared}]
      BY <1>2, Called
    <3> QED
      BY <1>t, <3>1
  <2>3. pc'[a] = l /\ call'[a].rid = id /\ reply'[a].more = "unasked" /\ out'[a] = <<>>
    BY <1>t, <2>1 DEF CallInv, NoReply
  <2>4. CallInv(a)'
    BY <2>2, <2>3 DEF CallInv, Reading
  <2>5. ASSUME NEW b \in Agents, b # a PROVE CallInv(b)'
    BY <1>t, <2>1, <2>5, OthersKeep
  <2> QED
    BY <2>4, <2>5
<1>3. ASSUME NEW a \in Agents, SendInput(a) PROVE \A b \in Agents : CallInv(b)'
  <2>1. /\ pc[a] \in {"send", "send_and_read"} /\ UNCHANGED <<out, reply, owner>>
        /\ \/ pc' = [pc EXCEPT ![a] = "idle"] /\ call' = [call EXCEPT ![a] = NoCall]
           \/ /\ pc[a] = "send_and_read" /\ pc' = [pc EXCEPT ![a] = "read"]
              /\ UNCHANGED call
    BY <1>3, Sent
  <2>2. CallInv(a) /\ out[a] = <<>> /\ reply[a].more # "yes"
    BY <2>1 DEF CallInv
  <2>3. \/ pc'[a] = "idle"
        \/ pc[a] \in Reading /\ pc'[a] = "read" /\ call'[a] = call[a]
    BY <1>t, <2>1 DEF Reading
  <2>4. CallInv(a)'
    BY <2>1, <2>2, <2>3 DEF CallInv, Reading
  <2>5. ASSUME NEW b \in Agents, b # a PROVE CallInv(b)'
    BY <1>t, <2>1, <2>5, OthersKeep
  <2> QED
    BY <2>4, <2>5
<1>4. ASSUME NEW a \in Agents, ReadOutput(a) PROVE \A b \in Agents : CallInv(b)'
  <2>0. /\ pc[a] = "read" /\ UNCHANGED <<reply, owner, nextID>>
        /\ \/ /\ call[a].rid \in DOMAIN cursor
              /\ pc' = [pc EXCEPT ![a] = "append"] \/ pc' = [pc EXCEPT ![a] = "more"]
              /\ call' = [call EXCEPT ![a] = [call[a] EXCEPT !.max = 0]]
           \/ pc' = [pc EXCEPT ![a] = "idle"] /\ call' = [call EXCEPT ![a] = NoCall]
        /\ \/ UNCHANGED out
           \/ /\ pc' = [pc EXCEPT ![a] = "append"] \/ pc' = [pc EXCEPT ![a] = "more"]
              /\ \E text : out' = [out EXCEPT ![a] = Cut(text, call[a].max)]
    <3>1. CASE Deliver(a, ReaderOf(a))
      <4>1. PICK text \in Stripped(Interval(cursor[call[a].rid], wrote)) :
               /\ out' = [out EXCEPT ![a] = Cut(text, call[a].max)]
               /\ pc' = [pc EXCEPT ![a] =
                           IF Cut(text, call[a].max) = <<>> THEN "more" ELSE "append"]
        BY <1>4, <3>1, Delivered DEF Types
      <4>2. pc' = [pc EXCEPT ![a] = "append"] \/ pc' = [pc EXCEPT ![a] = "more"]
        BY <4>1
      <4>3. /\ pc[a] = "read" /\ UNCHANGED <<reply, owner, nextID>>
            /\ call[a].rid \in DOMAIN cursor
            /\ call' = [call EXCEPT ![a] = [call[a] EXCEPT !.max = 0]]
        BY <1>4, <3>1, Delivered DEF Types
      <4> QED
        BY <4>1, <4>2, <4>3
    <3>2. CASE Nothing(a, ReaderOf(a))
      BY <1>4, <3>2, NothingRead DEF logVars
    <3> QED
      BY <1>4, <3>1, <3>2 DEF ReadOutput
  <2>1. /\ pc[a] = "read" /\ UNCHANGED <<reply, owner, nextID>>
        /\ \/ /\ call[a].rid \in DOMAIN cursor
              /\ pc'[a] = "append" \/ pc'[a] = "more"
              /\ call'[a] = [call[a] EXCEPT !.max = 0]
           \/ pc'[a] = "idle"
        /\ out'[a] = out[a] \/ pc'[a] \in {"append", "more"}
        /\ \A b \in Agents \ {a} : pc'[b] = pc[b] /\ call'[b] = call[b] /\ out'[b] = out[b]
    BY <1>t, <2>0
  <2>2. out[a] = <<>> /\ reply[a].more # "yes" /\ owner[call[a].rid] \in {{a}, {Shared}}
    BY <2>1 DEF CallInv, Reading
  <2>3. [call[a] EXCEPT !.max = 0].rid = call[a].rid
    BY <1>t DEF Calls
  <2>4. call[a].rid \in DOMAIN cursor => call[a].rid < nextID
    BY DEF LogInv
  <2>5. CallInv(a)'
    BY <2>1, <2>2, <2>3, <2>4 DEF CallInv, Reading
  <2>6. ASSUME NEW b \in Agents, b # a PROVE CallInv(b)'
    BY <2>1, <2>6, OthersKeep
  <2> QED
    BY <2>5, <2>6
<1>5. ASSUME NEW a \in Agents, AppendOutput(a) PROVE \A b \in Agents : CallInv(b)'
  <2>1. /\ pc[a] = "append" /\ pc' = [pc EXCEPT ![a] = "more"]
        /\ UNCHANGED <<call, out, reply, owner, nextID>>
    BY <1>5 DEF AppendOutput, Goto, logVars
  <2>2. CallInv(a)'
    BY <1>t, <2>1 DEF CallInv, Reading
  <2>3. ASSUME NEW b \in Agents, b # a PROVE CallInv(b)'
    BY <1>t, <2>1, <2>3, OthersKeep
  <2> QED
    BY <2>2, <2>3
<1>6. ASSUME NEW a \in Agents, Reply(a) PROVE \A b \in Agents : CallInv(b)'
  <2>1. /\ pc[a] = "more" /\ pc' = [pc EXCEPT ![a] = "idle"]
        /\ call' = [call EXCEPT ![a] = NoCall] /\ out' = [out EXCEPT ![a] = <<>>]
        /\ UNCHANGED logVars
        /\ \/ UNCHANGED reply
           \/ \E more \in {"unasked", "yes", "no"}, rid \in {0, call[a].rid} :
                 /\ reply' = [reply EXCEPT ![a] = [rid |-> rid, more |-> more]]
                 /\ more = "yes" => rid = call[a].rid
    BY <1>6, Replied
  <2>2. call[a].rid < nextID /\ reply[a].more # "yes" /\ nextID' = nextID
    BY <2>1 DEF CallInv, logVars
  <2>3. pc'[a] = "idle" /\ out'[a] = <<>>
    BY <1>t, <2>1
  <2>4. reply'[a].more = "yes" => reply'[a].rid < nextID
    <3>1. CASE UNCHANGED reply
      BY <2>2, <3>1
    <3>2. ASSUME NEW more \in {"unasked", "yes", "no"}, NEW rid \in {0, call[a].rid},
                 reply' = [reply EXCEPT ![a] = [rid |-> rid, more |-> more]],
                 more = "yes" => rid = call[a].rid
          PROVE  reply'[a].more = "yes" => reply'[a].rid < nextID
      BY <1>t, <2>2, <3>2
    <3> QED
      BY <2>1, <3>1, <3>2
  <2>5. CallInv(a)'
    BY <2>2, <2>3, <2>4 DEF CallInv, Reading
  <2>6. ASSUME NEW b \in Agents, b # a PROVE CallInv(b)'
    <3>1. pc'[b] = pc[b] /\ call'[b] = call[b] /\ out'[b] = out[b] /\ reply'[b] = reply[b]
      <4>1. reply'[b] = reply[b]
        BY <1>t, <2>1, <2>6
      <4> QED
        BY <1>t, <2>1, <2>6, <4>1
    <3> QED
      BY <3>1, OthersKeep
  <2> QED
    BY <2>5, <2>6
<1> QED
  BY <1>1, <1>2, <1>3, <1>4, <1>5, <1>6, Actions

\* What most steps leave alone.
LEMMA LogUntouched ==
    ASSUME \/ Exit \/ Delete \/ Setsize \/ UNCHANGED vars
           \/ \E a \in Agents :
                 \/ \E l, id, max : Call(a, l, id, max)
                 \/ SendInput(a) \/ (ReadOutput(a) /\ Nothing(a, ReaderOf(a)))
                 \/ AppendOutput(a) \/ Reply(a) \/ Cancel(a)
                 \/ \E r \in Rows : ResizePty(a, r)
    PROVE  UNCHANGED <<wrote, nextID, cursor, got, removed, cut, since>>
BY DEF Exit, LogClose, Delete, Setsize, Call, SendInput, ReadOutput, Nothing, AppendOutput,
       Reply, Cancel, ResizePty, readerVars, vars, logVars

\* A longer log pushes a cursor on, but not beyond its end; as long as the log is no
\* longer than a reader's view it pushes none.
LEMMA Pushed ==
    ASSUME NEW c \in Nat, NEW w \in Nat, c <= w, NEW n \in Nat
    PROVE  /\ PushedBy(c, w + n) \in Nat
           /\ c <= PushedBy(c, w + n) /\ PushedBy(c, w + n) <= w + n
           /\ c < w => PushedBy(c, w + n) < w + n
           /\ w + n <= Size => PushedBy(c, w + n) = c
BY BoundsAssumption DEF PushedBy

\* The effect of a write on the readers.
LEMMA Emitted ==
    ASSUME LogTypes, NEW n \in 1..MaxChunk, Emit(n)
    PROVE  /\ n \in Nat /\ wrote' = wrote + n /\ DOMAIN cursor' = DOMAIN cursor
           /\ \A id \in DOMAIN cursor : cursor'[id] = PushedBy(cursor[id], wrote + n)
           /\ \A id \in DOMAIN cursor :
                 /\ cursor[id] \in Nat /\ cursor'[id] \in Nat /\ cursor[id] <= wrote
                 /\ cursor[id] <= cursor'[id]
                 /\ cursor[id] < wrote => cursor'[id] < wrote'
                 /\ wrote' <= Size => cursor'[id] = cursor[id]
           /\ UNCHANGED <<nextID, got, removed, cut, refused, since, owner, shown, closed>>
<1>1. /\ n \in Nat /\ wrote' = wrote + n
      /\ cursor' = [id \in DOMAIN cursor |-> PushedBy(cursor[id], wrote + n)]
      /\ UNCHANGED <<nextID, got, removed, cut, refused, since, owner, shown, closed>>
  BY BoundsAssumption DEF Emit, LogWrite, readerVars
<1>2. ASSUME NEW id \in DOMAIN cursor
      PROVE  cursor[id] \in Nat /\ wrote \in Nat /\ cursor[id] <= wrote
  BY BoundsAssumption DEF LogTypes
<1>3. DOMAIN cursor' = DOMAIN cursor
      /\ \A id \in DOMAIN cursor : cursor'[id] = PushedBy(cursor[id], wrote + n)
  BY <1>1
<1> QED
  BY <1>1, <1>2, <1>3, Pushed

\* The cursors, and what lies behind them.
LEMMA LogInvStep == ASSUME Types, LogInv, [Next]_vars PROVE LogInv'
<1>l. LogTypes /\ CallTypes
  BY DEF Types
<1>t. /\ wrote \in Nat /\ nextID \in Nat /\ DOMAIN cursor \subseteq ReaderIds
      /\ \A id \in DOMAIN cursor : cursor[id] \in Nat /\ cursor[id] <= wrote
      /\ got \in [ReaderIds -> Seq(Lines)] /\ cut \in [ReaderIds -> SUBSET Lines]
      /\ removed \in [ReaderIds -> SUBSET Lines]
      /\ \A id \in ReaderIds : since[id] \in Nat /\ since[id] <= wrote /\ id \in Nat
      /\ since \in [ReaderIds -> 0..wrote]
  BY Ids, BoundsAssumption DEF Types, LogTypes, ReaderTypes
<1>1. CASE UNCHANGED <<wrote, nextID, cursor, got, removed, cut, since>>
  BY <1>1 DEF LogInv
<1>2. ASSUME NEW n \in 1..MaxChunk, Emit(n) PROVE LogInv'
  <2>1. /\ DOMAIN cursor' = DOMAIN cursor
        /\ \A id \in DOMAIN cursor : cursor'[id] \in Nat /\ cursor[id] <= cursor'[id]
        /\ UNCHANGED <<nextID, got, removed, cut, since>>
    BY <1>2, <1>l, Emitted
  <2>2. ASSUME NEW id \in DOMAIN cursor
        PROVE  since[id] <= cursor'[id] /\ ToSet(got[id]) \subseteq 1..cursor'[id]
    <3>1. /\ since[id] \in Nat /\ cursor[id] \in Nat /\ cursor'[id] \in Nat
          /\ cursor[id] <= cursor'[id]
      BY <1>t, <2>1
    <3>2. since[id] <= cursor[id] /\ ToSet(got[id]) \subseteq 1..cursor[id]
      BY DEF LogInv
    <3> QED
      BY <3>1, <3>2
  <2> QED
    BY <2>1, <2>2 DEF LogInv
<1>3. ASSUME NEW a \in Agents, ReadOutput(a), Deliver(a, ReaderOf(a)) PROVE LogInv'
  <2> DEFINE id == call[a].rid  lines == Interval(cursor[id], wrote)
  <2>0. PICK text \in Stripped(lines) :
             /\ removed' = [removed EXCEPT ![id] = removed[id] \cup
                              (((cursor[id] + 1)..wrote) \ ToSet(text))]
             /\ cut' = [cut EXCEPT ![id] =
                          cut[id] \cup (ToSet(text) \ ToSet(Cut(text, call[a].max)))]
    BY <1>3, <1>l, Delivered
  <2> DEFINE less == ((cursor[id] + 1)..wrote) \ ToSet(text)
             rest == ToSet(text) \ ToSet(Cut(text, call[a].max))
  <2>1. /\ id \in DOMAIN cursor /\ id \in ReaderIds
        /\ got' = [got EXCEPT ![id] = got[id] \o lines]
        /\ cursor' = [cursor EXCEPT ![id] = wrote]
        /\ removed' = [removed EXCEPT ![id] = removed[id] \cup less]
        /\ cut' = [cut EXCEPT ![id] = cut[id] \cup rest]
        /\ UNCHANGED <<nextID, since>>
    BY <1>3, <1>l, <2>0, Delivered
  <2>2. /\ lines \in Seq(Lines) /\ ToSet(lines) = (cursor[id] + 1)..wrote
        /\ less \subseteq ToSet(lines) /\ rest \subseteq ToSet(lines)
    <3>1. /\ lines \in Seq(Lines) /\ ToSet(lines) = (cursor[id] + 1)..wrote
          /\ ToSet(text) \subseteq ToSet(lines)
      BY <1>l, <2>1, Handed
    <3> QED
      BY <3>1
  <2> HIDE DEF lines, less, rest
  <2>3. ToSet(got[id] \o lines) = ToSet(got[id]) \cup ToSet(lines)
    BY <1>t, <2>1, <2>2, ConcatSet
  <2>4. ToSet(got[id] \o lines) \subseteq 1..wrote
    <3>1. ToSet(got[id]) \subseteq 1..cursor[id] /\ cursor[id] \in Nat /\ cursor[id] <= wrote
      BY <1>t, <2>1 DEF LogInv
    <3> QED
      BY <1>t, <2>2, <2>3, <3>1
  <2>5. ASSUME NEW other \in DOMAIN cursor'
        PROVE  /\ other < nextID' /\ since'[other] <= cursor'[other]
               /\ ToSet(got'[other]) \subseteq 1..cursor'[other]
    <3>1. other \in DOMAIN cursor /\ DOMAIN cursor' = DOMAIN cursor /\ other \in ReaderIds
      BY <1>t, <2>1
    <3>2. CASE other = id
      <4>1. cursor'[other] = wrote /\ got'[other] = got[id] \o lines
        BY <1>t, <2>1, <3>1, <3>2
      <4> QED
        BY <1>t, <2>1, <2>4, <3>1, <3>2, <4>1 DEF LogInv
    <3>3. CASE other # id
      <4>1. cursor'[other] = cursor[other] /\ got'[other] = got[other]
        BY <1>t, <2>1, <3>1, <3>3
      <4> QED
        BY <2>1, <3>1, <4>1 DEF LogInv
    <3> QED
      BY <3>2, <3>3
  <2>6. ASSUME NEW other \in ReaderIds
        PROVE  /\ removed'[other] \cup cut'[other] \subseteq ToSet(got'[other])
               /\ other >= nextID' => got'[other] = <<>>
    <3>1. CASE other = id
      <4>1. /\ got'[other] = got[id] \o lines
            /\ removed'[other] = removed[id] \cup less /\ cut'[other] = cut[id] \cup rest
        BY <1>t, <2>1, <3>1
      <4>2. removed[id] \cup cut[id] \subseteq ToSet(got[id]) /\ id < nextID
        BY <2>1 DEF LogInv
      <4>3. ~(other >= nextID')
        BY <1>t, <2>1, <3>1, <4>2
      <4> QED
        BY <2>2, <2>3, <4>1, <4>2, <4>3
    <3>2. CASE other # id
      <4>1. got'[other] = got[other] /\ removed'[other] = removed[other]
            /\ cut'[other] = cut[other]
        BY <1>t, <2>1, <3>2
      <4> QED
        BY <2>1, <4>1 DEF LogInv
    <3> QED
      BY <3>1, <3>2
  <2> QED
    BY <2>5, <2>6 DEF LogInv
<1>4. ASSUME NEW a \in Agents, RegisterReader(a) PROVE LogInv'
  <2>1. /\ nextID \in ReaderIds /\ nextID' = nextID + 1
        /\ cursor' = [id \in DOMAIN cursor \cup {nextID} |->
                        IF id = nextID THEN wrote ELSE cursor[id]]
        /\ since' = [since EXCEPT ![nextID] = wrote]
        /\ UNCHANGED <<got, removed, cut>>
    BY <1>4 DEF RegisterReader, LogRegister
  <2>2. ASSUME NEW id \in DOMAIN cursor'
        PROVE  /\ id < nextID' /\ since'[id] <= cursor'[id]
               /\ ToSet(got[id]) \subseteq 1..cursor'[id]
    <3>1. CASE id = nextID
      <4>1. cursor'[id] = wrote /\ since'[id] = wrote /\ got[id] = <<>>
        BY <1>t, <2>1, <3>1 DEF LogInv
      <4>2. ToSet(got[id]) = {}
        BY <4>1 DEF ToSet
      <4> QED
        BY <1>t, <2>1, <3>1, <4>1, <4>2
    <3>2. CASE id # nextID
      <4>1. id \in DOMAIN cursor /\ cursor'[id] = cursor[id] /\ since'[id] = since[id]
        BY <1>t, <2>1, <3>2
      <4>2. id < nextID /\ id \in Nat
        BY <1>t, <4>1 DEF LogInv
      <4>3. id < nextID'
        BY <1>t, <2>1, <4>2
      <4> QED
        BY <4>1, <4>3 DEF LogInv
    <3> QED
      BY <3>1, <3>2
  <2>3. ASSUME NEW id \in ReaderIds, id >= nextID' PROVE got[id] = <<>>
    <3>1. id >= nextID
      BY <1>t, <2>1, <2>3
    <3> QED
      BY <3>1 DEF LogInv
  <2> QED
    BY <2>1, <2>2, <2>3 DEF LogInv
<1>5. ASSUME NEW a \in Agents, NEW id \in ReaderIds, UnregisterReader(a, id) PROVE LogInv'
  <2>1. /\ cursor' = [other \in DOMAIN cursor \ {id} |-> cursor[other]]
        /\ UNCHANGED <<nextID, got, removed, cut, since>>
    BY <1>5 DEF UnregisterReader, LogUnregister, readerVars
  <2> QED
    BY <2>1 DEF LogInv
<1> QED
  BY <1>1, <1>2, <1>3, <1>4, <1>5, LogUntouched, Actions DEF ReadOutput

\* Nothing is shown or read with a reader that has no owner.
LEMMA OwnerInvStep ==
    ASSUME Types, LogInv, \A a \in Agents : CallInv(a), OwnerInv, [Next]_vars
    PROVE  OwnerInv'
<1>l. LogTypes /\ CallTypes
  BY DEF Types
<1>t. /\ wrote \in Nat /\ nextID \in Nat /\ DOMAIN cursor \subseteq ReaderIds
      /\ \A id \in DOMAIN cursor : cursor[id] \in Nat /\ cursor[id] <= wrote
      /\ \A id \in ReaderIds : id \in Nat
      /\ since \in [ReaderIds -> 0..wrote]
      /\ owner \in [ReaderIds -> SUBSET (Agents \cup {Shared})]
      /\ shown \in [ReaderIds -> Seq(Lines)]
      /\ \A a \in Agents : call[a].rid \in ReaderIds
  BY Ids, BoundsAssumption DEF Types, LogTypes, ReaderTypes, CallTypes, Calls
<1>1. CASE UNCHANGED <<wrote, nextID, cursor, since, owner, shown>>
  BY <1>1 DEF OwnerInv
<1>2. ASSUME NEW n \in 1..MaxChunk, Emit(n) PROVE OwnerInv'
  <2>1. /\ n \in Nat /\ wrote' = wrote + n /\ DOMAIN cursor' = DOMAIN cursor
        /\ \A id \in DOMAIN cursor : wrote' <= Size => cursor'[id] = cursor[id]
        /\ UNCHANGED <<nextID, since, owner, shown>>
    BY <1>2, <1>l, Emitted
  <2>2. wrote' <= Size => wrote <= Size
    BY <1>t, <2>1, BoundsAssumption
  <2> QED
    BY <2>1, <2>2 DEF OwnerInv
<1>3. ASSUME NEW a \in Agents, NEW l, NEW id \in ReaderIds, NEW max, Call(a, l, id, max)
      PROVE  OwnerInv'
  <2>1. UNCHANGED <<wrote, nextID, cursor, since>>
    BY <1>3, LogUntouched
  <2>2. \/ UNCHANGED <<owner, shown>>
        \/ owner[id] = {} /\ owner' = [owner EXCEPT ![id] = {a}] /\ UNCHANGED shown
        \/ /\ owner' = [owner EXCEPT ![id] = {Shared}]
           /\ shown' = [shown EXCEPT ![id] = <<>>]
    BY <1>3, Called
  <2>3. ASSUME NEW other \in ReaderIds
        PROVE  /\ owner'[other] = {} => owner[other] = {}
               /\ shown'[other] = shown[other] \/ shown'[other] = <<>>
    BY ZenonT(30), <1>t, <2>2, <2>3
  <2> QED
    BY <2>1, <2>3 DEF OwnerInv
<1>4. ASSUME NEW a \in Agents, ReadOutput(a), Deliver(a, ReaderOf(a)) PROVE OwnerInv'
  <2> DEFINE id == call[a].rid
  <2>1. /\ pc[a] = "read" /\ id \in DOMAIN cursor
        /\ cursor' = [cursor EXCEPT ![id] = wrote]
        /\ UNCHANGED <<wrote, nextID, owner, shown, since>>
    BY <1>4, <1>l, Delivered
  <2>2. owner[id] # {}
    BY <2>1, SharedIsNobody DEF CallInv, Reading
  <2>3. \A other \in DOMAIN cursor' : other \in DOMAIN cursor
           /\ (other # id => cursor'[other] = cursor[other])
    BY <2>1
  <2> QED
    BY <2>1, <2>2, <2>3 DEF OwnerInv
<1>5. ASSUME NEW a \in Agents, Reply(a) PROVE OwnerInv'
  <2> DEFINE id == call[a].rid
  <2>1. UNCHANGED <<wrote, nextID, cursor, since>> /\ pc[a] = "more"
    BY <1>5, LogUntouched, Replied
  <2>2. \/ /\ owner' = [owner EXCEPT ![id] = {Shared}]
           /\ shown' = [shown EXCEPT ![id] = <<>>]
        \/ UNCHANGED <<owner, shown>>
        \/ shown' = [shown EXCEPT ![id] = shown[id] \o out[a]] /\ UNCHANGED owner
    BY <1>5, Replied
  <2>3. owner[id] # {} /\ id < nextID /\ id \in ReaderIds
    BY <1>t, <2>1, SharedIsNobody DEF CallInv, Reading
  <2>4. ASSUME NEW other \in ReaderIds, other # id
        PROVE  owner'[other] = owner[other] /\ shown'[other] = shown[other]
    BY <1>t, <2>2, <2>4
  <2>5. owner'[id] # {} /\ ~(id >= nextID)
    <3>1. owner'[id] = {Shared} \/ owner'[id] = owner[id]
      BY <1>t, <2>2, <2>3
    <3>2. id \in Nat /\ nextID \in Nat
      BY <1>t, <2>3
    <3>3. ~(id >= nextID)
      BY <2>3, <3>2
    <3> QED
      BY <2>3, <3>1, <3>3
  <2> QED
    BY <2>1, <2>4, <2>5 DEF OwnerInv
<1>6. ASSUME NEW a \in Agents, RegisterReader(a) PROVE OwnerInv'
  <2>1. /\ nextID \in ReaderIds /\ nextID' = nextID + 1
        /\ cursor' = [id \in DOMAIN cursor \cup {nextID} |->
                        IF id = nextID THEN wrote ELSE cursor[id]]
        /\ since' = [since EXCEPT ![nextID] = wrote]
        /\ UNCHANGED <<wrote, owner, shown>>
    BY <1>6 DEF RegisterReader, LogRegister
  <2>2. ASSUME NEW id \in ReaderIds, owner[id] = {} \/ id >= nextID' PROVE shown[id] = <<>>
    <3>0. id \in Nat /\ nextID \in Nat /\ nextID' = nextID + 1
      BY <1>t, <2>1
    <3>1. id >= nextID' => id >= nextID
      BY <3>0
    <3> QED
      BY <2>2, <3>1 DEF OwnerInv
  <2>3. ASSUME NEW id \in ReaderIds, id \in DOMAIN cursor', owner[id] = {}, wrote <= Size
        PROVE  cursor'[id] = since'[id]
    <3>1. CASE id = nextID
      BY <1>t, <2>1, <3>1
    <3>2. CASE id # nextID
      <4>1. id \in DOMAIN cursor /\ cursor'[id] = cursor[id] /\ since'[id] = since[id]
        BY <1>t, <2>1, <2>3, <3>2
      <4> QED
        BY <2>3, <4>1 DEF OwnerInv
    <3> QED
      BY <3>1, <3>2
  <2> QED
    BY <2>1, <2>2, <2>3 DEF OwnerInv
<1>7. ASSUME NEW a \in Agents, NEW id \in ReaderIds, UnregisterReader(a, id) PROVE OwnerInv'
  <2>1. /\ cursor' = [other \in DOMAIN cursor \ {id} |-> cursor[other]]
        /\ UNCHANGED <<wrote, nextID, since, owner, shown>>
    BY <1>7 DEF UnregisterReader, LogUnregister, readerVars
  <2> QED
    BY <2>1 DEF OwnerInv
<1>8. ASSUME \/ Exit \/ Delete \/ Setsize \/ UNCHANGED vars
             \/ \E a \in Agents :
                   \/ SendInput(a) \/ (ReadOutput(a) /\ Nothing(a, ReaderOf(a)))
                   \/ AppendOutput(a) \/ Cancel(a) \/ \E r \in Rows : ResizePty(a, r)
      PROVE  UNCHANGED <<wrote, nextID, cursor, since, owner, shown>>
  <2>1. UNCHANGED <<owner, shown>>
    BY <1>8 DEF Exit, Delete, Setsize, SendInput, ReadOutput, AppendOutput, Cancel,
                ResizePty, readerVars, vars
  <2> QED
    BY <1>8, <2>1, LogUntouched
<1> QED
  BY <1>1, <1>2, <1>3, <1>4, <1>5, <1>6, <1>7, <1>8, Actions DEF ReadOutput

ReaderInv == LogInv /\ OwnerInv /\ \A a \in Agents : CallInv(a)

\* The readers, their owners and the calls agree in every reachable state.
LEMMA ReaderInvariant == Spec => []ReaderInv
<1>1. ASSUME Init PROVE ReaderInv
  <2>1. LogInv
    <3>1. /\ DOMAIN cursor = {0} /\ cursor[0] = 0 /\ nextID = 1
          /\ \A id \in ReaderIds : got[id] = <<>> /\ removed[id] = {} /\ cut[id] = {}
                                      /\ since[id] = 0
      BY <1>1 DEF Init
    <3>2. ToSet(<<>>) = {}
      BY DEF ToSet
    <3>3. \A id \in DOMAIN cursor : id = 0 /\ id < nextID /\ id \in ReaderIds
      BY <3>1, Ids
    <3>4. ASSUME NEW id \in DOMAIN cursor
          PROVE  since[id] <= cursor[id] /\ ToSet(got[id]) \subseteq 1..cursor[id]
      BY <3>1, <3>2, <3>3
    <3>5. \A id \in ReaderIds : removed[id] \cup cut[id] \subseteq ToSet(got[id])
      BY <3>1
    <3> QED
      BY <3>1, <3>3, <3>4, <3>5 DEF LogInv
  <2>2. OwnerInv
    BY <1>1 DEF Init, OwnerInv
  <2>3. ASSUME NEW a \in Agents PROVE CallInv(a)
    BY <1>1, Ids DEF Init, CallInv, Reading, NoCall, NoReply, Initial
  <2> QED
    BY <2>1, <2>2, <2>3 DEF ReaderInv
<1>2. ASSUME TypeOK, ReaderInv, [Next]_vars PROVE ReaderInv'
  <2>1. Types
    BY <1>2 DEF TypeOK, Types
  <2> QED
    BY <1>2, <2>1, LogInvStep, OwnerInvStep, CallInvStep DEF ReaderInv
<1> QED
  BY <1>1, <1>2, TypeInvariant, PTL DEF Spec

--------------------------------------------------------------------------------
(* has_more. *)

\* Nobody but its owner moves the cursor of a reader, and who knows of more is idle.
LEMMA MoreStep == ASSUME Types, ReaderInv, HasMoreIsTrue, [Next]_vars PROVE HasMoreIsTrue'
<1>l. LogTypes /\ CallTypes /\ LogInv /\ \A a \in Agents : CallInv(a)
  BY DEF Types, ReaderInv
<1>t. /\ DOMAIN cursor \subseteq ReaderIds /\ nextID \in Nat /\ ReaderIds \subseteq Nat
      /\ reply \in [Agents -> Replies] /\ pc \in [Agents -> Places]
      /\ owner \in [ReaderIds -> SUBSET (Agents \cup {Shared})]
      /\ \A a \in Agents : call[a].rid \in ReaderIds /\ reply[a].rid \in ReaderIds
  BY Ids DEF Types, LogTypes, ReaderTypes, CallTypes, Calls, Replies
<1> SUFFICES ASSUME NEW b \in Agents, reply'[b].more = "yes",
                    owner'[reply'[b].rid] = {b}, reply'[b].rid \in DOMAIN cursor'
             PROVE  cursor'[reply'[b].rid] < wrote'
  BY DEF HasMoreIsTrue, Owns
<1> DEFINE rid == reply[b].rid
\* The agent has known it before: then the reader was its own.
<1>k. ASSUME reply'[b] = reply[b], owner'[rid] = owner[rid], rid \in DOMAIN cursor
      PROVE  /\ cursor[rid] < wrote /\ rid < nextID /\ pc[b] = "idle" /\ owner[rid] = {b}
             /\ rid \in ReaderIds
  BY <1>k, <1>l, <1>t DEF HasMoreIsTrue, Owns, CallInv
<1>1. CASE UNCHANGED <<wrote, cursor, owner, reply>>
  BY <1>1, <1>k
<1>2. ASSUME NEW n \in 1..MaxChunk, Emit(n) PROVE cursor'[reply'[b].rid] < wrote'
  <2>1. /\ DOMAIN cursor' = DOMAIN cursor /\ UNCHANGED owner
        /\ \A id \in DOMAIN cursor : cursor[id] < wrote => cursor'[id] < wrote'
    BY <1>2, <1>l, Emitted
  <2>2. UNCHANGED reply
    BY <1>2 DEF Emit, callVars
  <2> QED
    BY <1>k, <2>1, <2>2
<1>3. ASSUME NEW a \in Agents, NEW l, NEW id \in ReaderIds, NEW max, Call(a, l, id, max)
      PROVE  cursor'[reply'[b].rid] < wrote'
  <2>1. UNCHANGED <<wrote, cursor>>
    BY <1>3, LogUntouched
  <2>2. reply' = [reply EXCEPT ![a] = NoReply]
        /\ (\/ UNCHANGED owner \/ owner' = [owner EXCEPT ![id] = {a}]
            \/ owner' = [owner EXCEPT ![id] = {Shared}])
    BY <1>3, Called
  <2>3. b # a /\ reply'[b] = reply[b]
    BY <1>t, <2>2 DEF NoReply
  <2>4. owner'[rid] = owner[rid]
    BY <1>t, <2>2, <2>3, SharedIsNobody
  <2> QED
    BY <1>k, <2>1, <2>3, <2>4
<1>4. ASSUME NEW a \in Agents, ReadOutput(a), Deliver(a, ReaderOf(a))
      PROVE  cursor'[reply'[b].rid] < wrote'
  <2>1. /\ pc[a] = "read" /\ call[a].rid \in DOMAIN cursor
        /\ cursor' = [cursor EXCEPT ![call[a].rid] = wrote]
        /\ UNCHANGED <<wrote, owner, reply>>
    BY <1>4, <1>l, Delivered
  <2>2. cursor[rid] < wrote /\ pc[b] = "idle" /\ owner[rid] = {b} /\ rid \in DOMAIN cursor
    BY <1>k, <2>1
  <2>3. owner[call[a].rid] \in {{a}, {Shared}}
    BY <1>l, <2>1 DEF CallInv, Reading
  <2>4. call[a].rid # rid
    BY <2>1, <2>2, <2>3, SharedIsNobody
  <2> QED
    BY <2>1, <2>2, <2>4
<1>5. ASSUME NEW a \in Agents, Reply(a) PROVE cursor'[reply'[b].rid] < wrote'
  <2>1. UNCHANGED <<wrote, cursor>>
    BY <1>5, LogUntouched
  <2>2. \/ owner' = [owner EXCEPT ![call[a].rid] = {Shared}] /\ UNCHANGED reply
        \/ UNCHANGED <<owner, reply>>
        \/ /\ UNCHANGED owner
           /\ \E more \in {"unasked", "yes", "no"}, r \in {0, call[a].rid} :
                 /\ reply' = [reply EXCEPT ![a] = [rid |-> r, more |-> more]]
                 /\ more = "yes" => r = call[a].rid /\ cursor[r] < wrote
    BY ZenonT(30), <1>5, Replied
  <2>3. CASE reply'[b] = reply[b]
    <3>1. owner'[rid] = owner[rid]
      BY <1>t, <2>2, <2>3, SharedIsNobody
    <3> QED
      BY <1>k, <2>1, <2>3, <3>1
  <2>4. CASE reply'[b] # reply[b]
    <3>1. PICK more \in {"unasked", "yes", "no"}, r \in {0, call[a].rid} :
             /\ reply' = [reply EXCEPT ![a] = [rid |-> r, more |-> more]]
             /\ more = "yes" => r = call[a].rid /\ cursor[r] < wrote
      BY <2>2, <2>4
    <3>2. b = a /\ reply'[b] = [rid |-> r, more |-> more]
      BY <1>t, <2>4, <3>1
    <3>3. more = "yes" /\ reply'[b].rid = r
      BY <3>2
    <3> QED
      BY <2>1, <3>1, <3>3
  <2> QED
    BY <2>3, <2>4
<1>6. ASSUME NEW a \in Agents, RegisterReader(a) PROVE cursor'[reply'[b].rid] < wrote'
  <2>1. /\ cursor' = [id \in DOMAIN cursor \cup {nextID} |->
                        IF id = nextID THEN wrote ELSE cursor[id]]
        /\ UNCHANGED <<wrote, owner, reply>>
    BY <1>6 DEF RegisterReader, LogRegister, callVars
  <2>2. rid \in Nat /\ rid < nextID
    BY <1>l, <1>t, <2>1 DEF CallInv
  <2>3. rid # nextID
    BY <1>t, <2>2
  <2>4. rid \in DOMAIN cursor /\ cursor'[rid] = cursor[rid]
    BY <2>1, <2>3
  <2> QED
    BY <1>k, <2>1, <2>4
<1>7. ASSUME NEW a \in Agents, NEW id \in ReaderIds, UnregisterReader(a, id)
      PROVE  cursor'[reply'[b].rid] < wrote'
  <2>1. /\ cursor' = [other \in DOMAIN cursor \ {id} |-> cursor[other]]
        /\ UNCHANGED <<wrote, owner, reply>>
    BY <1>7 DEF UnregisterReader, LogUnregister, readerVars, callVars
  <2> QED
    BY <1>k, <2>1
<1>8. ASSUME \/ Exit \/ Delete \/ Setsize \/ UNCHANGED vars
             \/ \E a \in Agents :
                   \/ SendInput(a) \/ (ReadOutput(a) /\ Nothing(a, ReaderOf(a)))
                   \/ AppendOutput(a) \/ Cancel(a) \/ \E r \in Rows : ResizePty(a, r)
      PROVE  UNCHANGED <<wrote, cursor, owner, reply>>
  <2>1. UNCHANGED <<owner, reply>>
    BY <1>8 DEF Exit, Delete, Setsize, SendInput, ReadOutput, AppendOutput, Cancel,
                ResizePty, readerVars, callVars, vars
  <2> QED
    BY <1>8, <2>1, LogUntouched
<1> QED
  BY <1>1, <1>2, <1>3, <1>4, <1>5, <1>6, <1>7, <1>8, Actions DEF ReadOutput

\* An agent told has_more finds more when it reads again, if the reader is its own and
\* still there (handlers.go:163, asked after the read).
THEOREM MoreIsThere == Spec => []HasMoreIsTrue
<1>1. Init => HasMoreIsTrue
  BY DEF Init, HasMoreIsTrue, NoReply, Initial
<1>2. TypeOK /\ ReaderInv /\ HasMoreIsTrue /\ [Next]_vars => HasMoreIsTrue'
  <2>1. TypeOK => Types
    BY DEF TypeOK, Types
  <2> QED
    BY <2>1, MoreStep
<1> QED
  BY <1>1, <1>2, TypeInvariant, ReaderInvariant, PTL DEF Spec

--------------------------------------------------------------------------------
(* What an agent with a reader of its own is shown. *)

\* Output of the call under way that was read with reader id.
Held(b, id) == IF call[b].rid = id THEN out[b] ELSE <<>>

\* Lines that passed behind reader id since it registered and that it should have shown.
Due(id) == ((since[id] + 1)..cursor[id]) \ (removed[id] \cup cut[id])

\* OwnReaderSeesAll for one agent and one reader.
OwnInv(b, id) ==
    Owns(b, id) /\ wrote <= Size
        => InOrder(shown[id] \o Held(b, id)) /\ ToSet(shown[id] \o Held(b, id)) = Due(id)

\* Nothing is in order.
LEMMA NothingInOrder == InOrder(<<>>) /\ ToSet(<<>>) = {} /\ <<>> \o <<>> = <<>>
<1>1. <<>> \o <<>> = <<>>
  BY EmptySeq, ConcatEmptySeq
<1> QED
  BY <1>1 DEF InOrder, ToSet

LEMMA HeldType ==
    ASSUME CallTypes, NEW b \in Agents, NEW id
    PROVE  Held(b, id) \in Seq(Lines) /\ (out[b] = <<>> => Held(b, id) = <<>>)
BY EmptySeq DEF Held, CallTypes

\* Nothing is lost if the reader, what was shown of it and what is held stay as they are.
LEMMA OwnFrame ==
    ASSUME NEW b \in Agents, NEW id \in ReaderIds, OwnInv(b, id),
           owner'[id] = owner[id], shown'[id] = shown[id], cut'[id] = cut[id],
           removed'[id] = removed[id],
           since'[id] = since[id], id \in DOMAIN cursor' => id \in DOMAIN cursor,
           id \in DOMAIN cursor' /\ wrote' <= Size => cursor'[id] = cursor[id],
           wrote' <= Size => wrote <= Size,
           Held(b, id)' = Held(b, id)
    PROVE  OwnInv(b, id)'
<1>1. Due(id)' = ((since'[id] + 1)..cursor'[id]) \ (removed'[id] \cup cut'[id])
  BY DEF Due
<1>2. id \in DOMAIN cursor' /\ wrote' <= Size => Due(id)' = Due(id)
  BY <1>1 DEF Due
<1>3. OwnInv(b, id)' <=>
          (Owns(b, id)' /\ wrote' <= Size
             => /\ InOrder(shown'[id] \o Held(b, id)')
                /\ ToSet(shown'[id] \o Held(b, id)') = Due(id)')
  BY DEF OwnInv, InOrder, ToSet
<1> QED
  BY <1>2, <1>3 DEF OwnInv, Owns

\* The read of the owner adds all that was missing, or it is cut.
LEMMA OwnRead ==
    ASSUME Types, ReaderInv, NEW b \in Agents, NEW id \in ReaderIds, OwnInv(b, id),
           NEW a \in Agents, ReadOutput(a), Deliver(a, ReaderOf(a))
    PROVE  OwnInv(b, id)'
<1>l. LogTypes /\ CallTypes /\ LogInv /\ \A c \in Agents : CallInv(c)
  BY DEF Types, ReaderInv
<1> DEFINE rid == call[a].rid  lines == Interval(cursor[rid], wrote)
<1>0. PICK text \in Stripped(lines) :
           /\ out' = [out EXCEPT ![a] = Cut(text, call[a].max)]
           /\ removed' = [removed EXCEPT ![rid] = removed[rid] \cup
                            (((cursor[rid] + 1)..wrote) \ ToSet(text))]
           /\ cut' = [cut EXCEPT ![rid] =
                        cut[rid] \cup (ToSet(text) \ ToSet(Cut(text, call[a].max)))]
  BY <1>l, Delivered
<1> DEFINE kept == Cut(text, call[a].max)
           less == ((cursor[rid] + 1)..wrote) \ ToSet(text)
           rest == ToSet(text) \ ToSet(kept)
<1>1. /\ pc[a] = "read" /\ rid \in DOMAIN cursor /\ rid \in ReaderIds
      /\ cursor' = [cursor EXCEPT ![rid] = wrote]
      /\ out' = [out EXCEPT ![a] = kept]
      /\ removed' = [removed EXCEPT ![rid] = removed[rid] \cup less]
      /\ cut' = [cut EXCEPT ![rid] = cut[rid] \cup rest]
      /\ call' = [call EXCEPT ![a] = [call[a] EXCEPT !.max = 0]]
      /\ UNCHANGED <<wrote, owner, shown, since>>
  BY <1>l, <1>0, Delivered
<1>2. /\ cursor[rid] \in Nat /\ wrote \in Nat /\ cursor[rid] <= wrote
      /\ kept \in Seq(Lines) /\ InOrder(kept)
      /\ ToSet(kept) = ((cursor[rid] + 1)..wrote) \ (less \cup rest)
      /\ less \cup rest \subseteq (cursor[rid] + 1)..wrote
  <2>1. /\ cursor[rid] \in Nat /\ wrote \in Nat /\ cursor[rid] <= wrote
        /\ ToSet(lines) = (cursor[rid] + 1)..wrote /\ ToSet(text) \subseteq ToSet(lines)
        /\ kept \in Seq(Lines) /\ InOrder(kept) /\ ToSet(kept) \subseteq ToSet(text)
    BY <1>l, <1>1, Handed
  <2> QED
    BY <2>1
<1>3. out[a] = <<>> /\ owner[rid] \in {{a}, {Shared}}
  BY <1>l, <1>1 DEF CallInv, Reading
<1>t. /\ out \in [Agents -> Seq(Lines)] /\ call \in [Agents -> Calls]
      /\ cut \in [ReaderIds -> SUBSET Lines] /\ shown \in [ReaderIds -> Seq(Lines)]
      /\ removed \in [ReaderIds -> SUBSET Lines]
      /\ since[id] \in Nat
  <2>1. since[id] \in 0..wrote
    BY DEF Types, LogTypes
  <2>2. since[id] \in Nat
    BY <2>1
  <2> QED
    BY <2>2 DEF Types, CallTypes, ReaderTypes
<1> HIDE DEF lines, kept, less, rest
<1>4. call'[a].rid = rid /\ out'[a] = kept
      /\ \A c \in Agents \ {a} : call'[c] = call[c] /\ out'[c] = out[c]
  <2>1. [call[a] EXCEPT !.max = 0].rid = call[a].rid
    BY <1>t DEF Calls
  <2> QED
    BY <1>1, <1>t, <2>1
<1>5. CASE id # rid
  <2>1. cut'[id] = cut[id] /\ removed'[id] = removed[id]
        /\ (id \in DOMAIN cursor' => cursor'[id] = cursor[id])
        /\ (id \in DOMAIN cursor' => id \in DOMAIN cursor)
    BY <1>1, <1>t, <1>5
  <2>2. Held(b, id)' = Held(b, id)
    BY <1>4, <1>5 DEF Held
  <2> QED
    BY <1>1, <2>1, <2>2, OwnFrame
<1>6. CASE id = rid /\ b # a
  BY <1>1, <1>3, <1>6, SharedIsNobody DEF OwnInv, Owns
<1>7. CASE id = rid /\ b = a
  <2> SUFFICES ASSUME Owns(a, id)', wrote' <= Size
               PROVE  /\ InOrder(shown'[id] \o Held(a, id)')
                      /\ ToSet(shown'[id] \o Held(a, id)') = Due(id)'
    <3>1. OwnInv(b, id)' <=>
              (Owns(b, id)' /\ wrote' <= Size
                 => /\ InOrder(shown'[id] \o Held(b, id)')
                    /\ ToSet(shown'[id] \o Held(b, id)') = Due(id)')
      BY DEF OwnInv, InOrder, ToSet
    <3> QED
      BY <1>7, <3>1
  <2>1. shown'[id] = shown[id] /\ shown[id] \in Seq(Lines)
    BY <1>1, <1>t
  <2>2. Held(a, id)' = kept /\ Held(a, id) = <<>>
    BY <1>3, <1>4, <1>7 DEF Held
  <2>3. shown[id] \o <<>> = shown[id]
    BY <2>1, ConcatEmptySeq
  <2>4. InOrder(shown[id]) /\ ToSet(shown[id]) = Due(id)
    BY <1>1, <1>7, <2>2, <2>3 DEF OwnInv, Owns
  <2>5. since[id] <= cursor[id] /\ removed[id] \cup cut[id] \subseteq 1..cursor[id]
    BY <1>l, <1>1, <1>7 DEF LogInv
  <2>6. Due(id)' = ((since[id] + 1)..wrote)
                      \ ((removed[id] \cup less) \cup (cut[id] \cup rest))
    <3>1. cursor'[id] = wrote /\ removed'[id] = removed[id] \cup less
          /\ cut'[id] = cut[id] \cup rest /\ since'[id] = since[id]
      BY <1>1, <1>7, <1>t
    <3>2. Due(id)' = ((since'[id] + 1)..cursor'[id]) \ (removed'[id] \cup cut'[id])
      BY DEF Due
    <3> QED
      BY <3>1, <3>2
  <2>7. Due(id)' = Due(id) \cup ToSet(kept)
    BY <1>2, <1>7, <1>t, <2>5, <2>6 DEF Due
  <2>8. ToSet(shown[id] \o kept) = ToSet(shown[id]) \cup ToSet(kept)
    BY <1>2, <2>1, ConcatSet
  <2>9. InOrder(shown[id] \o kept)
    <3>1. Lines \subseteq Nat
      BY BoundsAssumption DEF Lines
    <3>2. shown[id] \in Seq(Nat) /\ kept \in Seq(Nat)
      BY <1>2, <2>1, <3>1, SeqMonotonic
    <3>3. \A l \in ToSet(shown[id]) : l <= cursor[rid]
      BY <1>2, <1>7, <1>t, <2>4 DEF Due
    <3>4. \A l \in ToSet(kept) : cursor[rid] < l
      BY <1>2
    <3> QED
      BY <1>2, <2>4, <3>2, <3>3, <3>4, ConcatInOrder
  <2> QED
    BY <2>1, <2>2, <2>4, <2>7, <2>8, <2>9
<1> QED
  BY <1>5, <1>6, <1>7

\* A reply shows the owner what was held.
LEMMA OwnReply ==
    ASSUME Types, ReaderInv, NEW b \in Agents, NEW id \in ReaderIds, OwnInv(b, id),
           NEW a \in Agents, Reply(a)
    PROVE  OwnInv(b, id)'
<1>l. CallTypes /\ \A c \in Agents : CallInv(c)
  BY DEF Types, ReaderInv
<1> DEFINE rid == call[a].rid
<1>1. /\ pc[a] = "more" /\ call' = [call EXCEPT ![a] = NoCall]
      /\ out' = [out EXCEPT ![a] = <<>>]
      /\ UNCHANGED <<wrote, cursor, removed, cut, since>>
      /\ \/ /\ owner' = [owner EXCEPT ![rid] = {Shared}]
            /\ shown' = [shown EXCEPT ![rid] = <<>>]
         \/ owner[rid] = {Shared} /\ UNCHANGED <<owner, shown>>
         \/ shown' = [shown EXCEPT ![rid] = shown[rid] \o out[a]] /\ UNCHANGED owner
  BY Replied DEF logVars
<1>t. /\ out \in [Agents -> Seq(Lines)] /\ call \in [Agents -> Calls]
      /\ owner \in [ReaderIds -> SUBSET (Agents \cup {Shared})]
      /\ shown \in [ReaderIds -> Seq(Lines)] /\ rid \in ReaderIds
  BY DEF Types, CallTypes, ReaderTypes, Calls
<1>2. owner[rid] \in {{a}, {Shared}}
  BY <1>l, <1>1 DEF CallInv, Reading
<1>3. out'[a] = <<>> /\ \A c \in Agents \ {a} : call'[c] = call[c] /\ out'[c] = out[c]
  BY <1>1, <1>t
<1>4. CASE id # rid
  <2>1. owner'[id] = owner[id] /\ shown'[id] = shown[id]
    BY <1>1, <1>4, <1>t
  <2>2. Held(b, id)' = Held(b, id)
    BY <1>3, <1>4 DEF Held
  <2> QED
    BY <1>1, <2>1, <2>2, OwnFrame
<1>5. CASE id = rid /\ b # a
  <2>1. owner'[id] # {b}
    BY <1>1, <1>2, <1>5, <1>t, SharedIsNobody
  <2> QED
    BY <2>1 DEF OwnInv, Owns
<1>6. CASE id = rid /\ b = a
  <2>1. CASE owner'[id] = {a}
    <3>1. shown'[id] = shown[id] \o out[a] /\ UNCHANGED owner
      BY <1>1, <1>6, <1>t, <2>1, SharedIsNobody
    <3>2. Held(a, id) = out[a] /\ Held(a, id)' = <<>>
      BY <1>3, <1>6 DEF Held
    <3>3. shown[id] \o out[a] \in Seq(Lines)
      <4>1. shown[id] \in Seq(Lines) /\ out[a] \in Seq(Lines)
        BY <1>t
      <4> QED
        BY <4>1, ConcatProperties
    <3>4. (shown[id] \o out[a]) \o <<>> = shown[id] \o out[a]
      BY <3>3, ConcatEmptySeq
    <3>5. Due(id)' = Due(id)
      BY <1>1 DEF Due
    <3>6. OwnInv(a, id)' <=>
              (Owns(a, id)' /\ wrote' <= Size
                 => /\ InOrder(shown'[id] \o Held(a, id)')
                    /\ ToSet(shown'[id] \o Held(a, id)') = Due(id)')
      BY DEF OwnInv, InOrder, ToSet
    <3>7. shown'[id] = shown[id] \o out[a]
      BY <1>6, <1>t, <3>1
    <3> QED
      BY <1>1, <1>6, <3>1, <3>2, <3>4, <3>5, <3>6, <3>7 DEF OwnInv, Owns
  <2>2. CASE owner'[id] # {a}
    BY <1>6, <2>2 DEF OwnInv, Owns
  <2> QED
    BY <2>1, <2>2
<1> QED
  BY <1>4, <1>5, <1>6

\* A call that begins holds nothing; a reader it is the first to use was shown nothing.
LEMMA OwnCall ==
    ASSUME Types, ReaderInv, NEW b \in Agents, NEW id \in ReaderIds, OwnInv(b, id),
           NEW a \in Agents, NEW l, NEW rid \in ReaderIds, NEW max, Call(a, l, rid, max)
    PROVE  OwnInv(b, id)'
<1>l. CallTypes /\ OwnerInv /\ \A c \in Agents : CallInv(c)
  BY DEF Types, ReaderInv
<1>1. /\ pc[a] = "idle" /\ UNCHANGED <<wrote, cursor, out, removed, cut, since>>
      /\ call' = [call EXCEPT ![a] = [rid |-> rid, max |-> max]]
      /\ \/ UNCHANGED <<owner, shown>>
         \/ owner[rid] = {} /\ owner' = [owner EXCEPT ![rid] = {a}] /\ UNCHANGED shown
         \/ /\ owner' = [owner EXCEPT ![rid] = {Shared}]
            /\ shown' = [shown EXCEPT ![rid] = <<>>]
  BY Called DEF logVars
<1>t. /\ call \in [Agents -> Calls]
      /\ owner \in [ReaderIds -> SUBSET (Agents \cup {Shared})]
      /\ shown \in [ReaderIds -> Seq(Lines)]
  BY DEF Types, CallTypes, ReaderTypes
<1>2. Held(b, id)' = Held(b, id)
  <2>1. CASE b = a
    <3>1. out[b] = <<>>
      BY <1>l, <1>1, <2>1 DEF CallInv
    <3> QED
      BY <1>1, <3>1 DEF Held
  <2>2. CASE b # a
    BY <1>1, <1>t, <2>2 DEF Held
  <2> QED
    BY <2>1, <2>2
<1>3. CASE owner'[id] = owner[id] /\ shown'[id] = shown[id]
  BY <1>1, <1>2, <1>3, OwnFrame
<1>4. CASE owner'[id] = {Shared}
  BY <1>4, SharedIsNobody DEF OwnInv, Owns
<1>5. CASE id = rid /\ owner[rid] = {} /\ owner' = [owner EXCEPT ![rid] = {a}] /\ UNCHANGED shown
  <2>1. CASE b = a
    <3> SUFFICES ASSUME id \in DOMAIN cursor, wrote <= Size
                 PROVE  InOrder(shown[id] \o Held(b, id)) /\ ToSet(shown[id] \o Held(b, id)) = Due(id)
      <4>1. Due(id)' = Due(id) /\ shown'[id] = shown[id]
        BY <1>1, <1>5 DEF Due
      <4>2. OwnInv(b, id)' <=>
                (Owns(b, id)' /\ wrote' <= Size
                   => /\ InOrder(shown'[id] \o Held(b, id)')
                      /\ ToSet(shown'[id] \o Held(b, id)') = Due(id)')
        BY DEF OwnInv, InOrder, ToSet
      <4> QED
        BY <1>1, <1>2, <4>1, <4>2 DEF Owns
    <3>1. shown[id] = <<>> /\ cursor[id] = since[id]
      BY <1>l, <1>5 DEF OwnerInv
    <3>2. Held(b, id) = <<>>
      BY <1>l, <1>1, <2>1, HeldType DEF CallInv
    <3>3. since[id] \in Nat
      <4>1. since[id] \in 0..wrote
        BY DEF Types, LogTypes
      <4> QED
        BY <4>1
    <3>4. Due(id) = {}
      BY <3>1, <3>3 DEF Due
    <3> QED
      BY <3>1, <3>2, <3>4, NothingInOrder
  <2>2. CASE b # a
    <3>1. owner'[id] = {a}
      BY <1>5, <1>t
    <3> QED
      BY <2>2, <3>1 DEF OwnInv, Owns
  <2> QED
    BY <2>1, <2>2
<1> QED
  BY <1>1, <1>3, <1>4, <1>5, <1>t

\* Every step keeps what an owner was shown complete.
LEMMA OwnStep ==
    ASSUME Types, ReaderInv, NEW b \in Agents, NEW id \in ReaderIds, OwnInv(b, id),
           [Next]_vars
    PROVE  OwnInv(b, id)'
<1>l. LogTypes /\ CallTypes /\ LogInv /\ OwnerInv /\ \A a \in Agents : CallInv(a)
  BY DEF Types, ReaderInv
<1>t. /\ call \in [Agents -> Calls] /\ out \in [Agents -> Seq(Lines)]
      /\ wrote \in Nat /\ nextID \in Nat /\ since \in [ReaderIds -> 0..wrote]
      /\ id \in Nat
  <2>1. call \in [Agents -> Calls] /\ out \in [Agents -> Seq(Lines)]
    BY <1>l DEF CallTypes
  <2>2. wrote \in 0..MaxOutput /\ nextID \in Nat /\ since \in [ReaderIds -> 0..wrote]
    BY <1>l DEF LogTypes
  <2>3. wrote \in Nat
    BY <2>2, BoundsAssumption
  <2> QED
    BY <2>1, <2>2, <2>3, Ids
<1>1. ASSUME NEW n \in 1..MaxChunk, Emit(n) PROVE OwnInv(b, id)'
  <2>1. /\ n \in Nat /\ wrote' = wrote + n /\ DOMAIN cursor' = DOMAIN cursor
        /\ \A i \in DOMAIN cursor : wrote' <= Size => cursor'[i] = cursor[i]
        /\ UNCHANGED <<removed, cut, since, owner, shown>>
    BY <1>1, <1>l, Emitted
  <2>2. wrote' <= Size => wrote <= Size
    BY <1>t, <2>1, BoundsAssumption
  <2>3. Held(b, id)' = Held(b, id)
    BY <1>1 DEF Emit, callVars, Held
  <2> QED
    BY <2>1, <2>2, <2>3, OwnFrame
<1>2. ASSUME NEW a \in Agents, SendInput(a) \/ (ReadOutput(a) /\ Nothing(a, ReaderOf(a)))
      PROVE  OwnInv(b, id)'
  <2>1. /\ pc[a] \notin {"append", "more"} /\ UNCHANGED <<out, owner, shown>>
        /\ \/ UNCHANGED call \/ call' = [call EXCEPT ![a] = NoCall]
           \/ call' = [call EXCEPT ![a] = [call[a] EXCEPT !.max = 0]]
    BY <1>2, Sent, NothingRead
  <2>2. UNCHANGED <<wrote, cursor, removed, cut, since>>
    BY <1>2, LogUntouched
  <2>3. out[a] = <<>>
    BY <1>l, <2>1 DEF CallInv
  <2>4. Held(b, id)' = Held(b, id)
    <3>1. CASE b = a
      BY <2>1, <2>3, <3>1 DEF Held
    <3>2. CASE b # a
      BY <1>t, <2>1, <3>2 DEF Held
    <3> QED
      BY <3>1, <3>2
  <2> QED
    BY <2>1, <2>2, <2>4, OwnFrame
<1>3. ASSUME NEW a \in Agents, RegisterReader(a) PROVE OwnInv(b, id)'
  <2>1. /\ cursor' = [i \in DOMAIN cursor \cup {nextID} |->
                        IF i = nextID THEN wrote ELSE cursor[i]]
        /\ since' = [since EXCEPT ![nextID] = wrote]
        /\ UNCHANGED <<wrote, owner, shown, removed, cut, out, call>>
    BY <1>3 DEF RegisterReader, LogRegister, callVars
  <2>2. Held(b, id)' = Held(b, id)
    BY <2>1 DEF Held
  <2>3. CASE id # nextID
    <3>1. since'[id] = since[id] /\ (id \in DOMAIN cursor' => id \in DOMAIN cursor)
          /\ (id \in DOMAIN cursor' => cursor'[id] = cursor[id])
      BY <1>t, <2>1, <2>3
    <3> QED
      BY <2>1, <2>2, <3>1, OwnFrame
  <2>4. CASE id = nextID
    <3>1. cursor'[id] = wrote /\ since'[id] = wrote
      BY <1>t, <2>1, <2>4
    <3>2. id >= nextID
      BY <1>t, <2>4
    <3>3. shown[id] = <<>>
      BY <1>l, <3>2 DEF OwnerInv
    <3>4. ~(id < nextID)
      BY <1>t, <2>4
    <3>5. Held(b, id) = <<>>
      BY <1>l, <3>4 DEF Held, CallInv
    <3>6. Due(id)' = {}
      <4>1. Due(id)' = ((since'[id] + 1)..cursor'[id]) \ (removed'[id] \cup cut'[id])
        BY DEF Due
      <4> QED
        BY <1>t, <3>1, <4>1
    <3>7. OwnInv(b, id)' <=>
              (Owns(b, id)' /\ wrote' <= Size
                 => /\ InOrder(shown'[id] \o Held(b, id)')
                    /\ ToSet(shown'[id] \o Held(b, id)') = Due(id)')
      BY DEF OwnInv, InOrder, ToSet
    <3> QED
      BY <2>1, <2>2, <3>3, <3>5, <3>6, <3>7, NothingInOrder
  <2> QED
    BY <2>3, <2>4
<1>4. ASSUME NEW a \in Agents, NEW i \in ReaderIds, UnregisterReader(a, i)
      PROVE  OwnInv(b, id)'
  <2>1. /\ cursor' = [other \in DOMAIN cursor \ {i} |-> cursor[other]]
        /\ UNCHANGED <<wrote, owner, shown, removed, cut, since, out, call>>
    BY <1>4 DEF UnregisterReader, LogUnregister, readerVars, callVars
  <2>2. Held(b, id)' = Held(b, id)
    BY <2>1 DEF Held
  <2> QED
    BY <2>1, <2>2, OwnFrame
<1>5. ASSUME \/ Exit \/ Delete \/ Setsize \/ UNCHANGED vars
             \/ \E a \in Agents :
                   AppendOutput(a) \/ Cancel(a) \/ \E r \in Rows : ResizePty(a, r)
      PROVE  OwnInv(b, id)'
  <2>1. UNCHANGED <<owner, shown, call, out>>
    BY <1>5 DEF Exit, Delete, Setsize, AppendOutput, Cancel, ResizePty, readerVars,
                callVars, vars
  <2>2. UNCHANGED <<wrote, cursor, removed, cut, since>>
    BY <1>5, LogUntouched
  <2>3. Held(b, id)' = Held(b, id)
    BY <2>1 DEF Held
  <2> QED
    BY <2>1, <2>2, <2>3, OwnFrame
<1>6. ASSUME NEW a \in Agents, Reply(a) PROVE OwnInv(b, id)'
  BY <1>6, OwnReply
<1>7. ASSUME NEW a \in Agents, ReadOutput(a), Deliver(a, ReaderOf(a)) PROVE OwnInv(b, id)'
  BY <1>7, OwnRead
<1>8. ASSUME NEW a \in Agents, NEW l, NEW rid \in ReaderIds, NEW max, Call(a, l, rid, max)
      PROVE  OwnInv(b, id)'
  BY <1>8, OwnCall
<1> QED
  BY <1>1, <1>2, <1>3, <1>4, <1>5, <1>6, <1>7, <1>8, Actions DEF ReadOutput

\* An agent with a reader of its own is shown the lines since it registered, once and in
\* order and none missing but what Strip and Compact removed or max_lines cut from its
\* own reads, whatever the other agents read, cancel or unregister (session.go:192-222).
THEOREM OwnReadersSeeAll == Spec => []OwnReaderSeesAll
<1> DEFINE AllOwn == \A b \in Agents, id \in ReaderIds : OwnInv(b, id)
<1>1. Init => AllOwn
  <2> SUFFICES ASSUME Init, NEW b \in Agents, NEW id \in ReaderIds PROVE OwnInv(b, id)
    OBVIOUS
  <2>1. /\ shown[id] = <<>> /\ out[b] = <<>> /\ since[id] = 0
        /\ (id \in DOMAIN cursor => cursor[id] = 0)
    BY DEF Init
  <2>2. id \in DOMAIN cursor => Due(id) = {}
    BY <2>1 DEF Due
  <2> QED
    BY <2>1, <2>2, NothingInOrder DEF OwnInv, Owns, Held
<1>2. TypeOK /\ ReaderInv /\ AllOwn /\ [Next]_vars => AllOwn'
  <2>1. TypeOK => Types
    BY DEF TypeOK, Types
  <2> QED
    BY <2>1, OwnStep
<1>3. AllOwn => OwnReaderSeesAll
  BY DEF OwnInv, Held, Due, Seen, OwnReaderSeesAll
<1> QED
  BY <1>1, <1>2, <1>3, TypeInvariant, ReaderInvariant, PTL DEF Spec

--------------------------------------------------------------------------------
(* What the message history has. *)

\* The lines a reader was handed that are to be recorded, unless the history refuses.
Owed(id) == ToSet(got[id]) \ (removed[id] \cup cut[id] \cup refused[id])

\* What an agent is about to record its reader was handed; two agents that read with one
\* reader were handed different lines.
PendingInv ==
    /\ \A id \in ReaderIds : refused[id] \subseteq ToSet(got[id])
    /\ \A a \in Agents : pc[a] = "append" => ToSet(out[a]) \subseteq Owed(call[a].rid)
    /\ \A a, b \in Agents :
          a # b /\ pc[a] = "append" /\ pc[b] = "append" /\ call[a].rid = call[b].rid
              => ToSet(out[a]) \cap ToSet(out[b]) = {}

\* But for reads that hand over output and for records, nothing is handed out, removed,
\* cut or recorded, and who is about to record still is.
LEMMA OtherSteps ==
    ASSUME Types, ReaderInv, [Next]_vars,
           ~\E a \in Agents : (ReadOutput(a) /\ Deliver(a, ReaderOf(a))) \/ AppendOutput(a)
    PROVE  /\ UNCHANGED <<got, removed, cut, refused, recorded>>
           /\ \A b \in Agents :
                 /\ pc'[b] = "append" <=> pc[b] = "append"
                 /\ pc[b] = "append" => out'[b] = out[b] /\ call'[b] = call[b]
<1> DEFINE Same == /\ UNCHANGED <<got, removed, cut, refused, recorded>>
                   /\ \A b \in Agents :
                         /\ pc'[b] = "append" <=> pc[b] = "append"
                         /\ pc[b] = "append" => out'[b] = out[b] /\ call'[b] = call[b]
<1>t. /\ pc \in [Agents -> Places] /\ out \in [Agents -> Seq(Lines)]
      /\ call \in [Agents -> Calls]
  BY DEF Types, CallTypes
<1>1. CASE \/ \E n \in 1..MaxChunk : Emit(n)
           \/ Exit \/ Delete \/ Setsize \/ UNCHANGED vars
           \/ \E a \in Agents :
                 \/ Cancel(a) \/ RegisterReader(a)
                 \/ \E id \in ReaderIds : UnregisterReader(a, id)
                 \/ \E r \in Rows : ResizePty(a, r)
  BY <1>1 DEF Emit, LogWrite, Exit, LogClose, Delete, Setsize, Cancel, RegisterReader,
              LogRegister, UnregisterReader, LogUnregister, ResizePty, logVars, callVars,
              readerVars, vars
<1>2. ASSUME NEW a \in Agents, NEW place, pc[a] # "append", place # "append",
             pc' = [pc EXCEPT ![a] = place],
             UNCHANGED <<got, removed, cut, refused, recorded>>,
             \A b \in Agents \ {a} : out'[b] = out[b] /\ call'[b] = call[b]
      PROVE  Same
  <2>1. pc'[a] = place /\ \A b \in Agents \ {a} : pc'[b] = pc[b]
    BY <1>2, <1>t
  <2> QED
    BY <1>2, <2>1
<1>3. ASSUME NEW a \in Agents, NEW k \in {"read", "send_and_read", "send"},
             NEW id \in ReaderIds, NEW max \in Cuts \cup {0}, Call(a, k, id, max)
      PROVE  Same
  <2>1. /\ pc[a] = "idle" /\ pc' = [pc EXCEPT ![a] = k]
        /\ call' = [call EXCEPT ![a] = [rid |-> id, max |-> max]]
        /\ UNCHANGED <<got, removed, cut, refused, out, recorded>>
    BY <1>3, Called DEF logVars
  <2>2. \A b \in Agents \ {a} : out'[b] = out[b] /\ call'[b] = call[b]
    BY <1>t, <2>1
  <2> QED
    BY <1>2, <2>1, <2>2
<1>4. ASSUME NEW a \in Agents, SendInput(a) PROVE Same
  <2>1. /\ pc[a] \in {"send", "send_and_read"}
        /\ UNCHANGED <<got, removed, cut, refused, out, recorded>>
        /\ \E place \in {"idle", "read"} : pc' = [pc EXCEPT ![a] = place]
        /\ UNCHANGED call \/ call' = [call EXCEPT ![a] = NoCall]
    BY <1>4, Sent DEF logVars
  <2>2. \A b \in Agents \ {a} : out'[b] = out[b] /\ call'[b] = call[b]
    BY <1>t, <2>1
  <2> QED
    BY <1>2, <2>1, <2>2
<1>5. ASSUME NEW a \in Agents, ReadOutput(a), Nothing(a, ReaderOf(a)) PROVE Same
  <2>1. /\ pc[a] = "read" /\ UNCHANGED <<got, removed, cut, refused, out, recorded>>
        /\ \E place \in {"idle", "more"} : pc' = [pc EXCEPT ![a] = place]
        /\ \E c : call' = [call EXCEPT ![a] = c]
    BY <1>5, NothingRead DEF logVars
  <2>2. \A b \in Agents \ {a} : out'[b] = out[b] /\ call'[b] = call[b]
    BY <1>t, <2>1
  <2> QED
    BY <1>2, <2>1, <2>2
<1>6. ASSUME NEW a \in Agents, Reply(a) PROVE Same
  <2>1. /\ pc[a] = "more" /\ pc' = [pc EXCEPT ![a] = "idle"]
        /\ out' = [out EXCEPT ![a] = <<>>] /\ call' = [call EXCEPT ![a] = NoCall]
        /\ UNCHANGED <<got, removed, cut, refused, recorded>>
    BY <1>6, Replied DEF logVars
  <2>2. \A b \in Agents \ {a} : out'[b] = out[b] /\ call'[b] = call[b]
    BY <1>t, <2>1
  <2> QED
    BY <1>2, <2>1, <2>2
<1> QED
  BY <1>1, <1>3, <1>4, <1>5, <1>6, Actions DEF ReadOutput

\* What a read that hands over output changes: new lines for one reader, some of them
\* removed or cut and the others kept by the agent.
LEMMA NewLines ==
    ASSUME Types, ReaderInv, NEW a \in Agents, ReadOutput(a), Deliver(a, ReaderOf(a))
    PROVE  LET id == call[a].rid
           IN  /\ pc[a] = "read" /\ id \in ReaderIds /\ call'[a].rid = id
               /\ UNCHANGED <<refused, recorded>>
               /\ \A other \in ReaderIds \ {id} :
                     /\ got'[other] = got[other] /\ removed'[other] = removed[other]
                     /\ cut'[other] = cut[other]
               /\ \A b \in Agents \ {a} :
                     pc'[b] = pc[b] /\ out'[b] = out[b] /\ call'[b] = call[b]
               /\ pc'[a] = "append" \/ (ToSet(out'[a]) = {} /\ pc'[a] # "append")
               /\ \E new, lost \in SUBSET Lines :
                     /\ ToSet(got[id]) \cap new = {}
                     /\ ToSet(got'[id]) = ToSet(got[id]) \cup new
                     /\ removed'[id] \cup cut'[id] = removed[id] \cup cut[id] \cup lost
                     /\ lost \subseteq new /\ ToSet(out'[a]) = new \ lost
<1> DEFINE id == call[a].rid  lines == Interval(cursor[id], wrote)
<1>l. LogTypes /\ CallTypes /\ LogInv
  BY DEF Types, ReaderInv
<1>t. /\ got \in [ReaderIds -> Seq(Lines)] /\ cut \in [ReaderIds -> SUBSET Lines]
      /\ removed \in [ReaderIds -> SUBSET Lines] /\ call \in [Agents -> Calls]
      /\ out \in [Agents -> Seq(Lines)] /\ pc \in [Agents -> Places]
  BY DEF Types, LogTypes, CallTypes, ReaderTypes
<1>0. PICK text \in Stripped(lines) :
           /\ out' = [out EXCEPT ![a] = Cut(text, call[a].max)]
           /\ removed' = [removed EXCEPT ![id] = removed[id] \cup
                            (((cursor[id] + 1)..wrote) \ ToSet(text))]
           /\ cut' = [cut EXCEPT ![id] =
                        cut[id] \cup (ToSet(text) \ ToSet(Cut(text, call[a].max)))]
           /\ pc' = [pc EXCEPT ![a] =
                       IF Cut(text, call[a].max) = <<>> THEN "more" ELSE "append"]
  BY <1>l, Delivered
<1> DEFINE kept == Cut(text, call[a].max)
           less == ((cursor[id] + 1)..wrote) \ ToSet(text)
           rest == ToSet(text) \ ToSet(kept)
<1>1. /\ pc[a] = "read" /\ id \in DOMAIN cursor /\ id \in ReaderIds
      /\ got' = [got EXCEPT ![id] = got[id] \o lines]
      /\ call' = [call EXCEPT ![a] = [call[a] EXCEPT !.max = 0]]
      /\ UNCHANGED <<refused, recorded>>
  BY <1>l, Delivered
<1>2. /\ lines \in Seq(Lines) /\ ToSet(lines) = (cursor[id] + 1)..wrote
      /\ ToSet(lines) \subseteq Lines /\ cursor[id] \in Nat
      /\ ToSet(text) \subseteq ToSet(lines) /\ ToSet(kept) \subseteq ToSet(text)
  BY <1>l, <1>1, Handed
<1>3. less \cup rest \subseteq ToSet(lines) /\ ToSet(kept) = ToSet(lines) \ (less \cup rest)
  BY <1>2
<1>4. ToSet(got[id]) \subseteq 1..cursor[id]
  BY <1>l, <1>1 DEF LogInv
<1>5. ToSet(got[id]) \cap ToSet(lines) = {}
  BY <1>2, <1>4
<1> HIDE DEF lines, kept, less, rest
<1>6. ToSet(got[id] \o lines) = ToSet(got[id]) \cup ToSet(lines)
  <2>1. got[id] \in Seq(Lines) /\ lines \in Seq(Lines)
    BY <1>1, <1>2, <1>t
  <2> QED
    BY <2>1, ConcatSet
<1>7. /\ got'[id] = got[id] \o lines /\ removed'[id] = removed[id] \cup less
      /\ cut'[id] = cut[id] \cup rest /\ out'[a] = kept
      /\ pc'[a] = IF kept = <<>> THEN "more" ELSE "append"
  BY <1>0, <1>1, <1>t DEF kept, less, rest
<1>8. /\ \A other \in ReaderIds \ {id} :
            /\ got'[other] = got[other] /\ removed'[other] = removed[other]
            /\ cut'[other] = cut[other]
      /\ \A b \in Agents \ {a} : pc'[b] = pc[b] /\ out'[b] = out[b] /\ call'[b] = call[b]
  BY <1>0, <1>1, <1>t
<1>9. call'[a].rid = id
  <2>1. [call[a] EXCEPT !.max = 0].rid = call[a].rid
    BY <1>t DEF Calls
  <2> QED
    BY <1>1, <1>t, <2>1
<1>10. pc'[a] = "append" \/ (ToSet(out'[a]) = {} /\ pc'[a] # "append")
  <2>1. CASE kept = <<>>
    BY <1>7, <2>1, NothingInOrder
  <2>2. CASE ~(kept = <<>>)
    <3>1. pc'[a] = "append"
      BY <1>7, <2>2
    <3> QED
      BY <3>1
  <2> QED
    BY <2>1, <2>2
<1>11. /\ ToSet(got'[id]) = ToSet(got[id]) \cup ToSet(lines)
       /\ removed'[id] \cup cut'[id] = removed[id] \cup cut[id] \cup (less \cup rest)
       /\ ToSet(out'[a]) = ToSet(lines) \ (less \cup rest)
  BY <1>3, <1>6, <1>7
<1>12. \E new, lost \in SUBSET Lines :
          /\ ToSet(got[id]) \cap new = {}
          /\ ToSet(got'[id]) = ToSet(got[id]) \cup new
          /\ removed'[id] \cup cut'[id] = removed[id] \cup cut[id] \cup lost
          /\ lost \subseteq new /\ ToSet(out'[a]) = new \ lost
  <2>1. ToSet(lines) \in SUBSET Lines /\ less \cup rest \in SUBSET Lines
    BY <1>2, <1>3
  <2> QED
    BY <1>3, <1>5, <1>11, <2>1
<1> QED
  BY <1>1, <1>8, <1>9, <1>10, <1>12

\* What recording changes: the agent has done with its output, which is recorded or
\* refused.
LEMMA Appended ==
    ASSUME Types, HistoryTypes, NEW a \in Agents, AppendOutput(a)
    PROVE  LET id == call[a].rid
           IN  /\ pc[a] = "append" /\ pc'[a] = "more" /\ id \in ReaderIds
               /\ UNCHANGED <<got, removed, cut, out, call>>
               /\ \A b \in Agents \ {a} : pc'[b] = pc[b]
               /\ \/ /\ UNCHANGED refused
                     /\ \A l \in Lines : recorded'[l]
                           = IF l \in ToSet(out[a]) THEN recorded[l] + 1 ELSE recorded[l]
                  \/ /\ UNCHANGED recorded
                     /\ refused'[id] = refused[id] \cup ToSet(out[a])
                     /\ \A other \in ReaderIds \ {id} : refused'[other] = refused[other]
<1> DEFINE id == call[a].rid
<1>t. /\ pc \in [Agents -> Places] /\ call \in [Agents -> Calls]
      /\ refused \in [ReaderIds -> SUBSET Lines] /\ recorded \in [Lines -> Nat]
  BY DEF Types, CallTypes, ReaderTypes, HistoryTypes
<1>1. /\ pc[a] = "append" /\ pc' = [pc EXCEPT ![a] = "more"]
      /\ UNCHANGED <<got, removed, cut, out, call>>
      /\ \/ /\ UNCHANGED refused
            /\ recorded' = [l \in 1..MaxOutput |->
                              recorded[l] + IF l \in ToSet(out[a]) THEN 1 ELSE 0]
         \/ /\ UNCHANGED recorded
            /\ refused' = [refused EXCEPT ![id] = refused[id] \cup ToSet(out[a])]
  BY DEF AppendOutput, Kept, Goto, logVars
<1>2. id \in ReaderIds
  BY <1>t DEF Calls
<1>3. pc'[a] = "more" /\ \A b \in Agents \ {a} : pc'[b] = pc[b]
  BY <1>1, <1>t
<1>4. CASE UNCHANGED refused /\ recorded' = [l \in 1..MaxOutput |->
                              recorded[l] + IF l \in ToSet(out[a]) THEN 1 ELSE 0]
  <2>1. \A l \in Lines : recorded'[l]
           = IF l \in ToSet(out[a]) THEN recorded[l] + 1 ELSE recorded[l]
    BY <1>4, <1>t DEF Lines
  <2> QED
    BY <1>1, <1>2, <1>3, <1>4, <2>1
<1>5. CASE /\ UNCHANGED recorded
           /\ refused' = [refused EXCEPT ![id] = refused[id] \cup ToSet(out[a])]
  <2>1. /\ refused'[id] = refused[id] \cup ToSet(out[a])
        /\ \A other \in ReaderIds \ {id} : refused'[other] = refused[other]
    BY <1>2, <1>5, <1>t
  <2> QED
    BY <1>1, <1>2, <1>3, <1>5, <2>1
<1> QED
  BY <1>1, <1>4, <1>5

\* Every step keeps apart what the agents are about to record.
LEMMA PendingStep ==
    ASSUME Types, HistoryTypes, ReaderInv, PendingInv, [Next]_vars
    PROVE  PendingInv'
<1>l. LogInv
  BY DEF ReaderInv
<1>r. \A a \in Agents : call[a].rid \in ReaderIds
  BY DEF Types, CallTypes, Calls
<1>p. PendingInv' <=>
        /\ \A id \in ReaderIds : refused'[id] \subseteq ToSet(got'[id])
        /\ \A b \in Agents : pc'[b] = "append"
               => ToSet(out'[b]) \subseteq ToSet(got'[call'[b].rid]) \
                     (removed'[call'[b].rid] \cup cut'[call'[b].rid]
                        \cup refused'[call'[b].rid])
        /\ \A b, c \in Agents :
              b # c /\ pc'[b] = "append" /\ pc'[c] = "append" /\ call'[b].rid = call'[c].rid
                  => ToSet(out'[b]) \cap ToSet(out'[c]) = {}
  BY DEF PendingInv, Owed, ToSet
<1>1. CASE ~\E a \in Agents :
              (ReadOutput(a) /\ Deliver(a, ReaderOf(a))) \/ AppendOutput(a)
  <2>1. /\ UNCHANGED <<got, removed, cut, refused>>
        /\ \A b \in Agents : pc'[b] = "append"
              => pc[b] = "append" /\ out'[b] = out[b] /\ call'[b] = call[b]
    BY <1>1, OtherSteps
  <2> QED
    BY SMTT(30), <1>p, <2>1 DEF PendingInv, Owed
<1>2. ASSUME NEW a \in Agents, ReadOutput(a), Deliver(a, ReaderOf(a)) PROVE PendingInv'
  <2> DEFINE id == call[a].rid
  <2>1. /\ pc[a] = "read" /\ id \in ReaderIds /\ call'[a].rid = id /\ UNCHANGED refused
        /\ \A other \in ReaderIds \ {id} :
              /\ got'[other] = got[other] /\ removed'[other] = removed[other]
              /\ cut'[other] = cut[other]
        /\ \A b \in Agents \ {a} :
              pc'[b] = pc[b] /\ out'[b] = out[b] /\ call'[b] = call[b]
    BY <1>2, NewLines
  <2>2. PICK new \in SUBSET Lines, lost \in SUBSET Lines :
              /\ ToSet(got[id]) \cap new = {}
              /\ ToSet(got'[id]) = ToSet(got[id]) \cup new
              /\ removed'[id] \cup cut'[id] = removed[id] \cup cut[id] \cup lost
              /\ lost \subseteq new /\ ToSet(out'[a]) = new \ lost
    BY <1>2, NewLines
  <2>3. removed[id] \cup cut[id] \subseteq ToSet(got[id]) /\ refused[id] \subseteq ToSet(got[id])
    BY <1>l, <2>1 DEF LogInv, PendingInv
  <2>4. ASSUME NEW other \in ReaderIds PROVE refused'[other] \subseteq ToSet(got'[other])
    <3>1. CASE other = id
      BY <2>1, <2>2, <2>3, <3>1
    <3>2. CASE other # id
      BY <2>1, <3>2 DEF PendingInv
    <3> QED
      BY <3>1, <3>2
  <2>5. ASSUME NEW b \in Agents, pc'[b] = "append"
        PROVE  ToSet(out'[b]) \subseteq ToSet(got'[call'[b].rid]) \
                     (removed'[call'[b].rid] \cup cut'[call'[b].rid]
                        \cup refused'[call'[b].rid])
    <3>1. CASE b = a
      BY <2>1, <2>2, <2>3, <3>1
    <3>2. CASE b # a /\ call[b].rid = id
      <4>1. /\ out'[b] = out[b] /\ call'[b].rid = id
            /\ ToSet(out[b]) \subseteq ToSet(got[id]) \ (removed[id] \cup cut[id] \cup refused[id])
        BY <2>1, <2>5, <3>2 DEF PendingInv, Owed
      <4> QED
        BY <2>1, <2>2, <4>1
    <3>3. CASE b # a /\ call[b].rid # id
      <4> DEFINE rid == call[b].rid
      <4>1. /\ out'[b] = out[b] /\ call'[b].rid = rid
            /\ ToSet(out[b]) \subseteq ToSet(got[rid])
                  \ (removed[rid] \cup cut[rid] \cup refused[rid])
        BY <2>1, <2>5, <3>3 DEF PendingInv, Owed
      <4>2. got'[rid] = got[rid] /\ removed'[rid] = removed[rid] /\ cut'[rid] = cut[rid]
        BY <1>r, <2>1, <3>3
      <4> QED
        BY <2>1, <4>1, <4>2
    <3> QED
      BY <3>1, <3>2, <3>3
  <2>6. ASSUME NEW b \in Agents, b # a, pc'[b] = "append", call'[b].rid = id
        PROVE  ToSet(out'[b]) \cap ToSet(out'[a]) = {}
    <3>1. ToSet(out'[b]) \subseteq ToSet(got[id])
      BY <2>1, <2>6 DEF PendingInv, Owed
    <3> QED
      BY <2>2, <3>1
  <2>7. ASSUME NEW b \in Agents, NEW c \in Agents, b # c, pc'[b] = "append",
               pc'[c] = "append", call'[b].rid = call'[c].rid
        PROVE  ToSet(out'[b]) \cap ToSet(out'[c]) = {}
    <3>1. CASE b = a
      BY <2>1, <2>6, <2>7, <3>1
    <3>2. CASE c = a
      BY <2>1, <2>6, <2>7, <3>2
    <3>3. CASE b # a /\ c # a
      BY <2>1, <2>7, <3>3 DEF PendingInv
    <3> QED
      BY <3>1, <3>2, <3>3
  <2> QED
    BY <1>p, <2>4, <2>5, <2>7
<1>3. ASSUME NEW a \in Agents, AppendOutput(a) PROVE PendingInv'
  <2> DEFINE id == call[a].rid
  <2>1. /\ pc[a] = "append" /\ pc'[a] = "more" /\ id \in ReaderIds
        /\ UNCHANGED <<got, removed, cut, out, call>>
        /\ \A b \in Agents \ {a} : pc'[b] = pc[b]
        /\ \/ UNCHANGED refused
           \/ /\ refused'[id] = refused[id] \cup ToSet(out[a])
              /\ \A other \in ReaderIds \ {id} : refused'[other] = refused[other]
    BY <1>3, Appended
  <2>2. ToSet(out[a]) \subseteq ToSet(got[id])
    BY <2>1 DEF PendingInv, Owed
  <2>3. ASSUME NEW other \in ReaderIds PROVE refused'[other] \subseteq ToSet(got'[other])
    BY <2>1, <2>2 DEF PendingInv
  <2>4. ASSUME NEW b \in Agents, pc'[b] = "append"
        PROVE  ToSet(out'[b]) \subseteq ToSet(got'[call'[b].rid]) \
                     (removed'[call'[b].rid] \cup cut'[call'[b].rid]
                        \cup refused'[call'[b].rid])
    <3> DEFINE rid == call[b].rid
    <3>1. /\ b # a /\ pc[b] = "append" /\ rid \in ReaderIds
          /\ ToSet(out[b]) \subseteq ToSet(got[rid])
                \ (removed[rid] \cup cut[rid] \cup refused[rid])
      BY <1>r, <2>1, <2>4 DEF PendingInv, Owed
    <3>2. rid = id => ToSet(out[b]) \cap ToSet(out[a]) = {}
      BY <2>1, <3>1 DEF PendingInv
    <3>3. ToSet(out[b]) \cap refused'[rid] = {}
      BY <2>1, <3>1, <3>2
    <3> QED
      BY <2>1, <3>1, <3>3
  <2>5. \A b \in Agents : pc'[b] = "append" => pc[b] = "append"
    BY <2>1
  <2> QED
    <3>1. \A b, c \in Agents :
             b # c /\ pc'[b] = "append" /\ pc'[c] = "append" /\ call'[b].rid = call'[c].rid
                 => ToSet(out'[b]) \cap ToSet(out'[c]) = {}
      BY ZenonT(30), <2>1, <2>5 DEF PendingInv
    <3> QED
      BY ZenonT(30), <1>p, <2>3, <2>4, <3>1
<1> QED
  BY <1>1, <1>2, <1>3

LEMMA PendingInvariant == Spec => []PendingInv
<1>1. Init => PendingInv
  <2> SUFFICES ASSUME Init PROVE PendingInv
    OBVIOUS
  <2>1. /\ \A id \in ReaderIds : refused[id] = {}
        /\ \A a \in Agents : pc[a] # "append"
    BY DEF Init
  <2> QED
    BY <2>1 DEF PendingInv
<1>2. TypeOK /\ ReaderInv /\ PendingInv /\ [Next]_vars => PendingInv'
  <2>1. TypeOK => Types /\ HistoryTypes
    BY DEF TypeOK, Types
  <2> QED
    BY <2>1, PendingStep
<1> QED
  BY <1>1, <1>2, TypeInvariant, ReaderInvariant, PTL DEF Spec

\* The agents about to record line l, and the readers with which it is owed.
Appending(l) == {a \in Agents : pc[a] = "append" /\ l \in ToSet(out[a])}
HandedBy(l) == {id \in ReaderIds : l \in Owed(id)}

\* HandedIsRecorded for one line.
LineInv(l) == recorded[l] + Cardinality(Appending(l)) = Cardinality(HandedBy(l))

\* Calls in progress and readers are finitely many.
LEMMA Counts ==
    ASSUME FewBusy, NEW l
    PROVE  /\ IsFiniteSet(Appending(l)) /\ Cardinality(Appending(l)) \in Nat
           /\ IsFiniteSet(HandedBy(l)) /\ Cardinality(HandedBy(l)) \in Nat
<1>1. Appending(l) \subseteq Busy /\ HandedBy(l) \subseteq ReaderIds
  BY DEF Appending, Busy, HandedBy
<1>2. IsFiniteSet(Appending(l)) /\ IsFiniteSet(HandedBy(l))
  BY <1>1, Ids, FS_Subset DEF FewBusy
<1> QED
  BY <1>2, FS_CardinalityType

\* The two sets after a step.
LEMMA AfterStep ==
    ASSUME NEW l
    PROVE  /\ Appending(l)' = {b \in Agents : pc'[b] = "append" /\ l \in ToSet(out'[b])}
           /\ HandedBy(l)' = {i \in ReaderIds : l \in ToSet(got'[i])
                                 /\ l \notin removed'[i] \cup cut'[i] \cup refused'[i]}
BY DEF Appending, HandedBy, Owed, ToSet

\* A line that is handed over and kept is one that its reader did not have, and that
\* the agent is going to record; nothing else changes for any line.
LEMMA LineDelivered ==
    ASSUME Types, ReaderInv, PendingInv, NEW l \in Lines, NEW a \in Agents,
           ReadOutput(a), Deliver(a, ReaderOf(a))
    PROVE  \/ /\ HandedBy(l)' = HandedBy(l) \cup {call[a].rid}
              /\ call[a].rid \notin HandedBy(l)
              /\ Appending(l)' = Appending(l) \cup {a} /\ a \notin Appending(l)
           \/ HandedBy(l)' = HandedBy(l) /\ Appending(l)' = Appending(l)
<1> DEFINE id == call[a].rid
<1>1. /\ pc[a] = "read" /\ id \in ReaderIds /\ UNCHANGED refused
      /\ \A other \in ReaderIds \ {id} :
            /\ got'[other] = got[other] /\ removed'[other] = removed[other]
            /\ cut'[other] = cut[other]
      /\ \A b \in Agents \ {a} : pc'[b] = pc[b] /\ out'[b] = out[b]
      /\ pc'[a] = "append" \/ (ToSet(out'[a]) = {} /\ pc'[a] # "append")
  BY NewLines
<1>2. PICK new \in SUBSET Lines, lost \in SUBSET Lines :
            /\ ToSet(got[id]) \cap new = {}
            /\ ToSet(got'[id]) = ToSet(got[id]) \cup new
            /\ removed'[id] \cup cut'[id] = removed[id] \cup cut[id] \cup lost
            /\ lost \subseteq new /\ ToSet(out'[a]) = new \ lost
  BY NewLines
<1>3. removed[id] \cup cut[id] \cup refused[id] \subseteq ToSet(got[id])
  BY <1>1 DEF ReaderInv, LogInv, PendingInv
<1>4. \A other \in ReaderIds \ {id} :
         other \in HandedBy(l)' <=> other \in HandedBy(l)
  BY <1>1, AfterStep DEF HandedBy, Owed
<1>5. CASE l \in ToSet(out'[a])
  <2>1. id \notin HandedBy(l) /\ id \in HandedBy(l)'
    BY <1>1, <1>2, <1>3, <1>5, AfterStep DEF HandedBy, Owed
  <2>2. HandedBy(l)' \subseteq ReaderIds /\ HandedBy(l) \subseteq ReaderIds
    BY AfterStep DEF HandedBy
  <2>3. Appending(l)' = Appending(l) \cup {a} /\ a \notin Appending(l)
    BY <1>1, <1>5, AfterStep DEF Appending
  <2> QED
    BY <1>1, <1>4, <2>1, <2>2, <2>3
<1>6. CASE l \notin ToSet(out'[a])
  <2>1. id \in HandedBy(l)' <=> id \in HandedBy(l)
    BY <1>1, <1>2, <1>3, <1>6, AfterStep DEF HandedBy, Owed
  <2>2. HandedBy(l)' \subseteq ReaderIds /\ HandedBy(l) \subseteq ReaderIds
    BY AfterStep DEF HandedBy
  <2>3. HandedBy(l)' = HandedBy(l)
    BY <1>4, <2>1, <2>2
  <2>4. Appending(l)' = Appending(l)
    BY <1>1, <1>6, AfterStep DEF Appending
  <2> QED
    BY <2>3, <2>4
<1> QED
  BY <1>5, <1>6

\* A line in the output an agent has done with is recorded once more, or its reader
\* is no longer owed it.
LEMMA LineRecorded ==
    ASSUME Types, HistoryTypes, PendingInv, NEW l \in Lines, NEW a \in Agents,
           AppendOutput(a)
    PROVE  /\ Appending(l)' = Appending(l) \ {a}
           /\ a \notin Appending(l) => recorded'[l] = recorded[l] /\ HandedBy(l)' = HandedBy(l)
           /\ a \in Appending(l) =>
                 \/ recorded'[l] = recorded[l] + 1 /\ HandedBy(l)' = HandedBy(l)
                 \/ /\ recorded'[l] = recorded[l] /\ call[a].rid \in HandedBy(l)
                    /\ HandedBy(l)' = HandedBy(l) \ {call[a].rid}
<1> DEFINE id == call[a].rid
<1>1. /\ pc[a] = "append" /\ pc'[a] = "more" /\ id \in ReaderIds
      /\ UNCHANGED <<got, removed, cut, out, call>>
      /\ \A b \in Agents \ {a} : pc'[b] = pc[b]
  BY Appended
<1>2. \/ /\ UNCHANGED refused
         /\ recorded'[l] = IF l \in ToSet(out[a]) THEN recorded[l] + 1 ELSE recorded[l]
      \/ /\ UNCHANGED recorded
         /\ refused'[id] = refused[id] \cup ToSet(out[a])
         /\ \A other \in ReaderIds \ {id} : refused'[other] = refused[other]
  BY Appended
<1>3. Appending(l)' = Appending(l) \ {a} /\ (a \in Appending(l) <=> l \in ToSet(out[a]))
  BY <1>1, AfterStep DEF Appending
<1>4. ToSet(out[a]) \subseteq Owed(id)
  BY <1>1 DEF PendingInv
<1>5. CASE /\ UNCHANGED refused
           /\ recorded'[l] = IF l \in ToSet(out[a]) THEN recorded[l] + 1 ELSE recorded[l]
  <2>1. HandedBy(l)' = HandedBy(l)
    BY <1>1, <1>5 DEF HandedBy, Owed
  <2> QED
    BY <1>3, <1>5, <2>1
<1>6. CASE /\ UNCHANGED recorded
           /\ refused'[id] = refused[id] \cup ToSet(out[a])
           /\ \A other \in ReaderIds \ {id} : refused'[other] = refused[other]
  <2>1. \A other \in ReaderIds \ {id} : other \in HandedBy(l)' <=> other \in HandedBy(l)
    BY <1>1, <1>6, AfterStep DEF HandedBy, Owed
  <2>2. HandedBy(l)' \subseteq ReaderIds /\ HandedBy(l) \subseteq ReaderIds
    BY AfterStep DEF HandedBy
  <2>3. CASE l \in ToSet(out[a])
    <3>1. id \in HandedBy(l) /\ id \notin HandedBy(l)'
      BY <1>1, <1>4, <1>6, <2>3, AfterStep DEF HandedBy
    <3> QED
      BY <1>3, <1>6, <2>1, <2>2, <2>3, <3>1
  <2>4. CASE l \notin ToSet(out[a])
    <3>1. id \in HandedBy(l)' <=> id \in HandedBy(l)
      BY <1>1, <1>6, <2>4, AfterStep DEF HandedBy, Owed
    <3> QED
      BY <1>3, <1>6, <2>1, <2>2, <2>4, <3>1
  <2> QED
    BY <2>3, <2>4
<1> QED
  BY <1>2, <1>5, <1>6

\* What a reader was handed is in the message history or about to be, once for every
\* reader, also if the client that asked for it is gone; only what was removed or cut
\* before, or what the history itself refused, is not (session.go:198-211).
THEOREM OutputIsRecorded == Spec => []HandedIsRecorded
<1> DEFINE AllLines == \A l \in Lines : LineInv(l)
<1>1. Init => AllLines
  <2> SUFFICES ASSUME Init, NEW l \in Lines PROVE LineInv(l)
    OBVIOUS
  <2>1. Appending(l) = {} /\ recorded[l] = 0
    BY DEF Init, Appending, Lines
  <2>2. \A id \in ReaderIds : got[id] = <<>>
    BY DEF Init
  <2>3. HandedBy(l) = {}
    BY <2>2 DEF HandedBy, Owed, ToSet
  <2> QED
    BY <2>1, <2>3, FS_EmptySet DEF LineInv
<1>2. TypeOK /\ FewBusy /\ ReaderInv /\ PendingInv /\ AllLines /\ [Next]_vars => AllLines'
  <2> SUFFICES ASSUME Types, HistoryTypes, FewBusy, ReaderInv, PendingInv, NEW l \in Lines,
                      LineInv(l), [Next]_vars
               PROVE  LineInv(l)'
    BY DEF TypeOK, Types, Lines
  <2>1. /\ IsFiniteSet(Appending(l)) /\ Cardinality(Appending(l)) \in Nat
        /\ IsFiniteSet(HandedBy(l)) /\ Cardinality(HandedBy(l)) \in Nat
    BY Counts
  <2>2. recorded[l] \in Nat
    BY DEF HistoryTypes
  <2>3. ASSUME NEW a \in Agents, ReadOutput(a), Deliver(a, ReaderOf(a)) PROVE LineInv(l)'
    <3>1. recorded' = recorded
      BY <2>3 DEF ReadOutput
    <3>2. CASE HandedBy(l)' = HandedBy(l) /\ Appending(l)' = Appending(l)
      BY <3>1, <3>2 DEF LineInv
    <3>3. CASE /\ HandedBy(l)' = HandedBy(l) \cup {call[a].rid}
               /\ call[a].rid \notin HandedBy(l)
               /\ Appending(l)' = Appending(l) \cup {a} /\ a \notin Appending(l)
      <4>1. Cardinality(HandedBy(l)') = Cardinality(HandedBy(l)) + 1
        BY <2>1, <3>3, FS_AddElement
      <4>2. Cardinality(Appending(l)') = Cardinality(Appending(l)) + 1
        BY <2>1, <3>3, FS_AddElement
      <4> QED
        BY <2>1, <2>2, <3>1, <4>1, <4>2 DEF LineInv
    <3> QED
      BY <2>3, <3>2, <3>3, LineDelivered
  <2>4. ASSUME NEW a \in Agents, AppendOutput(a) PROVE LineInv(l)'
    <3> DEFINE id == call[a].rid
    <3>1. /\ Appending(l)' = Appending(l) \ {a}
          /\ a \notin Appending(l) => recorded'[l] = recorded[l] /\ HandedBy(l)' = HandedBy(l)
          /\ a \in Appending(l) =>
                \/ recorded'[l] = recorded[l] + 1 /\ HandedBy(l)' = HandedBy(l)
                \/ /\ recorded'[l] = recorded[l] /\ id \in HandedBy(l)
                   /\ HandedBy(l)' = HandedBy(l) \ {id}
      BY <2>4, LineRecorded
    <3>2. Cardinality(Appending(l)')
            = IF a \in Appending(l) THEN Cardinality(Appending(l)) - 1
              ELSE Cardinality(Appending(l))
      BY <2>1, <3>1, FS_RemoveElement
    <3>3. id \in HandedBy(l) =>
             Cardinality(HandedBy(l) \ {id}) = Cardinality(HandedBy(l)) - 1
      BY <2>1, FS_RemoveElement
    <3>4. CASE a \notin Appending(l)
      BY <3>1, <3>2, <3>4 DEF LineInv
    <3>5. CASE a \in Appending(l) /\ recorded'[l] = recorded[l] + 1
               /\ HandedBy(l)' = HandedBy(l)
      BY <2>1, <2>2, <3>2, <3>5 DEF LineInv
    <3>6. CASE a \in Appending(l) /\ recorded'[l] = recorded[l] /\ id \in HandedBy(l)
               /\ HandedBy(l)' = HandedBy(l) \ {id}
      BY <2>1, <2>2, <3>2, <3>3, <3>6 DEF LineInv
    <3> QED
      BY <3>1, <3>4, <3>5, <3>6
  <2>5. CASE ~\E a \in Agents :
                (ReadOutput(a) /\ Deliver(a, ReaderOf(a))) \/ AppendOutput(a)
    <3>1. /\ UNCHANGED <<got, removed, cut, refused, recorded>>
          /\ \A b \in Agents :
                /\ pc'[b] = "append" <=> pc[b] = "append"
                /\ pc[b] = "append" => out'[b] = out[b]
      BY <2>5, OtherSteps
    <3>2. HandedBy(l)' = HandedBy(l) /\ Appending(l)' = Appending(l)
      BY <3>1, AfterStep DEF HandedBy, Owed, Appending
    <3> QED
      BY <3>1, <3>2 DEF LineInv
  <2> QED
    BY <2>3, <2>4, <2>5
<1>3. AllLines => HandedIsRecorded
  BY DEF LineInv, Appending, HandedBy, Owed, HandedIsRecorded
<1> QED
  BY <1>1, <1>2, <1>3, TypeInvariant, ReaderInvariant, PendingInvariant, PTL DEF Spec
================================================================================
