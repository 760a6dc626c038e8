--------------------------- MODULE MessageLogProofs ---------------------------
(***************************************************************************)
(* Proofs about MessageLog, for every number of callers, sessions,         *)
(* messages and crashes.                                                   *)
(***************************************************************************)
EXTENDS MessageLog, SequenceTheorems, TLAPS

\* Whoever is in Append has a message of its own, which nobody was told of.
OwnMessages ==
    /\ \A t \in Callers : pc[t] # "idle" => msg[t] \in 1..created /\ msg[t] \notin acked
    /\ \A t, u \in Callers : pc[t] # "idle" /\ pc[u] # "idle" /\ msg[t] = msg[u] => t = u

\* The message of an Append is on disk from SaveMessage on.
Filed ==
    \A t \in Callers : pc[t] \notin {"idle", "message"} => msg[t] \in files[about[t]]

\* No index lists it before the rename.
Unlisted ==
    \A t \in Callers : pc[t] \notin {"idle", "return"} =>
        \A s \in Sessions : msg[t] \notin ToSet(index[s])

\* What an Append is about to rename is the index as it is now (or an empty
\* one, if it could not be read) and its message: the mutex keeps it that way.
Loaded ==
    \A t \in Callers : pc[t] \in {"write", "rename"} =>
        \E list \in Readable(about[t]) : entries[t] = Append(list, msg[t])

\* After the rename the message is listed.
Listed ==
    \A t \in Callers : pc[t] = "return" => msg[t] \in ToSet(index[about[t]])

\* Only messages that were created are listed or acknowledged.
OnlyCreated ==
    /\ \A s \in Sessions : ToSet(index[s]) \subseteq 1..created
    /\ acked \subseteq 1..created

AppendInv ==
    /\ TypeOK /\ OwnMessages /\ Filed /\ Unlisted /\ Loaded /\ Listed /\ OnlyCreated

Locations == {"idle", "message", "lock", "load", "write", "rename", "return", "fail"}

--------------------------------------------------------------------------------
(* Types, and the mutexes. *)

\* A caller inside Append has a message, and a free slot is a message.
LEMMA OwnMessage ==
    ASSUME TypeOK, OwnMessages, NEW t \in Callers, pc[t] # "idle"
    PROVE  msg[t] \in Messages /\ msg[t] \in 1..created /\ msg[t] \notin acked
BY BoundsAssumption DEF TypeOK, OwnMessages, Messages

\* Every step keeps the types.
LEMMA TypeStep == TypeOK /\ OwnMessages /\ [Next]_vars => TypeOK'
<1> SUFFICES ASSUME TypeOK, OwnMessages, [Next]_vars PROVE TypeOK'
  OBVIOUS
<1>a. AnySession \in Sessions
  BY SessionsAssumption DEF AnySession
<1>1. ASSUME NEW t \in Callers, NEW s \in Sessions, Begin(t, s) PROVE TypeOK'
  <2>1. created' \in 0..MaxMessages /\ created' \in Messages /\ created' = created + 1
    BY <1>1, BoundsAssumption DEF TypeOK, Begin, Messages
  <2>2. pc' \in [Callers -> Locations] /\ MutexesAreHeld'
    BY <1>1 DEF TypeOK, MutexesAreHeld, InIndex, Begin, Goto, Locations
  <2>3. msg' \in [Callers -> Messages \cup {NoMessage}] /\ about' \in [Callers -> Sessions]
    BY <1>1, <2>1 DEF TypeOK, Begin
  <2>4. prior' \in [Messages -> SUBSET Messages]
    BY <1>1, <2>1 DEF TypeOK, Begin
  <2> QED
    BY <1>1, <2>1, <2>2, <2>3, <2>4 DEF TypeOK, Begin, Locations, diskVars
<1>2. ASSUME NEW t \in Callers, SaveMessage(t) PROVE TypeOK'
  <2>1. pc' \in [Callers -> Locations]
    BY <1>2 DEF TypeOK, SaveMessage, GiveUp, Goto, Locations
  <2>2. MutexesAreHeld'
    <3>1. CASE Goto(t, "lock") /\ UNCHANGED callVars
      BY <1>2, <3>1 DEF TypeOK, SaveMessage, Goto, MutexesAreHeld, InIndex, callVars
    <3>2. CASE GiveUp(t)
      BY <1>2, <3>2, <1>a
      DEF TypeOK, SaveMessage, GiveUp, Forget, Goto, MutexesAreHeld, InIndex
    <3> QED
      BY <1>2, <3>1, <3>2 DEF SaveMessage
  <2>3. files' \in [Sessions -> SUBSET Messages]
    <3>1. msg[t] \in Messages
      BY <1>2, OwnMessage DEF SaveMessage
    <3>2. about[t] \in Sessions /\ files \in [Sessions -> SUBSET Messages]
      BY DEF TypeOK
    <3>3. files[about[t]] \cup {msg[t]} \in SUBSET Messages
      BY <3>1, <3>2
    <3> QED
      BY <1>2, <3>2, <3>3 DEF SaveMessage
  <2>4. /\ msg' \in [Callers -> Messages \cup {NoMessage}]
        /\ about' \in [Callers -> Sessions] /\ entries' \in [Callers -> Seq(Messages)]
    <3>1. CASE UNCHANGED callVars
      BY <3>1 DEF TypeOK, callVars
    <3>2. CASE Forget(t)
      BY <3>2, <1>a DEF TypeOK, Forget
    <3> QED
      BY <1>2, <3>1, <3>2 DEF SaveMessage, GiveUp
  <2> QED
    BY <1>2, <2>1, <2>2, <2>3, <2>4
    DEF TypeOK, SaveMessage, Locations, lifeVars, historyVars
<1>3. ASSUME NEW t \in Callers, Lock(t) PROVE TypeOK'
  <2>1. MutexesAreHeld' /\ lock' \in [Sessions -> Callers \cup {Nobody}]
    BY <1>3, NobodyAssumption
    DEF TypeOK, Lock, IsFree, Goto, MutexesAreHeld, InIndex, callVars
  <2> QED
    BY <1>3, <2>1 DEF TypeOK, Lock, Goto, diskVars, lifeVars, callVars, historyVars
<1>4. ASSUME NEW t \in Callers, LoadIndex(t) PROVE TypeOK'
  <2>1. entries' \in [Callers -> Seq(Messages)]
    <3>1. PICK loaded \in Readable(about[t]) :
              entries' = [entries EXCEPT ![t] = WithEntry(loaded, msg[t])]
      BY <1>4 DEF LoadIndex
    <3>2. loaded \in Seq(Messages)
      <4>1. index[about[t]] \in Seq(Messages)
        BY DEF TypeOK
      <4>2. <<>> \in Seq(Messages)
        BY EmptySeq
      <4> QED
        BY <4>1, <4>2 DEF Readable
    <3>3. msg[t] \in Messages
      BY <1>4, OwnMessage DEF LoadIndex
    <3>4. WithEntry(loaded, msg[t]) \in Seq(Messages)
      BY <3>2, <3>3, AppendProperties DEF WithEntry
    <3> QED
      BY <3>1, <3>4 DEF TypeOK
  <2>2. MutexesAreHeld'
    BY <1>4, NobodyAssumption DEF TypeOK, LoadIndex, Goto, MutexesAreHeld, InIndex
  <2> QED
    BY <1>4, <2>1, <2>2 DEF TypeOK, LoadIndex, Goto, diskVars, lifeVars, historyVars
<1>5. ASSUME NEW t \in Callers, WriteIndex(t) PROVE TypeOK'
  <2>1. MutexesAreHeld' /\ store' \in Callers \cup {Nobody}
    BY <1>5, NobodyAssumption
    DEF TypeOK, WriteIndex, Goto, MutexesAreHeld, InIndex, callVars
  <2> QED
    BY <1>5, <2>1
    DEF TypeOK, WriteIndex, IndexMeanwhile, Goto, lifeVars, callVars, historyVars
<1>6. ASSUME NEW t \in Callers, RenameIndex(t) PROVE TypeOK'
  <2>1. MutexesAreHeld'
    <3>1. \A u \in Callers : pc[u] = "rename" <=> u = t
      BY <1>6 DEF RenameIndex, TypeOK, MutexesAreHeld
    <3>2. /\ pc \in [Callers -> Locations] /\ UNCHANGED <<lock, about>>
          /\ store' = Nobody
          /\ Goto(t, "return") \/ Goto(t, "fail")
      BY <1>6 DEF RenameIndex, TypeOK, Locations, callVars
    <3>3. \A u \in Callers : pc'[u] # "rename" /\ (InIndex(u)' <=> InIndex(u))
      BY <3>1, <3>2 DEF Goto, InIndex
    <3> QED
      BY <3>2, <3>3, NobodyAssumption DEF TypeOK, MutexesAreHeld
  <2>2. index' \in [Sessions -> Seq(Messages)]
    BY <1>6 DEF TypeOK, RenameIndex
  <2> QED
    BY <1>6, <2>1, <2>2 DEF TypeOK, RenameIndex, Goto, lifeVars, callVars, historyVars
<1>7. ASSUME NEW t \in Callers, Return(t) PROVE TypeOK'
  <2>1. /\ lock' \in [Sessions -> Callers \cup {Nobody}]
        /\ pc' \in [Callers -> Locations]
    BY <1>7 DEF TypeOK, Return, Unlocked, Goto, Locations
  <2>2. MutexesAreHeld'
    BY <1>7, <1>a, NobodyAssumption
    DEF TypeOK, Return, Unlocked, Forget, Goto, MutexesAreHeld, InIndex
  <2>3. acked' \subseteq Messages
    <3>1. msg[t] \in Messages
      BY <1>7, OwnMessage DEF Return
    <3> QED
      BY <1>7, <3>1 DEF TypeOK, Return
  <2>4. /\ msg' \in [Callers -> Messages \cup {NoMessage}]
        /\ about' \in [Callers -> Sessions] /\ entries' \in [Callers -> Seq(Messages)]
    BY <1>7, <1>a DEF TypeOK, Return, Forget
  <2> QED
    BY <1>7, <2>1, <2>2, <2>3, <2>4 DEF TypeOK, Return, Locations, diskVars, lifeVars
<1>8. CASE Crash
  <2>1. MutexesAreHeld' /\ pc' \in [Callers -> Locations]
    BY <1>8, NobodyAssumption DEF Crash, Idle, MutexesAreHeld, InIndex, Locations
  <2>2. crashes' \in 0..MaxCrashes /\ ended' \subseteq Sessions
    BY <1>8, BoundsAssumption DEF TypeOK, Crash
  <2> QED
    BY <1>8, <1>a, <2>1, <2>2 DEF TypeOK, Crash, Locations, diskVars, historyVars
<1>9. CASE UNCHANGED vars
  BY <1>9
  DEF vars, TypeOK, MutexesAreHeld, InIndex, diskVars, lifeVars, callVars, historyVars
<1> QED
  BY <1>1, <1>2, <1>3, <1>4, <1>5, <1>6, <1>7, <1>8, <1>9 DEF Next, Progress

--------------------------------------------------------------------------------
(* The invariant of Append. *)

\* What a list is after an entry was added to its end.
LEMMA EntryAdded ==
    ASSUME NEW list \in Seq(Messages), NEW m \in Messages
    PROVE  /\ Append(list, m) \in Seq(Messages)
           /\ ToSet(Append(list, m)) = ToSet(list) \cup {m}
           /\ IsInjective(list) /\ m \notin ToSet(list) => IsInjective(Append(list, m))
           /\ IsPrefix(list, Append(list, m))
<1> DEFINE new == Append(list, m)
           n == Len(list)
<1>1. /\ n \in Nat /\ DOMAIN list = 1..n
      /\ new \in Seq(Messages) /\ Len(new) = n + 1
      /\ \A i \in 1..n : new[i] = list[i]
      /\ new[n + 1] = m
  BY AppendProperties, LenProperties
<1>2. DOMAIN new = 1..(n + 1)
  BY <1>1, LenProperties
<1> HIDE DEF new, n
<1>3. \A i \in 1..(n + 1) : i \in 1..n \/ i = n + 1
  BY <1>1
<1>4. ToSet(new) = ToSet(list) \cup {m}
  <2>1. ToSet(new) \subseteq ToSet(list) \cup {m}
    BY <1>1, <1>2, <1>3 DEF ToSet
  <2>2. \A i \in 1..n : i \in 1..(n + 1)
    BY <1>1
  <2>3. n + 1 \in 1..(n + 1)
    BY <1>1
  <2>4. ToSet(list) \subseteq ToSet(new) /\ m \in ToSet(new)
    BY <1>1, <1>2, <2>2, <2>3 DEF ToSet
  <2> QED
    BY <2>1, <2>4
<1>5. ASSUME IsInjective(list), m \notin ToSet(list) PROVE IsInjective(new)
  <2> SUFFICES ASSUME NEW i \in 1..(n + 1), NEW j \in 1..(n + 1), new[i] = new[j]
               PROVE  i = j
    BY <1>2 DEF IsInjective
  <2>1. \A k \in 1..n : list[k] # m
    BY <1>1, <1>5 DEF ToSet
  <2> QED
    BY <1>1, <1>3, <1>5, <2>1 DEF IsInjective
<1>6. IsPrefix(list, new)
  <2>1. \A i \in 1..n : list[i] \in Messages /\ new[i] \in Messages
    BY <1>1, ElementOfSeq DEF n
  <2>2. /\ SubSeq(list, 1, n) \in Seq(Messages)
        /\ SubSeq(new, 1, n) \in Seq(Messages)
        /\ Len(SubSeq(list, 1, n)) = Len(SubSeq(new, 1, n))
        /\ Len(SubSeq(list, 1, n)) = n
        /\ \A i \in 1..n : SubSeq(list, 1, n)[i] = list[i] /\ SubSeq(new, 1, n)[i] = new[i]
    BY <1>1, <2>1, SubSeqProperties
  <2>3. SubSeq(list, 1, n) = SubSeq(new, 1, n)
    BY <1>1, <2>2, SeqEqual
  <2> QED
    BY <1>1, <2>3 DEF IsPrefix, n
<1> QED
  BY <1>1, <1>4, <1>5, <1>6 DEF new

\* What RenameIndex renames: a list it could read, with the message at its end.
LEMMA RenamedIndex ==
    ASSUME AppendInv, NEW t \in Callers, pc[t] = "rename"
    PROVE  \E list \in Readable(about[t]) :
              /\ list \in Seq(Messages) /\ msg[t] \in Messages
              /\ entries[t] = Append(list, msg[t])
              /\ msg[t] \notin ToSet(list)
              /\ ToSet(list) \subseteq ToSet(index[about[t]])
              /\ IsInjective(index[about[t]]) => IsInjective(list)
<1>1. PICK list \in Readable(about[t]) : entries[t] = Append(list, msg[t])
  BY DEF AppendInv, Loaded
<1>2. msg[t] \in Messages
  BY OwnMessage DEF AppendInv
<1>3. about[t] \in Sessions /\ index[about[t]] \in Seq(Messages)
  BY DEF AppendInv, TypeOK
<1>4. msg[t] \notin ToSet(index[about[t]])
  BY <1>3 DEF AppendInv, Unlisted
<1>5. CASE list = index[about[t]]
  BY <1>1, <1>2, <1>3, <1>4, <1>5
<1>6. CASE list = <<>>
  <2>1. list \in Seq(Messages) /\ Len(list) = 0
    BY <1>6, EmptySeq
  <2>2. DOMAIN list = {}
    BY <2>1, LenProperties
  <2>3. ToSet(list) = {} /\ IsInjective(list)
    BY <2>2 DEF ToSet, IsInjective
  <2> QED
    BY <1>1, <1>2, <2>1, <2>3
<1> QED
  BY <1>5, <1>6 DEF Readable

\* Only a successful rename changes an index, and only that of its session.
LEMMA IndexStep ==
    ASSUME [Next]_vars
    PROVE  \/ index' = index
           \/ \E t \in Callers :
                 /\ RenameIndex(t) /\ pc[t] = "rename" /\ Goto(t, "return")
                 /\ index' = [index EXCEPT ![about[t]] = entries[t]]
BY DEF Next, Progress, Begin, SaveMessage, Lock, LoadIndex, WriteIndex, IndexMeanwhile,
       RenameIndex, Return, Crash, vars, diskVars

\* Every step keeps the invariant of Append.
LEMMA AppendStep == AppendInv /\ [Next]_vars => AppendInv'
<1> SUFFICES ASSUME AppendInv, [Next]_vars PROVE AppendInv'
  OBVIOUS
<1>t. TypeOK'
  BY TypeStep DEF AppendInv
<1>p. pc \in [Callers -> Locations] /\ created \in Nat
  BY BoundsAssumption DEF AppendInv, TypeOK, Locations
<1>1. ASSUME NEW t \in Callers, NEW s \in Sessions, Begin(t, s) PROVE AppendInv'
  <2>1. /\ created' = created + 1 /\ UNCHANGED <<files, index, acked, entries>>
        /\ pc' = [pc EXCEPT ![t] = "message"] /\ msg' = [msg EXCEPT ![t] = created + 1]
        /\ about' = [about EXCEPT ![t] = s] /\ pc[t] = "idle"
        /\ msg \in [Callers -> Messages \cup {NoMessage}] /\ about \in [Callers -> Sessions]
    BY <1>1 DEF Begin, Goto, AppendInv, TypeOK, diskVars
  <2>2. /\ created + 1 \notin acked
        /\ \A r \in Sessions : created + 1 \notin ToSet(index[r])
        /\ 1..created \subseteq 1..(created + 1) /\ created + 1 \in 1..(created + 1)
        /\ created + 1 \notin 1..created
    BY <1>p DEF AppendInv, OnlyCreated
  <2>3. OwnMessages'
    BY <1>p, <2>1, <2>2 DEF AppendInv, OwnMessages
  <2>4. OnlyCreated'
    BY <2>1, <2>2 DEF AppendInv, OnlyCreated
  <2>5. Filed' /\ Listed'
    BY <1>p, <2>1 DEF AppendInv, Filed, Listed
  <2>6. Unlisted'
    BY <1>p, <2>1, <2>2 DEF AppendInv, Unlisted
  <2>7. Loaded'
    BY <1>p, <2>1 DEF AppendInv, Loaded, Readable
  <2> QED
    BY <1>t, <2>3, <2>4, <2>5, <2>6, <2>7 DEF AppendInv
<1>2. ASSUME NEW t \in Callers, SaveMessage(t) PROVE AppendInv'
  <2>1. UNCHANGED <<index, created, acked>> /\ pc[t] = "message"
    BY <1>2 DEF SaveMessage, lifeVars, historyVars
  <2>2. CASE /\ files' = [files EXCEPT ![about[t]] = @ \cup {msg[t]}]
             /\ Goto(t, "lock") /\ UNCHANGED callVars
    <3>1. /\ pc' = [pc EXCEPT ![t] = "lock"] /\ UNCHANGED <<about, msg, entries>>
          /\ files \in [Sessions -> SUBSET Messages] /\ about \in [Callers -> Sessions]
      BY <2>2 DEF Goto, callVars, AppendInv, TypeOK
    <3>2. OwnMessages' /\ OnlyCreated' /\ Unlisted' /\ Listed'
      BY <1>p, <2>1, <3>1 DEF AppendInv, OwnMessages, OnlyCreated, Unlisted, Listed
    <3>3. Filed'
      BY <1>p, <2>1, <2>2, <3>1 DEF AppendInv, Filed
    <3>4. Loaded'
      BY <1>p, <2>1, <3>1 DEF AppendInv, Loaded, Readable
    <3> QED
      BY <1>t, <3>2, <3>3, <3>4 DEF AppendInv
  <2>3. CASE GiveUp(t) /\ UNCHANGED files
    <3>1. /\ pc' = [pc EXCEPT ![t] = "idle"] /\ UNCHANGED files
          /\ \A u \in Callers \ {t} :
                about'[u] = about[u] /\ msg'[u] = msg[u] /\ entries'[u] = entries[u]
      BY <2>3 DEF GiveUp, Forget, Goto, AppendInv, TypeOK
    <3>2. OwnMessages' /\ OnlyCreated' /\ Unlisted' /\ Listed' /\ Filed'
      BY <1>p, <2>1, <3>1
      DEF AppendInv, OwnMessages, OnlyCreated, Unlisted, Listed, Filed
    <3>3. Loaded'
      BY <1>p, <2>1, <3>1 DEF AppendInv, Loaded, Readable
    <3> QED
      BY <1>t, <3>2, <3>3 DEF AppendInv
  <2> QED
    BY <1>2, <2>2, <2>3 DEF SaveMessage
<1>3. ASSUME NEW t \in Callers, Lock(t) PROVE AppendInv'
  <2>1. /\ pc' = [pc EXCEPT ![t] = "load"] /\ pc[t] = "lock"
        /\ UNCHANGED <<files, index, created, about, msg, entries, acked>>
    BY <1>3 DEF Lock, Goto, diskVars, lifeVars, callVars, historyVars
  <2>2. OwnMessages' /\ OnlyCreated' /\ Unlisted' /\ Listed' /\ Filed'
    BY <1>p, <2>1 DEF AppendInv, OwnMessages, OnlyCreated, Unlisted, Listed, Filed
  <2>3. Loaded'
    BY <1>p, <2>1 DEF AppendInv, Loaded, Readable
  <2> QED
    BY <1>t, <2>2, <2>3 DEF AppendInv
<1>4. ASSUME NEW t \in Callers, LoadIndex(t) PROVE AppendInv'
  <2>1. /\ pc' = [pc EXCEPT ![t] = "write"] /\ pc[t] = "load"
        /\ UNCHANGED <<files, index, created, about, msg, acked>>
    BY <1>4 DEF LoadIndex, Goto, diskVars, lifeVars, historyVars
  <2>2. OwnMessages' /\ OnlyCreated' /\ Unlisted' /\ Listed' /\ Filed'
    BY <1>p, <2>1 DEF AppendInv, OwnMessages, OnlyCreated, Unlisted, Listed, Filed
  <2>3. Loaded'
    <3>1. PICK loaded \in Readable(about[t]) :
              entries' = [entries EXCEPT ![t] = Append(loaded, msg[t])]
      BY <1>4 DEF LoadIndex, WithEntry
    <3>2. entries \in [Callers -> Seq(Messages)]
      BY DEF AppendInv, TypeOK
    <3> QED
      BY <1>p, <2>1, <3>1, <3>2 DEF AppendInv, Loaded, Readable
  <2> QED
    BY <1>t, <2>2, <2>3 DEF AppendInv
<1>5. ASSUME NEW t \in Callers, WriteIndex(t) PROVE AppendInv'
  <2>1. /\ Goto(t, "rename") \/ Goto(t, "fail")
        /\ pc[t] = "write"
        /\ UNCHANGED <<files, index, created, about, msg, entries, acked>>
    BY <1>5 DEF WriteIndex, IndexMeanwhile, lifeVars, callVars, historyVars
  <2>2. OwnMessages' /\ OnlyCreated' /\ Unlisted' /\ Listed' /\ Filed'
    BY <1>p, <2>1 DEF Goto, AppendInv, OwnMessages, OnlyCreated, Unlisted, Listed, Filed
  <2>3. Loaded'
    BY <1>p, <2>1 DEF Goto, AppendInv, Loaded, Readable
  <2> QED
    BY <1>t, <2>2, <2>3 DEF AppendInv
<1>6. ASSUME NEW t \in Callers, RenameIndex(t) PROVE AppendInv'
  <2>1. /\ pc[t] = "rename"
        /\ UNCHANGED <<files, created, about, msg, entries, acked>>
    BY <1>6 DEF RenameIndex, lifeVars, callVars, historyVars
  <2>2. CASE index' = index /\ Goto(t, "fail")
    <3>1. OwnMessages' /\ OnlyCreated' /\ Unlisted' /\ Listed' /\ Filed'
      BY <1>p, <2>1, <2>2
      DEF Goto, AppendInv, OwnMessages, OnlyCreated, Unlisted, Listed, Filed
    <3>2. Loaded'
      BY <1>p, <2>1, <2>2 DEF Goto, AppendInv, Loaded, Readable
    <3> QED
      BY <1>t, <3>1, <3>2 DEF AppendInv
  <2>3. CASE index' = [index EXCEPT ![about[t]] = entries[t]] /\ Goto(t, "return")
    <3>1. PICK list \in Readable(about[t]) :
              /\ list \in Seq(Messages) /\ msg[t] \in Messages
              /\ entries[t] = Append(list, msg[t])
              /\ ToSet(list) \subseteq ToSet(index[about[t]])
      BY <2>1, RenamedIndex
    <3>2. ToSet(entries[t]) = ToSet(list) \cup {msg[t]}
      BY <3>1, EntryAdded
    <3>3. \A s \in Sessions : ToSet(index'[s]) \subseteq ToSet(index[s]) \cup {msg[t]}
      BY <2>3, <3>1, <3>2 DEF AppendInv, TypeOK
    <3>4. msg[t] \in 1..created /\ msg[t] \notin acked
      BY <2>1, OwnMessage DEF AppendInv
    <3>5. OwnMessages' /\ Filed'
      BY <1>p, <2>1, <2>3 DEF Goto, AppendInv, OwnMessages, Filed
    <3>6. OnlyCreated'
      BY <2>1, <3>3, <3>4 DEF AppendInv, OnlyCreated
    <3>7. Unlisted'
      <4> SUFFICES ASSUME NEW u \in Callers, pc'[u] \notin {"idle", "return"},
                          NEW s \in Sessions
                   PROVE  msg[u] \notin ToSet(index'[s])
        BY <2>1 DEF Unlisted
      <4>1. u # t /\ pc[u] \notin {"idle", "return"}
        BY <1>p, <2>3 DEF Goto
      <4>2. msg[u] # msg[t]
        BY <2>1, <4>1 DEF AppendInv, OwnMessages
      <4> QED
        BY <3>3, <4>1, <4>2 DEF AppendInv, Unlisted
    <3>8. \A u \in Callers : u # t /\ InIndex(u) => about[u] # about[t]
      BY <2>1 DEF AppendInv, TypeOK, MutexesAreHeld, InIndex
    <3>9. \A u \in Callers : u # t /\ InIndex(u) => index'[about[u]] = index[about[u]]
      BY <2>3, <3>8 DEF AppendInv, TypeOK
    <3>10. Listed'
      <4>1. index'[about[t]] = entries[t]
        BY <2>3 DEF AppendInv, TypeOK
      <4> QED
        BY <1>p, <2>1, <2>3, <3>2, <3>9, <4>1 DEF Goto, AppendInv, Listed, InIndex
    <3>11. Loaded'
      BY <1>p, <2>1, <2>3, <3>9 DEF Goto, AppendInv, Loaded, Readable, InIndex
    <3> QED
      BY <1>t, <3>5, <3>6, <3>7, <3>10, <3>11 DEF AppendInv
  <2> QED
    BY <1>6, <2>2, <2>3 DEF RenameIndex
<1>7. ASSUME NEW t \in Callers, Return(t) PROVE AppendInv'
  <2>1. /\ pc' = [pc EXCEPT ![t] = "idle"] /\ pc[t] # "idle"
        /\ UNCHANGED <<files, index, created>>
        /\ acked' \subseteq acked \cup {msg[t]}
        /\ \A u \in Callers \ {t} :
              about'[u] = about[u] /\ msg'[u] = msg[u] /\ entries'[u] = entries[u]
    BY <1>7 DEF Return, Forget, Goto, AppendInv, TypeOK, diskVars, lifeVars
  <2>2. msg[t] \in 1..created
    BY <2>1, OwnMessage DEF AppendInv
  <2>3. OwnMessages'
    BY <1>p, <2>1 DEF AppendInv, OwnMessages
  <2>4. OnlyCreated' /\ Unlisted' /\ Listed' /\ Filed'
    BY <1>p, <2>1, <2>2 DEF AppendInv, OnlyCreated, Unlisted, Listed, Filed
  <2>5. Loaded'
    <3>1. ASSUME NEW u \in Callers, pc'[u] \in {"write", "rename"}
          PROVE  u # t /\ pc[u] \in {"write", "rename"}
      BY <1>p, <2>1, <3>1
    <3>2. ASSUME NEW u \in Callers, pc'[u] \in {"write", "rename"}
          PROVE  \E list \in Readable(about[u]) : entries[u] = Append(list, msg[u])
      BY <3>1, <3>2 DEF AppendInv, Loaded
    <3>3. \A s : Readable(s)' = Readable(s)
      BY <2>1 DEF Readable
    <3>4. ASSUME NEW u \in Callers, pc'[u] \in {"write", "rename"}
          PROVE  (\E list \in Readable(about[u]) : entries[u] = Append(list, msg[u]))'
      BY <2>1, <3>1, <3>2, <3>3, <3>4
    <3> QED
      BY <3>4 DEF Loaded
  <2> QED
    BY <1>t, <2>3, <2>4, <2>5 DEF AppendInv
<1>8. CASE Crash
  <2>1. /\ \A u \in Callers : pc'[u] = "idle"
        /\ UNCHANGED <<index, created, acked>>
    BY <1>8 DEF Crash, Idle, diskVars, historyVars
  <2> QED
    BY <1>t, <2>1
    DEF AppendInv, OwnMessages, OnlyCreated, Unlisted, Listed, Filed, Loaded
<1>9. CASE UNCHANGED vars
  BY <1>t, <1>9
  DEF vars, diskVars, lifeVars, callVars, historyVars, AppendInv, OwnMessages,
      OnlyCreated, Unlisted, Listed, Filed, Loaded, Readable
<1> QED
  BY <1>1, <1>2, <1>3, <1>4, <1>5, <1>6, <1>7, <1>8, <1>9 DEF Next, Progress

\* The invariant of Append holds in every reachable state.
LEMMA AppendInvariant == Spec => []AppendInv
<1>1. ASSUME Init PROVE AppendInv
  <2>1. /\ index = [s \in Sessions |-> <<>>] /\ <<>> \in Seq(Messages)
        /\ \A s \in Sessions : ToSet(index[s]) = {}
    BY <1>1, EmptySeq DEF Init, ToSet
  <2>2. AnySession \in Sessions
    BY SessionsAssumption DEF AnySession
  <2>3. MutexesAreHeld /\ \A t \in Callers : pc[t] = "idle"
    BY <1>1, NobodyAssumption DEF Init, Idle, MutexesAreHeld, InIndex
  <2>4. created \in 0..MaxMessages /\ crashes \in 0..MaxCrashes
    BY <1>1, BoundsAssumption DEF Init
  <2>5. TypeOK
    BY <1>1, <2>1, <2>2, <2>3, <2>4 DEF Init, Idle, TypeOK
  <2> QED
    BY <1>1, <2>1, <2>3, <2>5
    DEF Init, AppendInv, OwnMessages, Filed, Unlisted, Loaded, Listed, OnlyCreated
<1>2. AppendInv /\ [Next]_vars => AppendInv'
  BY AppendStep
<1> QED
  BY <1>1, <1>2, PTL DEF Spec

\* Types of all variables; each mutex is held by the one caller that is inside it
\* and by nobody else, whatever fails and whenever the program crashes
\* (message.go:49-51, store.go:43-69).
THEOREM TypeCorrect == Spec => []TypeOK
<1>1. AppendInv => TypeOK
  BY DEF AppendInv
<1> QED
  BY <1>1, AppendInvariant, PTL

--------------------------------------------------------------------------------
(* What the history keeps. *)

\* No entry of an index dangles or appears twice, through concurrent appends,
\* refused writes, unreadable indexes and crashes (message.go:45 before 63).
THEOREM NoEntryDangles == Spec => []IndexHasMessages
<1>1. Init => IndexHasMessages
  BY DEF Init, IndexHasMessages, IsInjective, ToSet
<1>2. ASSUME AppendInv, IndexHasMessages, [Next]_vars PROVE IndexHasMessages'
  <2>1. \A s \in Sessions : files[s] \subseteq files'[s]
    <3>1. \/ files' = files
          \/ \E t \in Callers : files' = [files EXCEPT ![about[t]] = @ \cup {msg[t]}]
      BY <1>2
      DEF Next, Progress, Begin, SaveMessage, Lock, LoadIndex, WriteIndex, RenameIndex,
          Return, Crash, vars, diskVars
    <3>2. files \in [Sessions -> SUBSET Messages] /\ about \in [Callers -> Sessions]
      BY <1>2 DEF AppendInv, TypeOK
    <3> QED
      BY <3>1, <3>2
  <2>2. CASE index' = index
    BY <1>2, <2>1, <2>2 DEF IndexHasMessages
  <2>3. ASSUME NEW t \in Callers, pc[t] = "rename",
               index' = [index EXCEPT ![about[t]] = entries[t]]
        PROVE  IndexHasMessages'
    <3>1. about[t] \in Sessions /\ index \in [Sessions -> Seq(Messages)]
      BY <1>2 DEF AppendInv, TypeOK
    <3>2. PICK list \in Readable(about[t]) :
              /\ list \in Seq(Messages) /\ msg[t] \in Messages
              /\ entries[t] = Append(list, msg[t])
              /\ msg[t] \notin ToSet(list)
              /\ ToSet(list) \subseteq ToSet(index[about[t]])
              /\ IsInjective(index[about[t]]) => IsInjective(list)
      BY <1>2, <2>3, RenamedIndex
    <3>3. IsInjective(list) /\ ToSet(list) \subseteq files[about[t]]
      BY <1>2, <3>1, <3>2 DEF IndexHasMessages
    <3>4. IsInjective(entries[t]) /\ ToSet(entries[t]) = ToSet(list) \cup {msg[t]}
      BY <3>2, <3>3, EntryAdded
    <3>5. msg[t] \in files[about[t]]
      BY <1>2, <2>3 DEF AppendInv, Filed
    <3>6. IsInjective(index'[about[t]]) /\ ToSet(index'[about[t]]) \subseteq files'[about[t]]
      BY <2>1, <2>3, <3>1, <3>3, <3>4, <3>5
    <3>7. \A s \in Sessions \ {about[t]} : index'[s] = index[s]
      BY <2>3, <3>1
    <3> QED
      BY <1>2, <2>1, <3>6, <3>7 DEF IndexHasMessages
  <2> QED
    BY <1>2, <2>2, <2>3, IndexStep
<1> QED
  BY <1>1, <1>2, AppendInvariant, PTL DEF Spec

\* If indexes can be read, a step leaves every index as it is, or puts one
\* message behind what it lists.
LEMMA IndexGrows ==
    ASSUME ~ReadFaults, AppendInv, [Next]_vars, NEW s \in Sessions
    PROVE  /\ IsPrefix(index[s], index'[s])
           /\ ToSet(index[s]) \subseteq ToSet(index'[s])
<1>1. CASE index' = index
  BY <1>1 DEF IsPrefix, AppendInv, TypeOK
<1>2. ASSUME NEW t \in Callers, pc[t] = "rename",
             index' = [index EXCEPT ![about[t]] = entries[t]]
      PROVE  /\ IsPrefix(index[s], index'[s])
             /\ ToSet(index[s]) \subseteq ToSet(index'[s])
  <2>1. index \in [Sessions -> Seq(Messages)]
    BY DEF AppendInv, TypeOK
  <2>2. CASE s # about[t]
    BY <1>2, <2>1, <2>2 DEF IsPrefix
  <2>3. CASE s = about[t]
    <3>1. PICK list \in Readable(s) :
              /\ list \in Seq(Messages) /\ msg[t] \in Messages
              /\ entries[t] = Append(list, msg[t])
      BY <1>2, <2>3, RenamedIndex
    <3>2. list = index[s]
      BY <3>1 DEF Readable
    <3>3. index'[s] = Append(index[s], msg[t])
      BY <1>2, <2>1, <2>3, <3>1, <3>2
    <3> QED
      BY <3>1, <3>2, <3>3, EntryAdded
  <2> QED
    BY <2>2, <2>3
<1> QED
  BY <1>1, <1>2, IndexStep

\* The history of a session only grows at its end, as long as its index can be
\* read (message.go:49-63, store.go:43-69).
THEOREM HistoryOnlyGrows ==
    ASSUME ~ReadFaults
    PROVE  Spec => HistoryGrows
<1>1. AppendInv /\ [Next]_vars => [\A s \in Sessions : IsPrefix(index[s], index'[s])]_index
  BY IndexGrows
<1> QED
  BY <1>1, AppendInvariant, PTL DEF Spec, HistoryGrows

\* A message whose Append returned without error is in the history and stays
\* there, as long as indexes can be read (README.md:49).
THEOREM AckedStaysListed ==
    ASSUME ~ReadFaults
    PROVE  Spec => []AckedIsListed
<1>1. Init => AckedIsListed
  BY DEF Init, AckedIsListed
<1>2. ASSUME AppendInv, AckedIsListed, [Next]_vars PROVE AckedIsListed'
  <2>1. \A s \in Sessions : ToSet(index[s]) \subseteq ToSet(index'[s])
    BY <1>2, IndexGrows
  <2>2. CASE acked' = acked
    BY <1>2, <2>1, <2>2 DEF AckedIsListed
  <2>3. ASSUME NEW t \in Callers, pc[t] = "return", acked' = acked \cup {msg[t]}
        PROVE  AckedIsListed'
    <3>1. about[t] \in Sessions /\ msg[t] \in ToSet(index[about[t]])
      BY <1>2, <2>3 DEF AppendInv, TypeOK, Listed
    <3> QED
      BY <1>2, <2>1, <2>3, <3>1 DEF AckedIsListed
  <2>4. acked' = acked \/ \E t \in Callers : pc[t] = "return" /\ acked' = acked \cup {msg[t]}
    BY <1>2
    DEF Next, Progress, Begin, SaveMessage, Lock, LoadIndex, WriteIndex, RenameIndex,
        Return, Crash, vars, historyVars
  <2> QED
    BY <2>2, <2>3, <2>4
<1> QED
  BY <1>1, <1>2, AppendInvariant, PTL DEF Spec

\* Nothing is in prior that was not acknowledged.
PriorIsAcked == \A m \in Messages : prior[m] \subseteq acked

\* An append that began after another had returned is not listed before it
\* (message.go:57).
THEOREM OrderIsKept == Spec => []OrderIsRespected
<1>1. Init => PriorIsAcked /\ OrderIsRespected
  BY DEF Init, PriorIsAcked, OrderIsRespected
<1>2. ASSUME AppendInv, PriorIsAcked, [Next]_vars PROVE PriorIsAcked'
  <2>1. acked \subseteq acked'
    BY <1>2
    DEF Next, Progress, Begin, SaveMessage, Lock, LoadIndex, WriteIndex, RenameIndex,
        Return, Crash, vars, historyVars
  <2>2. \A m \in Messages : prior'[m] = prior[m] \/ prior'[m] = acked
    BY <1>2
    DEF AppendInv, TypeOK, Next, Progress, Begin, SaveMessage, Lock, LoadIndex, WriteIndex,
        RenameIndex, Return, Crash, vars, historyVars
  <2> QED
    BY <1>2, <2>1, <2>2 DEF PriorIsAcked
<1>3. ASSUME AppendInv, PriorIsAcked, OrderIsRespected, [Next]_vars
      PROVE  OrderIsRespected'
  <2>1. \A m \in 1..created : prior'[m] = prior[m]
    <3>1. prior' = prior \/ prior' = [prior EXCEPT ![created + 1] = acked]
      BY <1>3
      DEF Next, Progress, Begin, SaveMessage, Lock, LoadIndex, WriteIndex, RenameIndex,
          Return, Crash, vars, historyVars
    <3>2. 1..created \subseteq Messages /\ created + 1 \notin 1..created
      BY <1>3, BoundsAssumption DEF AppendInv, TypeOK, Messages
    <3> QED
      BY <1>3, <3>1, <3>2 DEF AppendInv, TypeOK
  <2>2. \A s \in Sessions : \A i \in 1..Len(index[s]) :
            index[s][i] \in 1..created /\ prior'[index[s][i]] = prior[index[s][i]]
    BY ZenonT(30), <1>3, <2>1, LenProperties DEF AppendInv, TypeOK, OnlyCreated, ToSet
  <2>3. CASE index' = index
    BY <1>3, <2>2, <2>3 DEF OrderIsRespected
  <2>4. ASSUME NEW t \in Callers, RenameIndex(t), pc[t] = "rename",
               index' = [index EXCEPT ![about[t]] = entries[t]]
        PROVE  OrderIsRespected'
    <3>1. about[t] \in Sessions /\ index \in [Sessions -> Seq(Messages)]
      BY <1>3 DEF AppendInv, TypeOK
    <3>2. prior' = prior
      BY <2>4 DEF RenameIndex, historyVars
    <3>3. PICK list \in Readable(about[t]) :
              /\ list \in Seq(Messages) /\ msg[t] \in Messages
              /\ entries[t] = Append(list, msg[t])
      BY <1>3, <2>4, RenamedIndex
    <3>4. /\ Len(list) \in Nat /\ Len(entries[t]) = Len(list) + 1
          /\ \A i \in 1..Len(list) : entries[t][i] = list[i] /\ list[i] \in Messages
          /\ entries[t][Len(list) + 1] = msg[t]
      BY <3>3, AppendProperties, LenProperties, ElementOfSeq
    <3>5. \A i, j \in 1..Len(list) : i < j => list[j] \notin prior[list[i]]
      <4>1. CASE list = index[about[t]]
        BY <1>3, <3>1, <4>1 DEF OrderIsRespected
      <4>2. CASE list = <<>>
        BY <4>2, EmptySeq
      <4> QED
        BY <4>1, <4>2 DEF Readable
    <3>6. \A m \in Messages : msg[t] \notin prior[m]
      BY <1>3, <2>4, OwnMessage DEF PriorIsAcked, AppendInv
    <3>7. \A i, j \in 1..Len(entries[t]) :
              i < j => entries[t][j] \notin prior[entries[t][i]]
      <4> SUFFICES ASSUME NEW i \in 1..Len(entries[t]), NEW j \in 1..Len(entries[t]), i < j
                   PROVE  entries[t][j] \notin prior[entries[t][i]]
        OBVIOUS
      <4>1. i \in 1..Len(list) /\ (j \in 1..Len(list) \/ j = Len(list) + 1)
        BY <3>4
      <4> QED
        BY <3>4, <3>5, <3>6, <4>1
    <3>8. index'[about[t]] = entries[t] /\ \A s \in Sessions \ {about[t]} : index'[s] = index[s]
      BY <2>4, <3>1
    <3> QED
      BY <1>3, <3>2, <3>7, <3>8 DEF OrderIsRespected
  <2> QED
    BY <1>3, <2>3, <2>4, IndexStep
<1> QED
  BY <1>1, <1>2, <1>3, AppendInvariant, PTL DEF Spec
================================================================================
