------------------------------ MODULE MessageLog ------------------------------
(***************************************************************************)
(* internal/message/message.go on internal/storage/store.go: the message   *)
(* history of the sessions, one file per message and one index.json per    *)
(* session, written by every goroutine that sends, reads, starts or ends   *)
(* (Callers), and kept over crashes of the program.                        *)
(*                                                                         *)
(* Store.mu makes each store operation one step, but for writing the       *)
(* index, whose temporary file (WriteIndex) and rename (RenameIndex) a     *)
(* crash can separate.  Append holds the mutex of its session from the     *)
(* load of the index to the end; a mutex that sessionLock has yet to make  *)
(* is a free one.                                                          *)
(*                                                                         *)
(* A message is its number in the order of creation; an index is the       *)
(* sequence of messages it lists.  FAULT marks definitions that are wrong  *)
(* on purpose: defects that some property must detect.                     *)
(***************************************************************************)
EXTENDS Integers, Sequences, SequencesExt, FiniteSets

CONSTANTS
    Callers,      \* goroutines that append
    Nobody,       \* a mutex is free
    Sessions,     \* bound: identifiers of sessions
    MaxMessages,  \* bound: messages ever created
    MaxCrashes,   \* bound: crashes of the program
    WriteFaults,  \* whether the file system may refuse a write
    ReadFaults    \* whether it may refuse a read of an existing file

ASSUME NobodyAssumption == Nobody \notin Callers
ASSUME SessionsAssumption == Sessions # {}
ASSUME BoundsAssumption == MaxMessages \in Nat /\ MaxCrashes \in Nat
ASSUME FaultsAssumption == WriteFaults \in BOOLEAN /\ ReadFaults \in BOOLEAN

Messages == 1..MaxMessages
NoMessage == 0

VARIABLES
    files,    \* session -> messages whose file exists
    index,    \* session -> contents of index.json
    ended,    \* sessions of earlier lives of the program
    crashes,  \* crashes so far
    created,  \* messages created so far
    store,    \* the caller that holds Store.mu between two steps, or Nobody
    lock,     \* session -> the caller that holds its mutex, or Nobody
    pc,       \* where each caller is in Append
    about,    \* caller -> the session its Append is about
    msg,      \* caller -> its message
    entries,  \* caller -> the index it loaded
    acked,    \* history: messages whose Append returned without error
    prior     \* history: message -> acked when it was created

diskVars == <<files, index>>
lifeVars == <<ended, crashes, created>>
callVars == <<about, msg, entries>>
historyVars == <<acked, prior>>
vars == <<diskVars, lifeVars, store, lock, pc, callVars, historyVars>>

Idle == [t \in Callers |-> "idle"]
AnySession == CHOOSE s \in Sessions : TRUE

Goto(t, l) == pc' = [pc EXCEPT ![t] = l]

\* Append gives its locals up.
Forget(t) ==
    /\ msg' = [msg EXCEPT ![t] = NoMessage]
    /\ entries' = [entries EXCEPT ![t] = <<>>]
    /\ about' = [about EXCEPT ![t] = AnySession]

Init ==
    /\ files = [s \in Sessions |-> {}] /\ index = [s \in Sessions |-> <<>>]
    /\ ended = {} /\ crashes = 0 /\ created = 0
    /\ store = Nobody /\ lock = [s \in Sessions |-> Nobody]
    /\ pc = Idle
    /\ about = [t \in Callers |-> AnySession]
    /\ msg = [t \in Callers |-> NoMessage] /\ entries = [t \in Callers |-> <<>>]
    /\ acked = {} /\ prior = [m \in Messages |-> {}]

--------------------------------------------------------------------------------
(* Append. *)

Begin(t, s) ==
    /\ pc[t] = "idle" /\ s \notin ended /\ created < MaxMessages
    /\ created' = created + 1
    /\ msg' = [msg EXCEPT ![t] = created + 1]
    /\ about' = [about EXCEPT ![t] = s]
    /\ prior' = [prior EXCEPT ![created + 1] = acked]
    /\ Goto(t, "message")
    /\ UNCHANGED <<diskVars, ended, crashes, store, lock, entries, acked>>

\* FAULT: an error of SaveMessage is ignored.
GoOn(t) == Goto(t, "lock") /\ UNCHANGED callVars
GiveUp(t) == Goto(t, "idle") /\ Forget(t)

\* SaveMessage writes the file as a whole or fails, and then so does Append.
SaveMessage(t) ==
    /\ pc[t] = "message" /\ store = Nobody
    /\ \/ /\ files' = [files EXCEPT ![about[t]] = @ \cup {msg[t]}]
          /\ Goto(t, "lock")
          /\ UNCHANGED callVars
       \/ /\ WriteFaults
          /\ GiveUp(t)
          /\ UNCHANGED files
    /\ UNCHANGED <<index, lifeVars, store, lock, historyVars>>

\* FAULT: every call makes a mutex of its own.
NobodyElses(s) == TRUE
\* sessionLock returns the one mutex of the session.
IsFree(s) == lock[s] = Nobody

Lock(t) ==
    /\ pc[t] = "lock" /\ IsFree(about[t])
    /\ lock' = [lock EXCEPT ![about[t]] = t]
    /\ Goto(t, "load")
    /\ UNCHANGED <<diskVars, lifeVars, store, callVars, historyVars>>

\* FAULT: the new entry goes to the front.
EntryInFront(list, m) == <<m>> \o list
WithEntry(list, m) == Append(list, m)

\* LoadMessageIndex: a file not there is an empty index, and so is one that
\* cannot be read.
Readable(s) == {index[s]} \cup (IF ReadFaults THEN {<<>>} ELSE {})

\* The new entry goes to the end of what was loaded.
LoadIndex(t) ==
    /\ pc[t] = "load" /\ store = Nobody
    /\ \E loaded \in Readable(about[t]) :
           entries' = [entries EXCEPT ![t] = WithEntry(loaded, msg[t])]
    /\ Goto(t, "write")
    /\ UNCHANGED <<diskVars, lifeVars, store, lock, about, msg, historyVars>>

\* FAULT: index.json itself is truncated and written.
TruncatedIndex(t) == [index EXCEPT ![about[t]] = <<>>]
\* The index stays as it is while a temporary file is written.
IndexMeanwhile(t) == index

\* SaveMessageIndex, the temporary file: nobody reads it; on an error it is
\* removed and Append fails.
WriteIndex(t) ==
    /\ pc[t] = "write" /\ store = Nobody
    /\ \/ store' = t /\ Goto(t, "rename")
       \/ WriteFaults /\ UNCHANGED store /\ Goto(t, "fail")
    /\ index' = IndexMeanwhile(t)
    /\ UNCHANGED <<files, lifeVars, lock, callVars, historyVars>>

RenameIndex(t) ==
    /\ pc[t] = "rename"
    /\ \/ /\ index' = [index EXCEPT ![about[t]] = entries[t]]
          /\ Goto(t, "return")
       \/ /\ WriteFaults
          /\ UNCHANGED index
          /\ Goto(t, "fail")
    /\ store' = Nobody
    /\ UNCHANGED <<files, lifeVars, lock, callVars, historyVars>>

\* FAULT: an error return leaves the mutex locked.
UnlockedOnSuccess(t) == IF pc[t] = "return" THEN [lock EXCEPT ![about[t]] = Nobody] ELSE lock
\* The deferred unlock, on both returns.
Unlocked(t) == [lock EXCEPT ![about[t]] = Nobody]

Return(t) ==
    /\ pc[t] \in {"return", "fail"}
    /\ lock' = Unlocked(t)
    /\ acked' = IF pc[t] = "return" THEN acked \cup {msg[t]} ELSE acked
    /\ Goto(t, "idle") /\ Forget(t)
    /\ UNCHANGED <<diskVars, lifeVars, store, prior>>

--------------------------------------------------------------------------------

\* The program dies and starts again: what is in memory is gone, what is on
\* disk stays, and sessions of the new life have identifiers of their own.
Crash ==
    /\ crashes < MaxCrashes
    /\ crashes' = crashes + 1
    /\ ended' = {s \in Sessions : files[s] # {}}
    /\ store' = Nobody /\ lock' = [s \in Sessions |-> Nobody]
    /\ pc' = Idle
    /\ about' = [t \in Callers |-> AnySession]
    /\ msg' = [t \in Callers |-> NoMessage] /\ entries' = [t \in Callers |-> <<>>]
    /\ UNCHANGED <<diskVars, created, historyVars>>

Progress(t) ==
    \/ SaveMessage(t) \/ Lock(t) \/ LoadIndex(t)
    \/ WriteIndex(t) \/ RenameIndex(t) \/ Return(t)

Next ==
    \/ \E t \in Callers : Progress(t) \/ \E s \in Sessions : Begin(t, s)
    \/ Crash

Spec == Init /\ [][Next]_vars

\* Goroutines that can run do run, and sync.Mutex starves nobody.
Fairness == \A t \in Callers : SF_vars(Progress(t))

FairSpec == Spec /\ Fairness

--------------------------------------------------------------------------------
(* Properties. *)

\* Append is inside the mutex of its session.
InIndex(t) == pc[t] \in {"load", "write", "rename", "return", "fail"}

\* Each mutex is held by the one caller that is inside it, and by nobody else.
MutexesAreHeld ==
    /\ \A t \in Callers : store = t <=> pc[t] = "rename"
    /\ \A s \in Sessions, t \in Callers : lock[s] = t <=> InIndex(t) /\ about[t] = s

\* Types of all variables, and the mutexes with who holds them.
TypeOK ==
    /\ files \in [Sessions -> SUBSET Messages]
    /\ index \in [Sessions -> Seq(Messages)]
    /\ ended \subseteq Sessions /\ crashes \in 0..MaxCrashes
    /\ created \in 0..MaxMessages
    /\ store \in Callers \cup {Nobody}
    /\ lock \in [Sessions -> Callers \cup {Nobody}]
    /\ pc \in [Callers -> {"idle", "message", "lock", "load", "write", "rename",
                           "return", "fail"}]
    /\ about \in [Callers -> Sessions]
    /\ msg \in [Callers -> Messages \cup {NoMessage}]
    /\ entries \in [Callers -> Seq(Messages)]
    /\ acked \subseteq Messages /\ prior \in [Messages -> SUBSET Messages]
    /\ MutexesAreHeld

\* What list_messages lists, get_message finds, also after a crash between
\* the two files of a message: no entry dangles and none appears twice
\* (message.go:45 before 63).
IndexHasMessages ==
    \A s \in Sessions : IsInjective(index[s]) /\ ToSet(index[s]) \subseteq files[s]

\* The history of a session only grows at its end, through concurrent appends,
\* refused writes and crashes (message.go:49-63, store.go:43-69).
HistoryGrows == [][\A s \in Sessions : IsPrefix(index[s], index'[s])]_index

\* A message whose Append returned without error is in the history and stays
\* there (README.md:49, "I/O messages persisted").
AckedIsListed ==
    \A m \in acked : \E s \in Sessions : m \in ToSet(index[s])

\* Concurrent appends may be listed in any order, but one that began after
\* another had returned is listed after it (message.go:57).
OrderIsRespected ==
    \A s \in Sessions : \A i, j \in 1..Len(index[s]) :
        i < j => index[s][j] \notin prior[index[s][i]]

\* Every Append returns, whatever fails in another (message.go:49-51).
AppendsEnd == \A t \in Callers : pc[t] # "idle" ~> pc[t] = "idle"
================================================================================
