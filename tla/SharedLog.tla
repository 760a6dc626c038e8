------------------------------- MODULE SharedLog -------------------------------
(***************************************************************************)
(* What internal/buffer promises to its callers, with no lock, no wait set *)
(* and no ring: one log of accepted bytes and one cursor per registered    *)
(* reader.  A byte is named by its position in the order the buffer        *)
(* accepted it, so the log itself is the number  wrote.                    *)
(*                                                                         *)
(*   - a reader sees what is accepted after it registered, each byte at    *)
(*     most once and in order;                                             *)
(*   - a reader that falls more than Size behind loses the oldest bytes,   *)
(*     never the newest, and never because of what another reader does;    *)
(*   - nothing is accepted and nobody registers once the log is closed.    *)
(*                                                                         *)
(* OutputBuffer implements this specification.                             *)
(***************************************************************************)
EXTENDS Integers, Sequences

CONSTANTS
    Size,        \* capacity of one reader's view, buffer.New(maxBytes)
    MaxChunk,    \* most bytes one Write brings (pipeToBuffer reads 4096)
    MaxReaders   \* bound: readers ever registered

ReaderIds == 0..(MaxReaders - 1)

VARIABLES
    wrote,    \* bytes accepted so far
    closed,   \* no more will be accepted
    nextID,   \* the identifier the next reader gets
    cursor,   \* registered reader -> bytes behind it
    got       \* reader -> every position it was handed, in order

logVars == <<wrote, closed, nextID, cursor, got>>

\* The positions a+1 .. b as a sequence.
Interval(a, b) == [i \in 1..(b - a) |-> a + i]

\* Where a cursor at c stands once the log has grown to w bytes.
PushedBy(c, w) == IF c < w - Size THEN w - Size ELSE c

LogInit ==
    /\ wrote = 0
    /\ closed = FALSE
    /\ nextID = 0
    /\ cursor = [id \in {} |-> 0]
    /\ got = [id \in ReaderIds |-> <<>>]

LogWrite(n) ==
    /\ ~closed
    /\ wrote' = wrote + n
    /\ cursor' = [id \in DOMAIN cursor |-> PushedBy(cursor[id], wrote + n)]
    /\ UNCHANGED <<closed, nextID, got>>

LogRegister ==
    /\ ~closed
    /\ nextID \in ReaderIds
    /\ nextID' = nextID + 1
    /\ cursor' = [id \in DOMAIN cursor \cup {nextID} |->
                    IF id = nextID THEN wrote ELSE cursor[id]]
    /\ UNCHANGED <<wrote, closed, got>>

LogUnregister(id) ==
    /\ id \in DOMAIN cursor
    /\ cursor' = [other \in DOMAIN cursor \ {id} |-> cursor[other]]
    /\ UNCHANGED <<wrote, closed, nextID, got>>

\* A read hands over everything between the reader's cursor and the end.
LogDeliver(id) ==
    /\ id \in DOMAIN cursor
    /\ cursor[id] < wrote
    /\ got' = [got EXCEPT ![id] = @ \o Interval(cursor[id], wrote)]
    /\ cursor' = [cursor EXCEPT ![id] = wrote]
    /\ UNCHANGED <<wrote, closed, nextID>>

LogClose ==
    /\ closed' = TRUE
    /\ UNCHANGED <<wrote, nextID, cursor, got>>

LogNext ==
    \/ \E n \in 1..MaxChunk : LogWrite(n)
    \/ LogRegister
    \/ \E id \in ReaderIds : LogUnregister(id) \/ LogDeliver(id)
    \/ LogClose

LogSpec == LogInit /\ [][LogNext]_logVars
================================================================================
