------------------------------ MODULE SessionLife ------------------------------
(***************************************************************************)
(* What a session promises to everybody who holds it, with no goroutine,   *)
(* no Once and no connection:                                              *)
(*                                                                         *)
(*   - it runs, is ending, has exited, in this order and for good;         *)
(*   - its exit code is set with the exit and never revised;               *)
(*   - end of file on its output comes after the exit is recorded, so      *)
(*     who sees the one can rely on the other;                             *)
(*   - no Terminate returns while the session still runs.                  *)
(*                                                                         *)
(* Session implements this specification.                                  *)
(***************************************************************************)

VARIABLES
    phase,     \* "running", "ending" (the end is known to the program, but not
               \* recorded), "exited" (Session.Status)
    code,      \* Session.ExitCode, "none" while nil
    eof,       \* readers of the output get end of file
    returned   \* some Terminate has returned

lifeVars == <<phase, code, eof, returned>>

LifeInit == phase = "running" /\ code = "none" /\ eof = FALSE /\ returned = FALSE

\* The process is reported gone, or somebody gives up waiting for that.
LifeEnd ==
    /\ phase = "running" /\ phase' = "ending"
    /\ UNCHANGED <<code, eof, returned>>

\* "zero" is the code of a process whose status did not arrive.
LifeRecord ==
    /\ phase = "ending" /\ phase' = "exited"
    /\ code' \in {"real", "zero", "minus1"}
    /\ UNCHANGED <<eof, returned>>

LifeClose ==
    /\ phase = "exited" /\ eof' = TRUE
    /\ UNCHANGED <<phase, code, returned>>

LifeReturn ==
    /\ phase # "running" /\ returned' = TRUE
    /\ UNCHANGED <<phase, code, eof>>

LifeNext == LifeEnd \/ LifeRecord \/ LifeClose \/ LifeReturn

LifeSpec == LifeInit /\ [][LifeNext]_lifeVars
================================================================================
