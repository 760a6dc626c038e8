---------------------------- MODULE MCOutputBuffer ----------------------------
(* Instances of OutputBuffer for TLC. *)
EXTENDS OutputBuffer, TLC

\* Callers are interchangeable: no action or property names one of them.
CallerSymmetry == Permutations(Callers)
================================================================================
