------------------------------ MODULE MCSession ------------------------------
(* Session.tla for TLC. *)
EXTENDS Session, TLC

\* Callers are interchangeable.
CallerSymmetry == Permutations(Caller)
=============================================================================
