------------------------------ MODULE MCWebUi ------------------------------
(***************************************************************************)
(* A small instance of WebUi.  No action tells one attempt from another    *)
(* but by what it has done, and the run checks invariants only, so that    *)
(* permuting the attempts is sound.                                        *)
(***************************************************************************)
EXTENDS WebUi, TLC

AttemptSymmetry == Permutations(Attempts)
=============================================================================
