------------------------------ MODULE MCSystem ------------------------------
(* One call over one gateway and two nodes that come and go. *)
EXTENDS CallSystem, TLC

MCReasons == {"user", "gateway-shutdown", "invoke-failed"}

\* No two calls, sessions, answers, requests or nodes differ.
Symmetry == Permutations(CallIds) \cup Permutations(SessionKeys)
            \cup Permutations(Requests) \cup Permutations(Nodes)
=============================================================================
