------------------------------ MODULE MCPlugin ------------------------------
(* The gateway handlers over one orchestrator, with nodes that come and go. *)
EXTENDS RtcPlugin, TLC

MCReasons == {"user", "gateway-shutdown", "invoke-failed"}

\* No two calls, sessions, answers, requests or nodes differ.
Symmetry == Permutations(CallIds) \cup Permutations(SessionKeys)
            \cup Permutations(Requests) \cup Permutations(Nodes)
=============================================================================
