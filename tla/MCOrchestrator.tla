--------------------------- MODULE MCOrchestrator ---------------------------
(* CallOrchestrator on its own: every method, called in any order. *)
EXTENDS CallOrchestrator, TLC

\* Calls, sessions and answers are interchangeable.
Symmetry == Permutations(CallIds) \cup Permutations(SessionKeys) \cup Permutations(Sdps)

\* Bound: at most one list entry in all, and none once a third call is placed;
\* what the lists hold matters to no other field of any record.
Entries(c) == calls[c].localCandidates + calls[c].remoteCandidates + calls[c].transcript
FewEntries ==
    LET holders == {c \in CallIds : Entries(c) > 0}
    IN  /\ Cardinality(holders) <= 1
        /\ \A c \in holders : Entries(c) = 1
        /\ holders # {} => Cardinality({c \in CallIds : Known(c)}) <= 2
=============================================================================
