----------------------- MODULE MCPolicyDistribution -----------------------
(***************************************************************************)
(* Small instances of PolicyDistribution for TLC.                          *)
(***************************************************************************)
EXTENDS PolicyDistribution, TLC

\* Agents, documents and handlers are interchangeable; safety only.
Symmetry ==
    Permutations(Agents) \cup Permutations(Contents) \cup Permutations(Handlers)
============================================================================
