-------------------------- MODULE MCReliabilityLab --------------------------
(***************************************************************************)
(* ReliabilityLab on a small instance.                                     *)
(***************************************************************************)
EXTENDS ReliabilityLab

\* Processes, organizations and run ids are interchangeable.
Symmetry == Permutations(Workers) \cup Permutations(Orgs) \cup Permutations(RunIds)

==============================================================================
