--------------------------- MODULE MCUpdateInstall ---------------------------
(* Symmetry for the safety runs of UpdateInstall: launcher processes, helper *)
(* processes and staging directories are interchangeable.                    *)
EXTENDS UpdateInstall, TLC

Symmetric == Permutations(Launchers) \cup Permutations(Helpers) \cup Permutations(Stages)
=============================================================================
