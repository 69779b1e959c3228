-------------------------- MODULE MCProjectSession --------------------------
(* Symmetry for TLC: processes are interchangeable, and so are versions, *)
(* each with a commit and a signature of its own.                        *)
EXTENDS ProjectSession, TLC

MCOwn == [v \in Versions |-> v]

\* Bound: a third call where the tree has moved or been indexed once at most.
ThirdCallIsQuiet == calls = 3 => moves + refreshes <= 1

MCSymmetry == Permutations(Procs) \cup Permutations(Versions)
=============================================================================
