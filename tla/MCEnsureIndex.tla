--------------------------- MODULE MCEnsureIndex ---------------------------
(* Two files and two contents - one content where calls interleave; a file   *)
(* with content b imports file g.                                            *)
EXTENDS EnsureIndex, TLC

CONSTANTS f, g, a, b

MCFiles == {f, g}
MCContents1 == {b}
MCContents == {a, b}
MCImports == [x \in Contents |-> IF x = b THEN {g} ELSE {}]

ProcSymmetry == Permutations(Procs)

\* Bound: calls interleave as long as none was killed.
OneFault == crashes > 0 => \E p \in Procs : \A q \in Procs \ {p} : pc[q] = "idle"

===========================================================================
