------------------------- MODULE MCPortableArtifact -------------------------
(* The files, contents and imports of MCEnsureIndex. *)
EXTENDS PortableArtifact

CONSTANTS f, g, a, b

MCFiles == {f, g}
MCContents == {a, b}
MCImports == [x \in MCContents |-> IF x = b THEN {g} ELSE {}]
=============================================================================
