-------------------------- MODULE MCQueryRuntime --------------------------
(* Versions and cache keys for TLC. *)
EXTENDS QueryRuntime, TLC

CONSTANTS v1, v2, v3

MCVersions == {v1, v2, v3}

\* v1 and v2 are states of one commit, v3 is the next commit.
MCKeyOf == v1 :> "k1" @@ v2 :> "k1" @@ v3 :> "k2"

\* v2 lacks a file of v1 ...
MCShrinks == {<<v1, v2>>}
MCCountOf == v1 :> 2 @@ v2 :> 1 @@ v3 :> 3 @@ HALF :> 1

\* ... or has an edited one, and as many chunks.
MCEdited == v1 :> 2 @@ v2 :> 2 @@ v3 :> 3 @@ HALF :> 1

MCSymmetry == Permutations(Threads)

MCKeys == {"k1", "k2"}

===========================================================================
