---------------------------- MODULE Repository ----------------------------
(***************************************************************************)
(* The indexed git repository as archex sees it: the working tree, the     *)
(* commits, HEAD, and the three questions index/delta.py asks git or the   *)
(* file system - the working-tree signature, the difference of two commits *)
(* and the difference between recorded file states and the tree.           *)
(*                                                                         *)
(* Abstracted: the git index (a change is a change of the tree; only a     *)
(* rename may be staged, which is a choice below), file modes, and the     *)
(* stat shortcut - a file whose content changed is taken to have a new     *)
(* size or mtime, so comparing states is comparing contents.               *)
(***************************************************************************)
EXTENDS IndexStore, Sequences

CONSTANTS
    Unlisted,     \* paths whose extension names no language: indexed as text
    MaxCommits    \* bound: commits the repository ever has

ASSUME RepositoryAssumption ==
    /\ Unlisted \subseteq Files
    /\ MaxCommits \in Nat \ {0}
    /\ NONE \notin Tree

Commit == 1..MaxCommits

VARIABLES
    tree,       \* the working tree
    history,    \* history[n]: the snapshot recorded by commit n
    head        \* the checked out commit

repoVars == <<tree, history, head>>

RepoTypeOK ==
    /\ tree \in Tree
    /\ history \in [Commit -> Tree \cup {NONE}]
    /\ head \in Commit
    /\ history[head] \in Tree

Dirty == {f \in Files : tree[f] # history[head][f]}

\* compute_working_tree_signature: one entry per changed file of a listed
\* extension, with its status (tracked or not) and its hash if it exists; {}
\* reads "clean".
WorkingTreeSignature ==
    {<<f, history[head][f] # NONE, tree[f]>> : f \in Dirty \ Unlisted}

SignatureType == SUBSET (Files \X BOOLEAN \X (Contents \cup {NONE}))

---------------------------------------------------------------------------
(* Change manifests.                                                       *)

ManifestType ==
    [modified : SUBSET Files, added : SUBSET Files, deleted : SUBSET Files,
     renamed : SUBSET (Files \X Files)]

NoChanges == [modified |-> {}, added |-> {}, deleted |-> {}, renamed |-> {}]

ChangeCount(m) ==
    Cardinality(m.modified) + Cardinality(m.added)
        + Cardinality(m.deleted) + Cardinality(m.renamed)

Renamed(m) == {r[2] : r \in m.renamed}

\* Pairings of deleted with added paths, each path used at most once.
Pairings(deleted, added) ==
    {R \in SUBSET (deleted \X added) :
        \A r, s \in R : (r[1] = s[1] \/ r[2] = s[2]) => r = s}

Classified(old, new, gone, come, both, R) ==
    [modified |-> {f \in both : old[f] # new[f]}
                    \cup {r[2] : r \in {s \in R : old[s[1]] # new[s[2]]}},
     added    |-> come \ {r[2] : r \in R},
     deleted  |-> gone \ {r[1] : r \in R},
     renamed  |-> R]

\* git diff --name-status -M base..current.  git pairs identical contents
\* exhaustively and reports them as R, never as M of the new path too.
GitDiffs(base, current) ==
    LET old  == history[base]
        new  == history[current]
        gone == Present(old) \ Present(new)
        come == Present(new) \ Present(old)
        Exact == {R \in Pairings(gone, come) : \A r \in R : old[r[1]] = new[r[2]]}
    IN  {Classified(old, new, gone, come, Present(old) \cap Present(new), R) :
            R \in {X \in Exact : \A Y \in Exact : X \subseteq Y => X = Y}}

\* compute_mtime_delta, taken when the store has no file states: the paths
\* that own chunks against the tree; which common path is newer than the index
\* is up to the clock.
MtimeDeltas(st) ==
    LET indexed == {f \in Files : st.chunks[f] # {}}
    IN  {[modified |-> M, added |-> Present(tree) \ indexed,
          deleted |-> indexed \ Present(tree), renamed |-> {}] :
            M \in SUBSET (indexed \cap Present(tree))}

\* compute_working_tree_delta: recorded states against the tree; a pairing is
\* reported as far as the renames were staged and name a listed extension.
WorkingTreeDeltas(st) ==
    LET old  == st.states
        gone == Present(old) \ Present(tree)
        come == Present(tree) \ Present(old)
    IN  IF Present(old) = {} THEN MtimeDeltas(st)
        ELSE {Classified(old, tree, gone, come, Present(old) \cap Present(tree), R) :
                R \in {X \in Pairings(gone, come) : X \cap (Unlisted \X Unlisted) = {}}}

---------------------------------------------------------------------------
(* What the user, the editor and git do to the repository (external).      *)

RepoInit ==
    /\ tree \in Tree
    /\ head = 1
    /\ history = [n \in Commit |-> IF n = 1 THEN tree ELSE NONE]

Edit(f, c) ==
    /\ tree[f] # c
    /\ tree' = [tree EXCEPT ![f] = c]
    /\ UNCHANGED <<history, head>>

\* Commit the changes of some dirty paths; the others stay in the tree.
GitCommit(paths) ==
    /\ paths \subseteq Dirty
    /\ \E n \in Commit :
        /\ history[n] = NONE
        /\ \A k \in 1..(n - 1) : history[k] # NONE
        /\ history' = [history EXCEPT ![n] =
                [f \in Files |-> IF f \in paths THEN tree[f] ELSE history[head][f]]]
        /\ head' = n
    /\ UNCHANGED tree

\* Move HEAD to a commit that exists; git refuses when a dirty path differs
\* between the two commits and carries the other dirty paths along.
Checkout(n) ==
    /\ n # head /\ history[n] # NONE
    /\ \A f \in Dirty : history[n][f] = history[head][f]
    /\ head' = n
    /\ tree' = [f \in Files |-> IF f \in Dirty THEN tree[f] ELSE history[n][f]]
    /\ UNCHANGED history

===========================================================================
