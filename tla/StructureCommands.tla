------------------------- MODULE StructureCommands -------------------------
(***************************************************************************)
(* The commands that answer from the structure of an indexed repository:   *)
(* `archex graph export`, `graph query`, `graph path`, `graph neighbors`,  *)
(* `explain` and `impact`.  The index is built from the parsed files and   *)
(* their resolved imports, then enriched with semantic evidence; an        *)
(* exported artifact is what the graph queries read.                       *)
(***************************************************************************)
EXTENDS GraphQuery, Impact

CONSTANTS
    Trees,      \* parsed repositories: files, imports, evidence, chunks and the rest of an index
    Queries,    \* neighbours and path queries
    Changes     \* sets of changed files that are asked about

VARIABLE index

structureVars == <<index, graph, search>>

NoGraph == [nodes |-> {}, edges |-> {}]

\* The edges that parse_repository and produce_chunks store with the chunks.
Indexed(tree) ==
    [chunks  |-> tree.chunks,
     edges   |-> AddSemanticEdges(FromParsedFiles(tree.files, tree.imports), tree.evidence).edges,
     configs |-> tree.configs, large |-> tree.large, entries |-> tree.entries,
     central |-> tree.central]

\* A parsed repository yields finitely many rows.
ASSUME TreesAssumption ==
    \A tree \in Trees : IsFiniteSet(tree.chunks) /\ IsFiniteSet(Indexed(tree).edges)

StructureInit ==
    /\ \E tree \in Trees : index = Indexed(tree)
    /\ graph = NoGraph /\ search = NoSearch

\* Another command runs.
StructureIdle == index = NONE /\ graph = NoGraph /\ search = NoSearch

\* graph export: everything the index knows now; an older artifact is replaced.
ExportGraph ==
    /\ graph = NoGraph /\ search = NoSearch
    /\ graph' = BuildArchGraph(index)
    /\ UNCHANGED <<index, search>>

QueryGraph ==
    /\ graph # NoGraph /\ QueryNext(Queries)
    /\ UNCHANGED index

\* impact: the report of a change and the symbols its hunks touch.
AssessImpact(changes) ==
    /\ search = NoSearch
    /\ search' = [op |-> "impact", step |-> "done", changes |-> changes,
                  report |-> AnalyzeImpact(index, changes),
                  symbols |-> AffectedSymbols(index, changes, [p \in ChangedPaths(changes) |-> {<<1, 5>>}])]
    /\ UNCHANGED <<index, graph>>

StructureNext ==
    \/ ExportGraph
    \/ QueryGraph
    \/ \E changes \in Changes : AssessImpact(changes)

StructureSpec == StructureInit /\ [][StructureNext]_structureVars

---------------------------------------------------------------------------
(* Properties.                                                             *)

\* A change that includes another reaches whatever the other reaches and is
\* never rated lower, also when it adds files the index does not know, a
\* configuration file, or importers of a file of the smaller change; and each
\* symbol a hunk touches is of a file the report reaches (impact.py
\* _risk_reasons, _risk_level, analyze_diff_impact).
RiskGrows ==
    search.op = "impact" =>
        /\ \A smaller \in SUBSET search.changes :
            LET less == AnalyzeImpact(index, smaller)
            IN  /\ less.files \subseteq search.report.files
                /\ less.interfaces \subseteq search.report.interfaces
                /\ LevelRank(less.level) <= LevelRank(search.report.level)
        /\ \A s \in search.symbols : \E c \in index.chunks :
                c.id = s[1] /\ c.file \in search.report.files

\* What an exported artifact explains is what the index it came from explains.
ArtifactExplains == graph # NoGraph /\ search = NoSearch => ExplanationsAgree(index, graph)

=============================================================================
