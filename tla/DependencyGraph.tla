-------------------------- MODULE DependencyGraph --------------------------
(***************************************************************************)
(* The file graph of a repository (index/graph.py): at most one edge from  *)
(* a file to another, built from the resolved imports, filled up with      *)
(* directory neighbours where imports say nothing, and enriched with       *)
(* semantic evidence.  Its update by a delta is that of the rows of        *)
(* IndexStore.                                                             *)
(*                                                                         *)
(* A node is a path, <<directory, name>>.  An import that does not resolve *)
(* leads to the node unresolved://module, whose directory, by the last     *)
(* slash, is "unresolved:/" for every such module.                         *)
(***************************************************************************)
EXTENDS Integers, Sequences, FiniteSets, SequencesExt, FiniteSetsExt

CONSTANTS
    NONE,                       \* no value
    CoDirectoryDenseThreshold,  \* files of a directory linked pairwise
    CoDirectoryWindowSize       \* neighbours linked to each in a larger one

ASSUME WindowAssumption ==
    CoDirectoryDenseThreshold \in Nat /\ CoDirectoryWindowSize \in Nat \ {0}

Dir(node) == node[1]

Unresolved(module) == <<"unresolved:/", module>>

\* _edge_attrs: an ambiguous edge is kept but not followed.
Traversable(edge) == edge.confidence # "ambiguous"

EmptyGraph == [nodes |-> <<>>, edges |-> {}]

AddNode(g, node) ==
    IF node \in ToSet(g.nodes) THEN g ELSE [g EXCEPT !.nodes = Append(@, node)]

Edge(s, t, kind, confidence) ==
    [source |-> s, target |-> t, kind |-> kind, confidence |-> confidence]

HasEdge(g, s, t) == \E e \in g.edges : e.source = s /\ e.target = t

\* A second edge between two nodes takes the place of the first.
AddEdge(g, edge) ==
    [AddNode(AddNode(g, edge.source), edge.target) EXCEPT
        !.edges = {e \in @ : e.source # edge.source \/ e.target # edge.target} \cup {edge}]

FromEdges(edges) == FoldSet(LAMBDA e, g : AddEdge(g, e), EmptyGraph, edges)

ImportEdge(files, file, import) ==
    IF import.resolved \in ToSet(files)
    THEN Edge(file, import.resolved, "imports", "extracted")
    ELSE Edge(file, Unresolved(import.module), "imports", "ambiguous")

\* files: the parsed files in order; imports[f]: the imports of f in order,
\* with the path each resolves to.
FromParsedFiles(files, imports) ==
    LET bare == FoldLeft(AddNode, EmptyGraph, files)
        AddImports(g, f) ==
            FoldLeft(LAMBDA h, i : AddEdge(h, ImportEdge(files, f, i)), g, imports[f])
    IN  FoldLeft(AddImports, bare, files)

\* Each file and the ones after it in its directory: all of them, or a window.
CoDirectoryPairs(g) ==
    LET In(dir)  == SelectSeq(g.nodes, LAMBDA n : Dir(n) = dir)
        Reach(s) == IF Len(s) <= CoDirectoryDenseThreshold THEN Len(s)
                    ELSE CoDirectoryWindowSize
        Pairs(s) == {<<s[x[1]], s[x[2]]>> : x \in
                        {y \in (1..Len(s)) \X (1..Len(s)) :
                            y[1] < y[2] /\ y[2] <= y[1] + Reach(s)}}
    IN  UNION {Pairs(In(Dir(n))) : n \in ToSet(g.nodes)}

AddCoDirectoryEdges(g) ==
    LET pairs == CoDirectoryPairs(g)
        both  == pairs \cup {<<p[2], p[1]>> : p \in pairs}
    IN  [g EXCEPT !.edges = @ \cup
            {Edge(p[1], p[2], "co_directory", "heuristic") :
                p \in {q \in both : ~ HasEdge(g, q[1], q[2])}}]

\* Only between files that are known, and never over an edge that is there.
AddSemanticEdges(g, evidence) ==
    FoldLeft(LAMBDA h, e :
                IF {e.source, e.target} \subseteq ToSet(h.nodes) /\ ~ HasEdge(h, e.source, e.target)
                THEN AddEdge(h, Edge(e.source, e.target, "semantic", "extracted"))
                ELSE h,
             g, evidence)

FollowedFrom(g, node) ==
    {e.target : e \in {x \in g.edges : x.source = node /\ Traversable(x)}}

FollowedInto(g, node) ==
    {e.source : e \in {x \in g.edges : x.target = node /\ Traversable(x)}}

ImportsOf(g, node) == FollowedFrom(g, node)

ImportedBy(g, node) == FollowedInto(g, node)

=============================================================================
