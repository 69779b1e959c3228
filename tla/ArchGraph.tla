----------------------------- MODULE ArchGraph -----------------------------
(***************************************************************************)
(* The graph artifact of an index (graph_artifact.py), and the explanation *)
(* of a file, symbol or module, which the program can read from the index  *)
(* or from an exported artifact (explain.py).                              *)
(*                                                                         *)
(* An index is the set of its chunks and the set of its stored edges.  A   *)
(* file is known by its chunks: get_file_metadata groups them.  A node id  *)
(* is the tuple of its parts, so ids are equal as their text is.  Names    *)
(* are tuples of one string, to tell them from paths.                      *)
(***************************************************************************)
EXTENDS DependencyGraph

CONSTANTS
    ConfigNames,    \* _KNOWN_CONFIG_NAMES
    TestNames       \* file names test_* and *_test.py

IsConfigPath(p) == p[2] \in ConfigNames

IsTestPath(p) == Dir(p) = "tests" \/ p[2] \in TestNames

FileNodeId(p) == <<"file", p>>

NodeIdForPath(p) ==
    IF IsConfigPath(p) THEN <<"config", p>>
    ELSE IF IsTestPath(p) THEN <<"test", p>> ELSE FileNodeId(p)

SymbolNodeId(c) == <<"symbol", c.file, c.symbol, c.kind>>

InterfaceNodeId(c) == <<"interface", c.file, c.symbol>>

HasSymbol(c) == c.symbol # NONE

PublicKinds == {"function", "class", "interface"}

IsPublicInterface(c) ==
    HasSymbol(c) /\ c.visibility \in {NONE, "public"} /\ c.kind \in PublicKinds

IndexedFiles(index) == {c.file : c \in index.chunks}

---------------------------------------------------------------------------
(* build_arch_graph_from_store.  Two chunks of one symbol yield a node and *)
(* an edge each: field "of" keeps them apart.                              *)

GraphNode(id, label, kind, of) ==
    [id |-> id, type |-> id[1], path |-> id[2], label |-> label, kind |-> kind, of |-> of]

FileNodes(index) == {GraphNode(NodeIdForPath(p), p, NONE, NONE) : p \in IndexedFiles(index)}

SymbolNodes(index) ==
    {GraphNode(SymbolNodeId(c), c.symbol, c.kind, c.id) : c \in {x \in index.chunks : HasSymbol(x)}}
        \cup {GraphNode(InterfaceNodeId(c), c.symbol, c.kind, c.id) :
                c \in {x \in index.chunks : IsPublicInterface(x)}}

EntryNodes(index) ==
    {GraphNode(<<"entry_point", c.file, c.symbol>>, c.symbol, c.kind, c.id) :
        c \in {x \in index.chunks : Dir(x.file) # "" /\ x.file[2] = "main.py" /\ x.symbol = <<"run">>}}

ConfigNodes(index) ==
    {GraphNode(<<"config", p>>, p, NONE, NONE) : p \in index.configs \ IndexedFiles(index)}

GraphEdge(s, t, type, of) == [source |-> s, target |-> t, type |-> type, of |-> of]

\* Semantic edges are not exported.
FileEdges(index) ==
    {GraphEdge(NodeIdForPath(e.source), NodeIdForPath(e.target), e.kind, NONE) :
        e \in {x \in index.edges : x.kind \in {"imports", "co_directory"}}}

SymbolEdges(index) ==
    {GraphEdge(NodeIdForPath(c.file), SymbolNodeId(c), "contains", c.id) :
        c \in {x \in index.chunks : HasSymbol(x)}}
    \cup {GraphEdge(NodeIdForPath(c.file), InterfaceNodeId(c), "exposes", c.id) :
        c \in {x \in index.chunks : IsPublicInterface(x)}}

BuildArchGraph(index) ==
    [nodes |-> FileNodes(index) \cup SymbolNodes(index) \cup EntryNodes(index) \cup ConfigNodes(index),
     edges |-> FileEdges(index) \cup SymbolEdges(index)]

---------------------------------------------------------------------------
(* Explanations.                                                           *)

\* Raised for what is not in the index or the artifact.
ExplainError == [error |-> TRUE]

PathMatchesModule(p, module) == Dir(p) = module

ModuleFilesOf(files, p) == IF Dir(p) = "" THEN {p} ELSE {q \in files : Dir(q) = Dir(p)}

Explained(files, imports, importedBy, symbols, moduleFiles) ==
    [files |-> files, imports |-> imports, importedBy |-> importedBy,
     public |-> {s \in symbols : s[4] \in PublicKinds},
     internal |-> {s \in symbols : s[4] \notin PublicKinds},
     moduleFiles |-> moduleFiles]

SymbolsOf(chunks) == {SymbolNodeId(c) : c \in {x \in chunks : HasSymbol(x)}}

Explain(index, files, moduleFiles) ==
    Explained(files,
        {e.target : e \in {x \in index.edges : x.source \in files /\ x.target \notin files}},
        {e.source : e \in {x \in index.edges : x.target \in files /\ x.source \notin files}},
        SymbolsOf({c \in index.chunks : c.file \in files}), moduleFiles)

ExplainFile(index, p) ==
    IF p \notin IndexedFiles(index) THEN ExplainError
    ELSE Explain(index, {p}, ModuleFilesOf(IndexedFiles(index), p))

ExplainModule(index, module) ==
    LET files == {p \in IndexedFiles(index) : PathMatchesModule(p, module)}
    IN  IF files = {} THEN ExplainError ELSE Explain(index, files, files)

\* target is a symbol's node id.  Unlike a file's symbols, a symbol that is
\* asked for is public only if it is visible.
ExplainSymbol(index, target) ==
    LET found == {c \in index.chunks : HasSymbol(c) /\ SymbolNodeId(c) = target}
    IN  IF found = {} THEN ExplainError
        ELSE LET public == IsPublicInterface(CHOOSE c \in found : TRUE)
             IN  [ExplainFile(index, target[2]) EXCEPT
                    !.public = IF public THEN {target} ELSE {},
                    !.internal = IF public THEN {} ELSE {target}]

SourceNodes(graph) == {n \in graph.nodes : n.type \in {"file", "test"}}

\* The path of a node, or the id of one the artifact does not have.
PathById(graph, id) == IF \E n \in graph.nodes : n.id = id THEN id[2] ELSE id

\* Mutant of GraphImports: edges of any type.
GraphImportsAnyEdge(graph, ids) ==
    {e.target : e \in {x \in graph.edges : x.source \in ids /\ x.target \notin ids}}

GraphImports(graph, ids) ==
    {e.target : e \in {x \in graph.edges :
        x.type = "imports" /\ x.source \in ids /\ x.target \notin ids}}

GraphImportedBy(graph, ids) ==
    {e.source : e \in {x \in graph.edges :
        x.type = "imports" /\ x.target \in ids /\ x.source \notin ids}}

ExplainGraph(graph, files, ids, moduleFiles) ==
    Explained(files,
        {PathById(graph, id) : id \in GraphImports(graph, ids)},
        {PathById(graph, id) : id \in GraphImportedBy(graph, ids)},
        {n.id : n \in {x \in graph.nodes : x.type = "symbol" /\ x.path \in files}}, moduleFiles)

ExplainGraphFile(graph, p) ==
    LET found == {n \in SourceNodes(graph) : n.path = p}
    IN  IF found = {} THEN ExplainError
        ELSE ExplainGraph(graph, {p}, {n.id : n \in found},
                          ModuleFilesOf({n.path : n \in SourceNodes(graph)}, p))

ExplainGraphModule(graph, module) ==
    LET found == {n \in SourceNodes(graph) : PathMatchesModule(n.path, module)}
        files == {n.path : n \in found}
    IN  IF found = {} THEN ExplainError ELSE ExplainGraph(graph, files, {n.id : n \in found}, files)

\* The artifact does not know visibility.
ExplainGraphSymbol(graph, target) ==
    LET context == ExplainGraphFile(graph, target[2])
        public  == target[4] \in PublicKinds
    IN  IF context = ExplainError \/ ~ \E n \in graph.nodes : n.id = target THEN ExplainError
        ELSE [context EXCEPT !.public = IF public THEN {target} ELSE {},
                             !.internal = IF public THEN {} ELSE {target}]

---------------------------------------------------------------------------
(* Properties.                                                             *)

\* An explanation read from an artifact is the one read from the index it was
\* exported from: same symbols, and the same imports and importers, each under
\* its path or, if the artifact has no node for it (a file without chunks, an
\* import that does not resolve), under its node id.  Without semantic edges and
\* configuration files, which the artifact leaves out, and without private or
\* internal symbols, whose visibility it does not keep (explain.py explain_graph_*).
SameExplanation(index, graph, a, b) ==
    LET Shown(p) == PathById(graph, NodeIdForPath(p))
    IN  (a = ExplainError <=> b = ExplainError) /\
        (a # ExplainError => b = [a EXCEPT !.imports = {Shown(p) : p \in @},
                                   !.importedBy = {Shown(p) : p \in @}])

ExplanationsAgree(index, graph) ==
    LET comparable ==
            /\ \A e \in index.edges : e.kind = "imports"
            /\ \A p \in IndexedFiles(index) : ~ IsConfigPath(p)
            /\ \A c \in index.chunks : c.visibility \in {NONE, "public"}
    IN  comparable =>
        /\ \A p \in IndexedFiles(index) :
            SameExplanation(index, graph, ExplainFile(index, p), ExplainGraphFile(graph, p))
        /\ \A m \in {Dir(p) : p \in IndexedFiles(index)} :
            SameExplanation(index, graph, ExplainModule(index, m), ExplainGraphModule(graph, m))
        /\ \A t \in SymbolsOf(index.chunks) :
            SameExplanation(index, graph, ExplainSymbol(index, t), ExplainGraphSymbol(graph, t))

=============================================================================
