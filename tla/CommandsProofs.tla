--------------------------- MODULE CommandsProofs --------------------------
(***************************************************************************)
(* Theorems about commands that read an index, each of its own component:  *)
(* ArtifactExplains and RiskGrows of StructureCommands, for any parsed     *)
(* repository and any changes asked about, VectorsAreOfTheText of          *)
(* VectorLegs, for any files, texts and requests, and BudgetFollowsRequest *)
(* of ContextQuery, for any budgets and sizes of a repository.             *)
(***************************************************************************)
EXTENDS StructureCommands, ContextQuery, VectorLegs, TLAPS, FiniteSetTheorems

---------------------------------------------------------------------------
(* Explanations.                                                           *)

\* Without what an artifact leaves out.
Comparable(ix) ==
    /\ \A e \in ix.edges : e.kind = "imports"
    /\ \A p \in IndexedFiles(ix) : ~ IsConfigPath(p)
    /\ \A c \in ix.chunks : c.visibility \in {NONE, "public"}

\* The id of a file's node carries its path, and says no more of it than its type.
LEMMA FileIds ==
    ASSUME NEW p
    PROVE  /\ NodeIdForPath(p)[2] = p
           /\ NodeIdForPath(p)[1] \in {"config", "test", "file"}
           /\ ~ IsConfigPath(p) => NodeIdForPath(p)[1] \in {"test", "file"}
  BY DEF NodeIdForPath, FileNodeId

\* Different files have different nodes.
LEMMA FileIdsDiffer ==
    ASSUME NEW p, NEW q, NodeIdForPath(p) = NodeIdForPath(q)
    PROVE  p = q
  BY FileIds

\* A symbol's node id names its file, its name and its kind.
LEMMA SymbolIds ==
    ASSUME NEW c
    PROVE  /\ SymbolNodeId(c)[1] = "symbol" /\ SymbolNodeId(c)[2] = c.file
           /\ SymbolNodeId(c)[3] = c.symbol /\ SymbolNodeId(c)[4] = c.kind
  BY DEF SymbolNodeId

\* The nodes of an artifact by their type.
LEMMA NodesByType ==
    ASSUME NEW ix, NEW n \in BuildArchGraph(ix).nodes
    PROVE  \/ \E p \in IndexedFiles(ix) : n = GraphNode(NodeIdForPath(p), p, NONE, NONE)
           \/ n.type = "symbol" /\ \E c \in ix.chunks :
                 HasSymbol(c) /\ n = GraphNode(SymbolNodeId(c), c.symbol, c.kind, c.id)
           \/ n.type \in {"interface", "entry_point", "config"}
<1>1. n \in FileNodes(ix) \cup SymbolNodes(ix) \cup EntryNodes(ix) \cup ConfigNodes(ix)
  BY DEF BuildArchGraph
<1>2. CASE n \in FileNodes(ix)
  BY <1>2 DEF FileNodes
<1>3. CASE n \in SymbolNodes(ix)
  <2>1. CASE \E c \in ix.chunks : HasSymbol(c) /\ n = GraphNode(SymbolNodeId(c), c.symbol, c.kind, c.id)
    <3>1. PICK c \in ix.chunks : HasSymbol(c) /\ n = GraphNode(SymbolNodeId(c), c.symbol, c.kind, c.id)
      BY <2>1
    <3>2. n.type = "symbol"
      BY <3>1, SymbolIds DEF GraphNode
    <3> QED
      BY <2>1, <3>2
  <2>2. CASE \E c \in ix.chunks : n = GraphNode(InterfaceNodeId(c), c.symbol, c.kind, c.id)
    BY <2>2 DEF GraphNode, InterfaceNodeId
  <2> QED
    BY <1>3, <2>1, <2>2 DEF SymbolNodes
<1>4. CASE n \in EntryNodes(ix)
  <2>1. PICK c \in ix.chunks : n = GraphNode(<<"entry_point", c.file, c.symbol>>, c.symbol, c.kind, c.id)
    BY <1>4 DEF EntryNodes
  <2> QED
    BY <2>1 DEF GraphNode
<1>5. CASE n \in ConfigNodes(ix)
  <2>1. PICK p \in ix.configs : n = GraphNode(<<"config", p>>, p, NONE, NONE)
    BY <1>5 DEF ConfigNodes
  <2> QED
    BY <2>1 DEF GraphNode
<1> QED
  BY <1>1, <1>2, <1>3, <1>4, <1>5

\* An artifact has a source node for each indexed file and no other.
LEMMA SourceNodesAreFiles ==
    ASSUME NEW ix, Comparable(ix)
    PROVE  SourceNodes(BuildArchGraph(ix)) =
              {GraphNode(NodeIdForPath(p), p, NONE, NONE) : p \in IndexedFiles(ix)}
<1>1. \A p \in IndexedFiles(ix) :
         /\ GraphNode(NodeIdForPath(p), p, NONE, NONE) \in BuildArchGraph(ix).nodes
         /\ GraphNode(NodeIdForPath(p), p, NONE, NONE).type \in {"test", "file"}
  BY FileIds DEF Comparable, BuildArchGraph, FileNodes, GraphNode
<1>2. \A n \in SourceNodes(BuildArchGraph(ix)) :
         \E p \in IndexedFiles(ix) : n = GraphNode(NodeIdForPath(p), p, NONE, NONE)
  BY NodesByType DEF SourceNodes
<1> QED
  BY <1>1, <1>2 DEF SourceNodes

LEMMA FileNodeParts ==
    ASSUME NEW p
    PROVE  /\ GraphNode(NodeIdForPath(p), p, NONE, NONE).id = NodeIdForPath(p)
           /\ GraphNode(NodeIdForPath(p), p, NONE, NONE).path = p
  BY FileIds DEF GraphNode

\* Its import edges are those of the index, between the nodes of their files.
LEMMA ImportEdgesOfGraph ==
    ASSUME NEW ix, Comparable(ix)
    PROVE  {e \in BuildArchGraph(ix).edges : e.type = "imports"} =
              {GraphEdge(NodeIdForPath(e.source), NodeIdForPath(e.target), "imports", NONE) : e \in ix.edges}
<1>1. \A e \in SymbolEdges(ix) : e.type \in {"contains", "exposes"}
  BY DEF SymbolEdges, GraphEdge
<1>2. FileEdges(ix) = {GraphEdge(NodeIdForPath(e.source), NodeIdForPath(e.target), "imports", NONE) : e \in ix.edges}
  BY DEF FileEdges, Comparable
<1>3. \A e \in FileEdges(ix) : e.type = "imports"
  BY <1>2 DEF GraphEdge
<1>4. BuildArchGraph(ix).edges = FileEdges(ix) \cup SymbolEdges(ix)
  BY DEF BuildArchGraph
<1> QED
  BY <1>1, <1>2, <1>3, <1>4

\* What files import in the artifact is what they import in the index.
LEMMA ImportsOfFiles ==
    ASSUME NEW ix, Comparable(ix), NEW files, NEW ids,
           \A p : NodeIdForPath(p) \in ids <=> p \in files
    PROVE  /\ \A id : id \in GraphImports(BuildArchGraph(ix), ids) <=>
                 \E e \in ix.edges : e.source \in files /\ e.target \notin files /\ id = NodeIdForPath(e.target)
           /\ \A id : id \in GraphImportedBy(BuildArchGraph(ix), ids) <=>
                 \E e \in ix.edges : e.target \in files /\ e.source \notin files /\ id = NodeIdForPath(e.source)
<1> DEFINE Image(e) == GraphEdge(NodeIdForPath(e.source), NodeIdForPath(e.target), "imports", NONE)
           edges == {e \in BuildArchGraph(ix).edges : e.type = "imports"}
<1>1. edges = {Image(e) : e \in ix.edges}
  BY ImportEdgesOfGraph
<1>3. \A e : Image(e).source = NodeIdForPath(e.source) /\ Image(e).target = NodeIdForPath(e.target)
  BY DEF GraphEdge
<1> HIDE DEF Image
<1>4. GraphImports(BuildArchGraph(ix), ids) = {e.target : e \in {x \in edges : x.source \in ids /\ x.target \notin ids}}
  BY DEF GraphImports
<1>5. GraphImportedBy(BuildArchGraph(ix), ids) = {e.source : e \in {x \in edges : x.target \in ids /\ x.source \notin ids}}
  BY DEF GraphImportedBy
<1> HIDE DEF edges
<1>6. \A id : id \in GraphImports(BuildArchGraph(ix), ids) <=>
         \E e \in ix.edges : e.source \in files /\ e.target \notin files /\ id = NodeIdForPath(e.target)
  BY <1>1, <1>3, <1>4
<1>7. \A id : id \in GraphImportedBy(BuildArchGraph(ix), ids) <=>
         \E e \in ix.edges : e.target \in files /\ e.source \notin files /\ id = NodeIdForPath(e.source)
  BY <1>1, <1>3, <1>5
<1> QED
  BY <1>6, <1>7

LEMMA SymbolsOfFiles ==
    ASSUME NEW ix, NEW files
    PROVE  {n.id : n \in {x \in BuildArchGraph(ix).nodes : x.type = "symbol" /\ x.path \in files}} =
              SymbolsOf({c \in ix.chunks : c.file \in files})
<1> DEFINE Node(c) == GraphNode(SymbolNodeId(c), c.symbol, c.kind, c.id)
           nodes == BuildArchGraph(ix).nodes
<1>1. \A c : Node(c).id = SymbolNodeId(c) /\ Node(c).type = "symbol" /\ Node(c).path = c.file
  BY SymbolIds DEF GraphNode
<1>2. \A c \in ix.chunks : HasSymbol(c) => Node(c) \in nodes
  BY DEF BuildArchGraph, SymbolNodes
<1>3. \A p : GraphNode(NodeIdForPath(p), p, NONE, NONE).type # "symbol"
  BY FileIds DEF GraphNode
<1>4. \A n \in nodes : n.type = "symbol" => \E c \in ix.chunks : HasSymbol(c) /\ n = Node(c)
  BY <1>3, NodesByType
<1>5. SymbolsOf({c \in ix.chunks : c.file \in files}) =
         {SymbolNodeId(c) : c \in {x \in ix.chunks : HasSymbol(x) /\ x.file \in files}}
  BY DEF SymbolsOf
<1> HIDE DEF Node, nodes
<1>6. {n.id : n \in {x \in nodes : x.type = "symbol" /\ x.path \in files}} =
         {SymbolNodeId(c) : c \in {x \in ix.chunks : HasSymbol(x) /\ x.file \in files}}
  BY <1>1, <1>2, <1>4
<1> QED
  BY <1>5, <1>6 DEF nodes

\* Replacing the imports of an explanation leaves the rest.
LEMMA ImportsReplaced ==
    ASSUME NEW a, NEW x, NEW y, a = [k \in DOMAIN a |-> a[k]], {"imports", "importedBy"} \subseteq DOMAIN a
    PROVE  LET b == [a EXCEPT !.imports = x, !.importedBy = y]
           IN  /\ b = [k \in DOMAIN a |-> b[k]]
               /\ b.imports = x /\ b.importedBy = y
               /\ \A k \in DOMAIN a : k \notin {"imports", "importedBy"} => b[k] = a[k]
<1> DEFINE b == [a EXCEPT !.imports = x]
<1>1. DOMAIN b = DOMAIN a /\ b.imports = x /\ \A k \in DOMAIN a : k # "imports" => b[k] = a[k]
  OBVIOUS
<1>2. b = [k \in DOMAIN b |-> b[k]]
  OBVIOUS
<1>3. [a EXCEPT !.imports = x, !.importedBy = y] = [b EXCEPT !.importedBy = y]
  BY Zenon
<1> HIDE DEF b
<1> DEFINE c == [b EXCEPT !.importedBy = y]
<1>4. DOMAIN c = DOMAIN b /\ c.importedBy = y /\ \A k \in DOMAIN b : k # "importedBy" => c[k] = b[k]
  BY <1>1, <1>2
<1>5. c = [k \in DOMAIN c |-> c[k]]
  OBVIOUS
<1> HIDE DEF c
<1> QED
  BY <1>1, <1>3, <1>4, <1>5 DEF c

\* Replacing the symbols of an explanation leaves the rest.
LEMMA SymbolsReplaced ==
    ASSUME NEW a, NEW x, NEW y, a = [k \in DOMAIN a |-> a[k]], {"public", "internal"} \subseteq DOMAIN a
    PROVE  LET b == [a EXCEPT !.public = x, !.internal = y]
           IN  /\ b = [k \in DOMAIN a |-> b[k]]
               /\ b.public = x /\ b.internal = y
               /\ \A k \in DOMAIN a : k \notin {"public", "internal"} => b[k] = a[k]
<1> DEFINE b == [a EXCEPT !.public = x]
<1>1. DOMAIN b = DOMAIN a /\ b.public = x /\ \A k \in DOMAIN a : k # "public" => b[k] = a[k]
  OBVIOUS
<1>2. b = [k \in DOMAIN b |-> b[k]]
  OBVIOUS
<1>3. [a EXCEPT !.public = x, !.internal = y] = [b EXCEPT !.internal = y]
  BY Zenon
<1> HIDE DEF b
<1> DEFINE c == [b EXCEPT !.internal = y]
<1>4. DOMAIN c = DOMAIN b /\ c.internal = y /\ \A k \in DOMAIN b : k # "internal" => c[k] = b[k]
  BY <1>1, <1>2
<1>5. c = [k \in DOMAIN c |-> c[k]]
  OBVIOUS
<1> HIDE DEF c
<1> QED
  BY <1>1, <1>3, <1>4, <1>5 DEF c

\* What a set of files imports, by whom it is imported and what it defines.
LEMMA FilesExplained ==
    ASSUME NEW ix, Comparable(ix), NEW files, NEW ids,
           \A id : id \in ids <=> \E p \in files : id = NodeIdForPath(p),
           NEW moduleFiles
    PROVE  SameExplanation(ix, BuildArchGraph(ix), Explain(ix, files, moduleFiles),
                           ExplainGraph(BuildArchGraph(ix), files, ids, moduleFiles))
<1> DEFINE g == BuildArchGraph(ix)
           a == Explain(ix, files, moduleFiles)
           b == ExplainGraph(g, files, ids, moduleFiles)
           Shown(p) == PathById(g, NodeIdForPath(p))
           into == {e.target : e \in {x \in ix.edges : x.source \in files /\ x.target \notin files}}
           from == {e.source : e \in {x \in ix.edges : x.target \in files /\ x.source \notin files}}
           symbols == SymbolsOf({c \in ix.chunks : c.file \in files})
<1>1. a = Explained(files, into, from, symbols, moduleFiles)
  BY DEF Explain
<1> HIDE DEF into, from
<1>g. \A p : NodeIdForPath(p) \in ids <=> p \in files
  BY FileIdsDiffer
<1>h. /\ \A id : id \in GraphImports(g, ids) <=>
           \E e \in ix.edges : e.source \in files /\ e.target \notin files /\ id = NodeIdForPath(e.target)
      /\ \A id : id \in GraphImportedBy(g, ids) <=>
           \E e \in ix.edges : e.target \in files /\ e.source \notin files /\ id = NodeIdForPath(e.source)
  BY <1>g, ImportsOfFiles
<1>i. /\ \A id : id \in GraphImports(g, ids) <=> \E p \in into : id = NodeIdForPath(p)
      /\ \A id : id \in GraphImportedBy(g, ids) <=> \E p \in from : id = NodeIdForPath(p)
  BY <1>h DEF into, from
<1> HIDE DEF g, into, from
<1>2. {PathById(g, id) : id \in GraphImports(g, ids)} = {Shown(p) : p \in into}
  BY <1>i
<1>3. {PathById(g, id) : id \in GraphImportedBy(g, ids)} = {Shown(p) : p \in from}
  BY <1>i
<1>4. b = Explained(files, {Shown(p) : p \in into}, {Shown(p) : p \in from}, symbols, moduleFiles)
  <2>1. {n.id : n \in {x \in g.nodes : x.type = "symbol" /\ x.path \in files}} = symbols
    BY SymbolsOfFiles DEF g
  <2> QED
    BY <1>2, <1>3, <2>1 DEF ExplainGraph
<1> DEFINE shownInto == {Shown(p) : p \in into}
           shownFrom == {Shown(p) : p \in from}
<1> HIDE DEF symbols
<1>5. a # ExplainError /\ b # ExplainError
  <2>1. "files" \in DOMAIN a /\ "files" \in DOMAIN b /\ "files" \notin DOMAIN ExplainError
    BY <1>1, <1>4 DEF Explained, ExplainError
  <2> QED
    BY <2>1
<1>6. b = [a EXCEPT !.imports = {Shown(p) : p \in @}, !.importedBy = {Shown(p) : p \in @}]
  <2>1. a.imports = into /\ a.importedBy = from
    BY <1>1 DEF Explained
  <2>2. {Shown(p) : p \in a.imports} = shownInto /\ {Shown(p) : p \in a.importedBy} = shownFrom
    BY <2>1
  <2>3. b = Explained(files, shownInto, shownFrom, symbols, moduleFiles)
    BY <1>4
  <2> HIDE DEF shownInto, shownFrom
  <2> DEFINE c == [a EXCEPT !.imports = shownInto, !.importedBy = shownFrom]
  <2> DEFINE public == {s \in symbols : s[4] \in PublicKinds}
             internal == {s \in symbols : s[4] \notin PublicKinds}
  <2>r. /\ a = [files |-> files, imports |-> into, importedBy |-> from, public |-> public,
               internal |-> internal, moduleFiles |-> moduleFiles]
        /\ b = [files |-> files, imports |-> shownInto, importedBy |-> shownFrom, public |-> public,
               internal |-> internal, moduleFiles |-> moduleFiles]
    BY <1>1, <2>3 DEF Explained
  <2> HIDE DEF a, b, public, internal
  <2>4. /\ a = [k \in DOMAIN a |-> a[k]]
        /\ DOMAIN a = {"files", "imports", "importedBy", "public", "internal", "moduleFiles"}
        /\ b = [k \in DOMAIN a |-> b[k]]
        /\ b.imports = shownInto /\ b.importedBy = shownFrom
        /\ b.files = a.files /\ b.public = a.public /\ b.internal = a.internal /\ b.moduleFiles = a.moduleFiles
    BY <2>r
  <2>5. /\ c = [k \in DOMAIN a |-> c[k]]
        /\ c.imports = shownInto /\ c.importedBy = shownFrom
        /\ \A k \in DOMAIN a : k \notin {"imports", "importedBy"} => c[k] = a[k]
    BY <2>4, ImportsReplaced
  <2> HIDE DEF c
  <2>6. \A k \in DOMAIN a : b[k] = c[k]
    BY <2>4, <2>5
  <2>7. b = c
    BY <2>4, <2>5, <2>6
  <2> QED
    BY <2>2, <2>7, Zenon DEF c
<1> QED
  BY <1>5, <1>6 DEF g, SameExplanation

\* The files the artifact finds by path or by module are those of the index.
LEMMA SourcePaths ==
    ASSUME NEW ix, Comparable(ix)
    PROVE  /\ {n.path : n \in SourceNodes(BuildArchGraph(ix))} = IndexedFiles(ix)
           /\ \A p : LET found == {n \in SourceNodes(BuildArchGraph(ix)) : n.path = p}
                     IN  /\ found = {} <=> p \notin IndexedFiles(ix)
                         /\ p \in IndexedFiles(ix) => {n.id : n \in found} = {NodeIdForPath(q) : q \in {p}}
           /\ \A m : LET found == {n \in SourceNodes(BuildArchGraph(ix)) : PathMatchesModule(n.path, m)}
                         files == {p \in IndexedFiles(ix) : PathMatchesModule(p, m)}
                     IN  /\ {n.path : n \in found} = files
                         /\ {n.id : n \in found} = {NodeIdForPath(p) : p \in files}
<1> DEFINE Node(p) == GraphNode(NodeIdForPath(p), p, NONE, NONE)
           nodes == SourceNodes(BuildArchGraph(ix))
<1>1. nodes = {Node(p) : p \in IndexedFiles(ix)}
  BY SourceNodesAreFiles
<1>2. \A p : Node(p).id = NodeIdForPath(p) /\ Node(p).path = p
  BY FileNodeParts
<1> HIDE DEF Node, nodes
<1>3. {n.path : n \in nodes} = IndexedFiles(ix)
  BY <1>1, <1>2
<1>4. \A p : LET found == {n \in nodes : n.path = p}
             IN  /\ found = {} <=> p \notin IndexedFiles(ix)
                 /\ p \in IndexedFiles(ix) => {n.id : n \in found} = {NodeIdForPath(q) : q \in {p}}
  BY <1>1, <1>2
<1>5. \A m : LET found == {n \in nodes : PathMatchesModule(n.path, m)}
                 files == {p \in IndexedFiles(ix) : PathMatchesModule(p, m)}
             IN  /\ {n.path : n \in found} = files
                 /\ {n.id : n \in found} = {NodeIdForPath(p) : p \in files}
  BY <1>1, <1>2
<1> QED
  BY <1>3, <1>4, <1>5 DEF nodes

\* File by file, artifact and index explain the same.
LEMMA FilesAgree ==
    ASSUME NEW ix, Comparable(ix), NEW p
    PROVE  SameExplanation(ix, BuildArchGraph(ix), ExplainFile(ix, p), ExplainGraphFile(BuildArchGraph(ix), p))
<1> DEFINE g == BuildArchGraph(ix)
           found == {n \in SourceNodes(g) : n.path = p}
<1>1. CASE p \notin IndexedFiles(ix)
  BY <1>1, SourcePaths DEF ExplainFile, ExplainGraphFile, SameExplanation
<1>2. CASE p \in IndexedFiles(ix)
  <2>1. found # {} /\ {n.id : n \in found} = {NodeIdForPath(q) : q \in {p}}
    BY <1>2, SourcePaths
  <2>2. {n.path : n \in SourceNodes(g)} = IndexedFiles(ix)
    BY SourcePaths
  <2>3. ExplainGraphFile(g, p) =
          ExplainGraph(g, {p}, {n.id : n \in found}, ModuleFilesOf(IndexedFiles(ix), p))
    BY <2>1, <2>2 DEF ExplainGraphFile
  <2>4. ExplainFile(ix, p) = Explain(ix, {p}, ModuleFilesOf(IndexedFiles(ix), p))
    BY <1>2 DEF ExplainFile
  <2> QED
    BY <2>2, <2>1, <2>3, <2>4, FilesExplained
<1> QED
  BY <1>1, <1>2

\* Module by module.
LEMMA ModulesAgree ==
    ASSUME NEW ix, Comparable(ix), NEW m
    PROVE  SameExplanation(ix, BuildArchGraph(ix), ExplainModule(ix, m), ExplainGraphModule(BuildArchGraph(ix), m))
<1> DEFINE g == BuildArchGraph(ix)
           found == {n \in SourceNodes(g) : PathMatchesModule(n.path, m)}
           files == {p \in IndexedFiles(ix) : PathMatchesModule(p, m)}
<1>1. {n.path : n \in found} = files /\ {n.id : n \in found} = {NodeIdForPath(p) : p \in files}
  BY SourcePaths
<1>2. found = {} <=> files = {}
  BY <1>1
<1>3. CASE files = {}
  BY <1>2, <1>3 DEF ExplainModule, ExplainGraphModule, SameExplanation
<1>4. CASE files # {}
  <2>1. ExplainModule(ix, m) = Explain(ix, files, files)
    BY <1>4 DEF ExplainModule
  <2>2. ExplainGraphModule(g, m) = ExplainGraph(g, files, {n.id : n \in found}, files)
    BY <1>1, <1>2, <1>4 DEF ExplainGraphModule
  <2>3. \A id : id \in {n.id : n \in found} <=> \E p \in files : id = NodeIdForPath(p)
    BY <1>1
  <2> HIDE DEF found, files
  <2> QED
    BY <2>1, <2>2, <2>3, FilesExplained
<1> QED
  BY <1>3, <1>4

LEMMA ExplanationFields ==
    ASSUME NEW files, NEW imports, NEW importedBy, NEW symbols, NEW moduleFiles
    PROVE  LET a == Explained(files, imports, importedBy, symbols, moduleFiles)
           IN  /\ a = [k \in DOMAIN a |-> a[k]]
               /\ DOMAIN a = {"files", "imports", "importedBy", "public", "internal", "moduleFiles"}
  BY DEF Explained

WithImports(a, i, n) == [a EXCEPT !.imports = i, !.importedBy = n]

WithSymbols(a, p, q) == [a EXCEPT !.public = p, !.internal = q]

\* The fields of imports and those of symbols are replaced in either order.
LEMMA ReplacedInAnyOrder ==
    ASSUME NEW a, NEW i, NEW n, NEW p, NEW q, a = [k \in DOMAIN a |-> a[k]],
           DOMAIN a = {"files", "imports", "importedBy", "public", "internal", "moduleFiles"}
    PROVE  /\ WithSymbols(a, p, q).imports = a.imports
           /\ WithSymbols(a, p, q).importedBy = a.importedBy
           /\ "files" \in DOMAIN WithSymbols(a, p, q)
           /\ WithSymbols(WithImports(a, i, n), p, q) = WithImports(WithSymbols(a, p, q), i, n)
<1> DEFINE b == [a EXCEPT !.imports = i, !.importedBy = n]
           s == [a EXCEPT !.public = p, !.internal = q]
<1>1. /\ b = [k \in DOMAIN a |-> b[k]]
      /\ b.imports = i /\ b.importedBy = n
      /\ \A k \in DOMAIN a : k \notin {"imports", "importedBy"} => b[k] = a[k]
  BY ImportsReplaced
<1>2. /\ s = [k \in DOMAIN a |-> s[k]]
      /\ s.public = p /\ s.internal = q
      /\ \A k \in DOMAIN a : k \notin {"public", "internal"} => s[k] = a[k]
  BY SymbolsReplaced
<1> HIDE DEF b, s
<1> DEFINE c == [b EXCEPT !.public = p, !.internal = q]
           d == [s EXCEPT !.imports = i, !.importedBy = n]
<1>a. DOMAIN b = DOMAIN a /\ DOMAIN s = DOMAIN a
  BY <1>1, <1>2
<1>3. /\ c = [k \in DOMAIN b |-> c[k]]
      /\ c.public = p /\ c.internal = q
      /\ \A k \in DOMAIN b : k \notin {"public", "internal"} => c[k] = b[k]
  BY <1>1, <1>a, SymbolsReplaced
<1>4. /\ d = [k \in DOMAIN s |-> d[k]]
      /\ d.imports = i /\ d.importedBy = n
      /\ \A k \in DOMAIN s : k \notin {"imports", "importedBy"} => d[k] = s[k]
  BY <1>2, <1>a, ImportsReplaced
<1> HIDE DEF c, d
<1>5. \A k \in DOMAIN a : c[k] = d[k]
  BY <1>1, <1>2, <1>3, <1>4, <1>a
<1>6. c = d
  BY <1>3, <1>4, <1>5, <1>a
<1>7. s.imports = a.imports /\ s.importedBy = a.importedBy /\ "files" \in DOMAIN s
  BY <1>2, <1>a
<1> QED
  BY <1>6, <1>7, Zenon DEF b, s, c, d, WithImports, WithSymbols

\* Symbol by symbol.
LEMMA SymbolsAgree ==
    ASSUME NEW ix, Comparable(ix), NEW t \in SymbolsOf(ix.chunks)
    PROVE  SameExplanation(ix, BuildArchGraph(ix), ExplainSymbol(ix, t), ExplainGraphSymbol(BuildArchGraph(ix), t))
<1> DEFINE g == BuildArchGraph(ix)
           found == {c \in ix.chunks : HasSymbol(c) /\ SymbolNodeId(c) = t}
           one == CHOOSE c \in found : TRUE
           a == ExplainFile(ix, t[2])
           b == ExplainGraphFile(g, t[2])
           public == IF t[4] \in PublicKinds THEN {t} ELSE {}
           internal == IF t[4] \in PublicKinds THEN {} ELSE {t}
           Shown(p) == PathById(g, NodeIdForPath(p))
<1>1. found # {} /\ one \in found
  BY DEF SymbolsOf
<1>c. one \in ix.chunks /\ HasSymbol(one) /\ SymbolNodeId(one) = t
  BY <1>1
<1>2. IsPublicInterface(one) <=> t[4] \in PublicKinds
  BY <1>1, SymbolIds DEF IsPublicInterface, Comparable
<1>3. t[2] \in IndexedFiles(ix)
  BY <1>1, SymbolIds DEF IndexedFiles
<1>4. \E n \in g.nodes : n.id = t
  <2>1. GraphNode(SymbolNodeId(one), one.symbol, one.kind, one.id) \in g.nodes
    <3> HIDE DEF one
    <3> QED
      BY <1>c DEF BuildArchGraph, SymbolNodes
  <2>2. GraphNode(SymbolNodeId(one), one.symbol, one.kind, one.id).id = t
    BY <1>c DEF GraphNode
  <2> QED
    BY <2>1, <2>2
<1>5. /\ a = [k \in DOMAIN a |-> a[k]]
      /\ DOMAIN a = {"files", "imports", "importedBy", "public", "internal", "moduleFiles"}
  <2>1. \E files, imports, importedBy, symbols, moduleFiles :
           a = Explained(files, imports, importedBy, symbols, moduleFiles)
    BY <1>3, Zenon DEF ExplainFile, Explain
  <2>2. PICK files, imports, importedBy, symbols, moduleFiles :
           a = Explained(files, imports, importedBy, symbols, moduleFiles)
    BY <2>1
  <2> HIDE DEF a
  <2> QED
    BY <2>2, ExplanationFields
<1>6. SameExplanation(ix, g, a, b)
  BY FilesAgree
<1>7. a # ExplainError
  <2>1. "files" \in DOMAIN a /\ "files" \notin DOMAIN ExplainError
    BY <1>5 DEF ExplainError
  <2> QED
    BY <2>1
<1>8. ExplainSymbol(ix, t) = [a EXCEPT !.public = public, !.internal = internal]
  BY <1>1, <1>2, Zenon DEF ExplainSymbol
<1> HIDE DEF g, found, one, a, b, public, internal, Shown
<1>9. b # ExplainError /\ b = [a EXCEPT !.imports = {Shown(p) : p \in @}, !.importedBy = {Shown(p) : p \in @}]
  BY <1>6, <1>7, Zenon DEF SameExplanation, Shown
<1>10. ExplainGraphSymbol(g, t) = [b EXCEPT !.public = public, !.internal = internal]
  BY <1>4, <1>9, Zenon DEF ExplainGraphSymbol, b, public, internal
<1> DEFINE i == {Shown(p) : p \in a.imports}
           n == {Shown(p) : p \in a.importedBy}
           s == [a EXCEPT !.public = public, !.internal = internal]
<1>11. b = [a EXCEPT !.imports = i, !.importedBy = n]
  BY <1>9, Zenon
<1>12. /\ s.imports = a.imports /\ s.importedBy = a.importedBy /\ "files" \in DOMAIN s
       /\ [[a EXCEPT !.imports = i, !.importedBy = n] EXCEPT !.public = public, !.internal = internal] =
             [s EXCEPT !.imports = i, !.importedBy = n]
  <2> HIDE DEF i, n
  <2> QED
    <3>1. /\ WithSymbols(a, public, internal).imports = a.imports
          /\ WithSymbols(a, public, internal).importedBy = a.importedBy
          /\ "files" \in DOMAIN WithSymbols(a, public, internal)
          /\ WithSymbols(WithImports(a, i, n), public, internal) = WithImports(WithSymbols(a, public, internal), i, n)
      BY <1>5, ReplacedInAnyOrder
    <3> QED
      BY <3>1, Zenon DEF WithImports, WithSymbols
<1> DEFINE d == [s EXCEPT !.imports = i, !.importedBy = n]
<1>13. ExplainGraphSymbol(g, t) = d
  BY <1>10, <1>11, <1>12, Zenon
<1>14. s # ExplainError /\ d # ExplainError
  <2>1. DOMAIN d = DOMAIN s /\ "files" \notin DOMAIN ExplainError
    BY DEF ExplainError
  <2> HIDE DEF d, s
  <2> QED
    BY <1>12, <2>1
<1>15. d = [s EXCEPT !.imports = {Shown(p) : p \in @}, !.importedBy = {Shown(p) : p \in @}]
  BY <1>12, Zenon
<1> QED
  BY <1>8, <1>13, <1>14, <1>15, Zenon DEF SameExplanation, Shown, g

---------------------------------------------------------------------------
(* Impact.                                                                 *)

\* An index whose rows are counted.
Countable(ix) == IsFiniteSet(ix.chunks) /\ IsFiniteSet(ix.edges)

\* A larger change reaches more files.
LEMMA MoreIsAffected ==
    ASSUME NEW ix, NEW changes, NEW smaller \in SUBSET changes
    PROVE  AnalyzeImpact(ix, smaller).files \subseteq AnalyzeImpact(ix, changes).files
<1>1. ChangedPaths(smaller) \subseteq ChangedPaths(changes)
  BY DEF ChangedPaths
<1> QED
  BY <1>1 DEF AnalyzeImpact, AffectedFiles

\* What a function makes of a finite set is finite.
LEMMA ImageIsFinite ==
    ASSUME NEW S, IsFiniteSet(S), NEW T, NEW f \in [S -> T], \A y \in T : \E x \in S : f[x] = y
    PROVE  IsFiniteSet(T)
<1>1. f \in Surjection(S, T)
  BY DEF Surjection
<1> QED
  BY <1>1, FS_Surjection

\* What is counted for a risk is finite.
LEMMA FinitelyAffected ==
    ASSUME NEW ix, Countable(ix), NEW changed
    PROVE  /\ IsFiniteSet({e.source : e \in {x \in ix.edges : x.target \in changed}})
           /\ IsFiniteSet(ModulesOf(AffectedFiles(ix, changed \cap IndexedFiles(ix))))
<1> DEFINE known == changed \cap IndexedFiles(ix)
           into(S) == {e.source : e \in {x \in ix.edges : x.target \in S}}
           from(S) == {e.target : e \in {x \in ix.edges : x.source \in S}}
<1>1. IsFiniteSet(IndexedFiles(ix))
  <2> DEFINE file == [c \in ix.chunks |-> c.file]
  <2>1. file \in [ix.chunks -> IndexedFiles(ix)] /\ \A p \in IndexedFiles(ix) : \E c \in ix.chunks : file[c] = p
    BY DEF IndexedFiles
  <2> HIDE DEF file
  <2> QED
    BY <2>1, ImageIsFinite DEF Countable
<1>2. IsFiniteSet(known)
  BY <1>1, FS_Subset
<1>3. \A S : IsFiniteSet({x \in ix.edges : x.target \in S}) /\ IsFiniteSet({x \in ix.edges : x.source \in S})
  BY FS_Subset DEF Countable
<1>4. \A S : IsFiniteSet(into(S)) /\ IsFiniteSet(from(S))
  <2> TAKE S
  <2>1. IsFiniteSet(into(S))
    <3> DEFINE edges == {x \in ix.edges : x.target \in S}
               source == [e \in edges |-> e.source]
    <3>1. source \in [edges -> into(S)] /\ \A p \in into(S) : \E e \in edges : source[e] = p
      OBVIOUS
    <3> HIDE DEF source, into
    <3> QED
      BY <1>3, <3>1, ImageIsFinite
  <2>2. IsFiniteSet(from(S))
    <3> DEFINE edges == {x \in ix.edges : x.source \in S}
               target == [e \in edges |-> e.target]
    <3>1. target \in [edges -> from(S)] /\ \A p \in from(S) : \E e \in edges : target[e] = p
      OBVIOUS
    <3> HIDE DEF target, from
    <3> QED
      BY <1>3, <3>1, ImageIsFinite
  <2> QED
    BY <2>1, <2>2
<1> HIDE DEF into, from
<1>5. IsFiniteSet(AffectedFiles(ix, known))
  BY <1>2, <1>4, FS_Union DEF AffectedFiles, into, from
<1>6. IsFiniteSet({Dir(p) : p \in AffectedFiles(ix, known)})
  <2> DEFINE files == AffectedFiles(ix, known)
             dirs == {Dir(p) : p \in files}
             dir == [p \in files |-> Dir(p)]
  <2>1. dir \in [files -> dirs] /\ \A d \in dirs : \E p \in files : dir[p] = d
    OBVIOUS
  <2> HIDE DEF dir, files
  <2>2. IsFiniteSet(files)
    BY <1>5 DEF files
  <2>3. IsFiniteSet(dirs)
    BY <2>1, <2>2, ImageIsFinite
  <2> QED
    BY <2>3 DEF files
<1>7. IsFiniteSet(ModulesOf(AffectedFiles(ix, known)))
  BY <1>6, FS_Subset DEF ModulesOf
<1> QED
  BY <1>4, <1>7 DEF into

\* Each reason of a smaller change is one of the larger.
LEMMA MoreReasons ==
    ASSUME NEW ix, Countable(ix), NEW changes, NEW smaller \in SUBSET changes
    PROVE  AnalyzeImpact(ix, smaller).reasons \subseteq AnalyzeImpact(ix, changes).reasons
<1> DEFINE less == ChangedPaths(smaller)
           more == ChangedPaths(changes)
           few  == AffectedFiles(ix, less \cap IndexedFiles(ix))
           many == AffectedFiles(ix, more \cap IndexedFiles(ix))
<1>1. less \subseteq more
  BY DEF ChangedPaths
<1>2. few \subseteq many
  BY <1>1 DEF AffectedFiles
<1>3. AnalyzeImpact(ix, smaller).reasons = RiskReasons(ix, less, few)
  BY DEF AnalyzeImpact
<1>4. AnalyzeImpact(ix, changes).reasons = RiskReasons(ix, more, many)
  BY DEF AnalyzeImpact
<1>5. Cardinality(ModulesOf(few)) > 1 => Cardinality(ModulesOf(many)) > 1
  <2>1. IsFiniteSet(ModulesOf(many)) /\ IsFiniteSet(ModulesOf(few))
    BY FinitelyAffected
  <2>2. ModulesOf(few) \subseteq ModulesOf(many)
    BY <1>2 DEF ModulesOf
  <2>3. Cardinality(ModulesOf(few)) <= Cardinality(ModulesOf(many))
    BY <2>1, <2>2, FS_Subset
  <2>4. Cardinality(ModulesOf(few)) \in Nat /\ Cardinality(ModulesOf(many)) \in Nat
    BY <2>1, FS_CardinalityType
  <2> QED
    BY <2>3, <2>4
<1>6. FanIn(ix, less) >= HighFanIn => FanIn(ix, more) >= HighFanIn
  <2> DEFINE into(S) == {e.source : e \in {x \in ix.edges : x.target \in S}}
  <2>1. IsFiniteSet(into(less)) /\ IsFiniteSet(into(more))
    BY FinitelyAffected
  <2>2. into(less) \subseteq into(more)
    BY <1>1
  <2>3. Cardinality(into(less)) <= Cardinality(into(more))
    BY <2>1, <2>2, FS_Subset
  <2>4. Cardinality(into(less)) \in Nat /\ Cardinality(into(more)) \in Nat /\ HighFanIn \in Nat
    BY <2>1, FS_CardinalityType, ImpactAssumption
  <2>5. FanIn(ix, less) = Cardinality(into(less)) /\ FanIn(ix, more) = Cardinality(into(more))
    BY DEF FanIn
  <2> QED
    BY <2>3, <2>4, <2>5
<1> HIDE DEF less, more, few, many
<1>7. RiskReasons(ix, less, few) \subseteq RiskReasons(ix, more, many)
  <2> SUFFICES ASSUME NEW r \in RiskReasons(ix, less, few) PROVE r \in RiskReasons(ix, more, many)
    OBVIOUS
  <2>1. CASE r = "cross_module_impact"
    BY <1>5, <2>1 DEF RiskReasons
  <2>2. CASE r = "high_fan_in"
    BY <1>6, <2>2 DEF RiskReasons
  <2>3. CASE r = "public_interface_changed"
    BY <1>2, <2>3 DEF RiskReasons
  <2>4. CASE r = "unmapped_file"
    BY <1>1, <2>4 DEF RiskReasons
  <2>5. CASE r \in {"config_changed", "test_surface_changed"}
    BY <1>1, <2>5 DEF RiskReasons
  <2>6. CASE r = "large_file_changed"
    BY <1>2, <2>6 DEF RiskReasons
  <2> QED
    BY <2>1, <2>2, <2>3, <2>4, <2>5, <2>6 DEF RiskReasons
<1> QED
  BY <1>3, <1>4, <1>7

\* More reasons never make a lower risk.
LEMMA MoreRisk ==
    ASSUME NEW few, NEW many, few \subseteq many
    PROVE  LevelRank(RiskLevel(few)) <= LevelRank(RiskLevel(many))
<1>1. /\ LevelRank("low") = 1 /\ LevelRank("moderate") = 2 /\ LevelRank("high") = 3
  BY DEF LevelRank, Levels
<1>2. \A S : RiskLevel(S) \in {"low", "moderate", "high"}
  BY DEF RiskLevel
<1>3. RiskLevel(few) = "high" => RiskLevel(many) = "high"
  BY DEF RiskLevel
<1>4. RiskLevel(few) = "moderate" => RiskLevel(many) # "low"
  BY DEF RiskLevel
<1> QED
  BY <1>1, <1>2, <1>3, <1>4

\* The report of a larger change.
LEMMA ImpactOfMore ==
    ASSUME NEW ix, Countable(ix), NEW changes, NEW smaller \in SUBSET changes
    PROVE  LET less == AnalyzeImpact(ix, smaller)
               more == AnalyzeImpact(ix, changes)
           IN  /\ less.files \subseteq more.files
               /\ less.interfaces \subseteq more.interfaces
               /\ LevelRank(less.level) <= LevelRank(more.level)
<1> DEFINE less == AnalyzeImpact(ix, smaller)
           more == AnalyzeImpact(ix, changes)
<1>1. \A c : /\ AnalyzeImpact(ix, c).level = RiskLevel(AnalyzeImpact(ix, c).reasons)
            /\ AnalyzeImpact(ix, c).interfaces =
                  {x \in ix.chunks : x.file \in AnalyzeImpact(ix, c).files /\ IsPublicInterface(x)}
  BY DEF AnalyzeImpact
<1>2. less.files \subseteq more.files
  BY MoreIsAffected
<1>3. less.reasons \subseteq more.reasons
  BY MoreReasons
<1> HIDE DEF less, more
<1>4. LevelRank(less.level) <= LevelRank(more.level)
  BY <1>1, <1>3, MoreRisk DEF less, more
<1>5. less.interfaces \subseteq more.interfaces
  <2>1. /\ less.interfaces = {x \in ix.chunks : x.file \in less.files /\ IsPublicInterface(x)}
        /\ more.interfaces = {x \in ix.chunks : x.file \in more.files /\ IsPublicInterface(x)}
    BY <1>1 DEF less, more
  <2> QED
    BY <1>2, <2>1
<1> QED
  BY <1>2, <1>4, <1>5 DEF less, more

\* A symbol that a hunk touches is of a file that was changed and is indexed.
LEMMA TouchedAreReached ==
    ASSUME NEW ix, NEW changes, NEW hunks, NEW s \in AffectedSymbols(ix, changes, hunks)
    PROVE  \E c \in ix.chunks : c.id = s[1] /\ c.file \in AnalyzeImpact(ix, changes).files
<1>1. PICK c \in TouchedSymbols(ix, changes, hunks) : s = <<c.id, ClassifyFileRisk(ix, c.file)>>
  BY DEF AffectedSymbols
<1>2. c \in ix.chunks /\ c.file \in ChangedPaths(changes) /\ c.file \in IndexedFiles(ix)
  BY DEF TouchedSymbols, ChangedPaths, IndexedFiles
<1>3. c.file \in AnalyzeImpact(ix, changes).files
  BY <1>2 DEF AnalyzeImpact, AffectedFiles
<1> QED
  BY <1>1, <1>2, <1>3

---------------------------------------------------------------------------
(* The commands.                                                           *)

\* The report of a change is of the index, and so is an artifact.
Reported ==
    search.op = "impact" =>
        \E changes \in Changes :
            /\ search.step = "done" /\ search.changes = changes
            /\ search.report = AnalyzeImpact(index, changes)
            /\ \E hunks : search.symbols = AffectedSymbols(index, changes, hunks)

StructureInv ==
    /\ Countable(index)
    /\ graph # NoGraph => graph = BuildArchGraph(index)
    /\ "op" \in DOMAIN search
    /\ Reported

LEMMA StructureStart == StructureInit => StructureInv
<1> SUFFICES ASSUME StructureInit PROVE StructureInv
  OBVIOUS
<1>1. PICK tree \in Trees : index = Indexed(tree)
  BY DEF StructureInit
<1>2. index.chunks = tree.chunks
  BY <1>1 DEF Indexed
<1>3. Countable(index)
  BY <1>1, <1>2, TreesAssumption DEF Countable
<1> QED
  BY <1>3 DEF StructureInit, StructureInv, Reported, NoSearch

\* A turn of a search's loop stays a search.
LEMMA SearchStays ==
    ASSUME "op" \in DOMAIN search, Reported, NeighborsStep \/ PathStep \/ SearchEnds
    PROVE  search'.op = search.op /\ "op" \in DOMAIN search' /\ search.op # "impact"
<1>1. CASE NeighborsStep
  BY <1>1 DEF NeighborsStep
<1>2. CASE PathStep
  BY <1>2 DEF PathStep
<1>3. CASE SearchEnds
  BY <1>3 DEF SearchEnds, Reported
<1> QED
  BY <1>1, <1>2, <1>3

LEMMA StructureStep == StructureInv /\ [StructureNext]_structureVars => StructureInv'
<1> SUFFICES ASSUME StructureInv, [StructureNext]_structureVars PROVE StructureInv'
  OBVIOUS
<1>1. CASE ExportGraph
  BY <1>1 DEF ExportGraph, StructureInv, Reported, NoSearch
<1>2. ASSUME NEW q \in Queries, Ask(q), UNCHANGED index
      PROVE  StructureInv'
  <2>1. search'.op \in {"path", "neighbors"} /\ "op" \in DOMAIN search'
    BY <1>2 DEF Ask, StartPath, StartNeighbors
  <2> QED
    BY <1>2, <2>1 DEF Ask, StructureInv, Reported
<1>3. ASSUME NeighborsStep \/ PathStep \/ SearchEnds, UNCHANGED index
      PROVE  StructureInv'
  <2>1. search'.op # "impact" /\ "op" \in DOMAIN search'
    BY <1>3, SearchStays DEF StructureInv
  <2>2. UNCHANGED graph
    BY <1>3 DEF NeighborsStep, PathStep, SearchEnds
  <2> QED
    BY <1>3, <2>1, <2>2 DEF StructureInv, Reported
<1>4. ASSUME NEW changes \in Changes, AssessImpact(changes)
      PROVE  StructureInv'
  <2>1. /\ search'.op = "impact" /\ search'.step = "done" /\ search'.changes = changes
        /\ search'.report = AnalyzeImpact(index, changes)
        /\ search'.symbols = AffectedSymbols(index, changes, [p \in ChangedPaths(changes) |-> {<<1, 5>>}])
        /\ "op" \in DOMAIN search'
    BY <1>4 DEF AssessImpact
  <2> QED
    BY <1>4, <2>1 DEF AssessImpact, StructureInv, Reported
<1>5. CASE UNCHANGED structureVars
  BY <1>5 DEF structureVars, StructureInv, Reported
<1> QED
  BY <1>1, <1>2, <1>3, <1>4, <1>5 DEF StructureNext, QueryGraph, QueryNext

\* Whatever repository was indexed, the exported artifact explains each file,
\* module and symbol as the index it came from does (graph_artifact.py
\* build_arch_graph_from_store, explain.py explain_graph_file,
\* explain_graph_module, explain_graph_symbol).
THEOREM ArtifactsExplain == StructureSpec => []ArtifactExplains
<1>1. StructureInv => ArtifactExplains
  BY FilesAgree, ModulesAgree, SymbolsAgree DEF StructureInv, ArtifactExplains, ExplanationsAgree, Comparable
<1> QED
  BY <1>1, StructureStart, StructureStep, PTL DEF StructureSpec

\* Of any two changes asked about, the one that includes the other reaches at
\* least as much and is rated at least as high, and the symbols of a diff are of
\* files its report reaches (impact.py analyze_impact, analyze_diff_impact).
THEOREM LargerChangesRiskMore == StructureSpec => []RiskGrows
<1>1. StructureInv => RiskGrows
  <2> SUFFICES ASSUME StructureInv, search.op = "impact" PROVE RiskGrows
    BY DEF RiskGrows
  <2>1. PICK changes \in Changes :
            /\ search.changes = changes
            /\ search.report = AnalyzeImpact(index, changes)
            /\ \E hunks : search.symbols = AffectedSymbols(index, changes, hunks)
    BY DEF StructureInv, Reported
  <2> QED
    BY <2>1, ImpactOfMore, TouchedAreReached DEF StructureInv, RiskGrows
<1> QED
  BY <1>1, StructureStart, StructureStep, PTL DEF StructureSpec

---------------------------------------------------------------------------
(* Vectors.  Whatever requests update the index, with vectors or without,  *)
(* of whatever mode, and whichever embedder each of them names: a file     *)
(* that was written since the chunks last changed is of those chunks.      *)

\* What there has been to index.
Indexables == Worktrees \cup {<<>>}

\* A vector file as a build from nothing writes it.
Built(chunks, config) == Sidecar(BuildVectors(chunks, config, <<>>), chunks, config)

\* Whoever wrote a file, each of its vectors is that of the text beside it.
Sound(mode) ==
    sidecars[mode] # NONE =>
        \E chunks \in Indexables, c \in IndexConfigs : c.mode = mode /\ sidecars[mode] = Built(chunks, c)

\* It is of the chunks of the database.
OfTheDatabase(mode) ==
    sidecars[mode] # NONE => \E c \in IndexConfigs : c.mode = mode /\ sidecars[mode] = Built(database.chunks, c)

UnderWay == [step : {"asked", "embed", "search"}, config : IndexConfigs, refresh : BOOLEAN]

LookupOK ==
    /\ lookup.step # "answered" => lookup \in UnderWay
    /\ lookup.step \in {"embed", "search"} => Chunked

DatabaseOK ==
    Chunked =>
        /\ database.chunks \in Indexables
        /\ database = [chunks |-> database.chunks, splade |-> database.splade, quantized |-> database.quantized]

\* The files are of the chunks, but for those that were left out.
VectorsInv ==
    /\ worktree \in Indexables
    /\ DatabaseOK
    /\ sidecars = [m \in VectorModes |-> sidecars[m]]
    /\ LookupOK
    /\ \A m \in VectorModes : Sound(m)
    /\ \A m \in VectorModes \ overdue : OfTheDatabase(m)
    /\ VectorsAreOfTheText

---------------------------------------------------------------------------
(* What a build returns.                                                   *)

LEMMA EligibleChunks ==
    ASSUME NEW chunks
    PROVE  /\ DOMAIN EmbeddingEligible(chunks) = DOMAIN chunks \cap Embeddable
           /\ \A p \in DOMAIN chunks \cap Embeddable : EmbeddingEligible(chunks)[p] = chunks[p]
BY DEF EmbeddingEligible, Restrict

\* A build from nothing, chunk by chunk.
LEMMA FreshBuild ==
    ASSUME NEW chunks, NEW config
    PROVE  BuildVectors(chunks, config, <<>>) =
               [p \in DOMAIN chunks \cap Embeddable |->
                    Vector(Embedded(config.mode, chunks[p]), config.embedder)]
<1> DEFINE texts == Texts(chunks, config.mode)
<1>1. texts = [p \in DOMAIN chunks \cap Embeddable |-> Embedded(config.mode, chunks[p])]
  BY EligibleChunks DEF Texts
<1>2. DOMAIN texts = DOMAIN chunks \cap Embeddable
      /\ \A p \in DOMAIN texts : texts[p] = Embedded(config.mode, chunks[p])
  BY <1>1
<1>3. \A p \in DOMAIN texts : texts[p] \notin DOMAIN <<>>
  OBVIOUS
<1>4. BuildVectors(chunks, config, <<>>) = [p \in DOMAIN texts |-> Vector(texts[p], config.embedder)]
  BY <1>3 DEF BuildVectors
<1> QED
  BY <1>2, <1>4

\* Vectors kept from an earlier build are those a build from nothing would make.
LEMMA CachedBuild ==
    ASSUME NEW chunks, NEW config, NEW cached,
           \A t \in DOMAIN cached : cached[t] = Vector(t, config.embedder)
    PROVE  BuildVectors(chunks, config, cached) = BuildVectors(chunks, config, <<>>)
<1> DEFINE texts == Texts(chunks, config.mode)
<1>1. texts = [p \in DOMAIN chunks \cap Embeddable |-> Embedded(config.mode, chunks[p])]
  BY EligibleChunks DEF Texts
<1>2. DOMAIN texts = DOMAIN chunks \cap Embeddable
      /\ \A p \in DOMAIN texts : texts[p] = Embedded(config.mode, chunks[p])
  BY <1>1
<1>3. BuildVectors(chunks, config, cached) = [p \in DOMAIN texts |-> Vector(texts[p], config.embedder)]
  BY DEF BuildVectors
<1> QED
  BY <1>2, <1>3, FreshBuild

LEMMA BuiltFields ==
    ASSUME NEW chunks, NEW config
    PROVE  /\ Built(chunks, config).vectors = BuildVectors(chunks, config, <<>>)
           /\ Built(chunks, config).hashes = Texts(chunks, config.mode)
           /\ Built(chunks, config).embedder = config.embedder
BY DEF Built, Sidecar

\* What is taken over from a sound file are vectors of its texts.
LEMMA SoundCache ==
    ASSUME NEW chunks, NEW c, NEW config, c.mode = config.mode,
           NEW file, file # NONE => file = Built(chunks, c)
    PROVE  \A t \in DOMAIN CachedVectors(file, config) :
               CachedVectors(file, config)[t] = Vector(t, config.embedder)
<1>1. CASE ~ Loads(file, config) \/ file.quantized
  <2>1. CachedVectors(file, config) = <<>>
    BY <1>1 DEF CachedVectors
  <2> QED
    BY <2>1
<1>2. CASE Loads(file, config) /\ ~ file.quantized
  <2>1. file = Built(chunks, c) /\ c.embedder = config.embedder
    BY <1>2, BuiltFields DEF Loads
  <2> DEFINE texts == file.hashes
  <2>2. /\ Texts(chunks, c.mode) = [p \in DOMAIN chunks \cap Embeddable |-> Embedded(c.mode, chunks[p])]
        /\ BuildVectors(chunks, c, <<>>) = [p \in DOMAIN chunks \cap Embeddable |->
                                                Vector(Embedded(c.mode, chunks[p]), c.embedder)]
    <3>1. Texts(chunks, c.mode) = [p \in DOMAIN chunks \cap Embeddable |-> Embedded(c.mode, chunks[p])]
      BY EligibleChunks DEF Texts
    <3> QED
      BY <3>1, FreshBuild, ZenonT(60)
  <2>3. texts = [p \in DOMAIN chunks \cap Embeddable |-> Embedded(c.mode, chunks[p])]
    BY <2>1, <2>2, BuiltFields
  <2>4. file.vectors = [p \in DOMAIN chunks \cap Embeddable |->
                            Vector(Embedded(c.mode, chunks[p]), config.embedder)]
    BY <2>1, <2>2, BuiltFields
  <2>5. ASSUME NEW p \in DOMAIN texts
        PROVE  file.vectors[p] = Vector(texts[p], config.embedder)
    BY <2>3, <2>4
  <2>6. CachedVectors(file, config) =
            [t \in Range(texts) |-> file.vectors[CHOOSE p \in DOMAIN texts : texts[p] = t]]
    BY <1>2 DEF CachedVectors
  <2>7. ASSUME NEW t \in Range(texts)
        PROVE  file.vectors[CHOOSE p \in DOMAIN texts : texts[p] = t] = Vector(t, config.embedder)
    <3> DEFINE q == CHOOSE p \in DOMAIN texts : texts[p] = t
    <3>1. q \in DOMAIN texts /\ texts[q] = t
      BY DEF Range
    <3> QED
      BY <2>5, <3>1
  <2> QED
    BY <2>6, <2>7
<1> QED
  BY <1>1, <1>2

---------------------------------------------------------------------------
(* What writes the files.                                                  *)

\* SaveVectors leaves a file of the chunks it was given, for the mode of the
\* request, and every other as it was.
LEMMA SavedVectors ==
    ASSUME VectorsInv, NEW config \in IndexConfigs, NEW chunks, NEW cached,
           \A t \in DOMAIN cached : cached[t] = Vector(t, config.embedder),
           SaveVectors(chunks, config, cached)
    PROVE  /\ sidecars' = [m \in VectorModes |-> sidecars'[m]]
           /\ \A m \in VectorModes :
                IF m = config.mode THEN sidecars'[m] # NONE => sidecars'[m] = Built(chunks, config)
                ELSE sidecars'[m] = sidecars[m]
<1> DEFINE file == IF EmbeddingEligible(chunks) = <<>> THEN NONE
                   ELSE Sidecar(BuildVectors(chunks, config, cached), chunks, config)
<1>1. sidecars' = [sidecars EXCEPT ![config.mode] = file]
  BY DEF SaveVectors
<1>2. file # NONE => file = Built(chunks, config)
  BY CachedBuild DEF Built
<1>3. sidecars = [m \in VectorModes |-> sidecars[m]]
  BY DEF VectorsInv
<1> HIDE DEF file
<1>4. DOMAIN sidecars = VectorModes
  BY <1>3
<1>5. sidecars' = [m \in VectorModes |-> IF m = config.mode THEN file ELSE sidecars[m]]
  BY <1>1, <1>4
<1> QED
  BY <1>2, <1>5

---------------------------------------------------------------------------
(* What a search compares.                                                 *)

LEMMA FoundVectors ==
    ASSUME VectorsInv, NEW config \in IndexConfigs, Chunked, lookup.step = "search",
           NEW bm25 \in SUBSET DOMAIN database.chunks
    PROVE  /\ ~ Persisted(config) => IsRestriction(VectorLeg(config, bm25), Current(config))
           /\ Persisted(config) /\ config.mode \notin overdue => VectorLeg(config, bm25) = Current(config)
<1> DEFINE chunks == database.chunks
           current == BuildVectors(chunks, config, <<>>)
<1>1. current = [p \in DOMAIN chunks \cap Embeddable |->
                    Vector(Embedded(config.mode, chunks[p]), config.embedder)]
  BY FreshBuild
<1> USE DEF Current
<1>2. CASE Persisted(config) /\ config.mode \notin overdue
  <2>1. config.mode \in VectorModes /\ sidecars[config.mode] # NONE
        /\ sidecars[config.mode].embedder = config.embedder
    BY <1>2 DEF Persisted, Loads, VectorModes
  <2>2. PICK c \in IndexConfigs : c.mode = config.mode /\ sidecars[config.mode] = Built(chunks, c)
    BY <1>2, <2>1 DEF VectorsInv, OfTheDatabase
  <2>3. c.embedder = config.embedder /\ sidecars[config.mode].vectors = BuildVectors(chunks, c, <<>>)
    BY <2>1, <2>2, BuiltFields
  <2>4. BuildVectors(chunks, c, <<>>) = [p \in DOMAIN chunks \cap Embeddable |->
                                            Vector(Embedded(c.mode, chunks[p]), c.embedder)]
    BY FreshBuild
  <2> HIDE DEF current
  <2>5. sidecars[config.mode].vectors = current
    BY <1>1, <2>2, <2>3, <2>4
  <2>6. FileVectors(config) = Restrict(current, DOMAIN current \cap DOMAIN chunks)
    BY <2>5 DEF FileVectors
  <2>7. DOMAIN current \cap DOMAIN chunks = DOMAIN current /\ current = [p \in DOMAIN current |-> current[p]]
    BY <1>1
  <2>8. FileVectors(config) = current
    BY <2>6, <2>7 DEF Restrict
  <2>9. VectorLeg(config, bm25) = current
    BY <1>2, <2>8 DEF VectorLeg
  <2> QED
    BY <1>2, <2>9 DEF current
<1>3. CASE ~ Persisted(config) /\ Embeds(config)
  <2> DEFINE hits == IF bm25 = {} THEN DOMAIN chunks ELSE bm25
             near == Restrict(chunks, hits)
  <2>1. VectorLeg(config, bm25) = BuildVectors(near, config, <<>>)
    BY <1>3 DEF VectorLeg, CandidateVectors
  <2>2. hits \subseteq DOMAIN chunks
    OBVIOUS
  <2>3. near = [p \in hits |-> chunks[p]]
    BY DEF Restrict
  <2> HIDE DEF hits, near
  <2>4. BuildVectors(near, config, <<>>) =
            [p \in DOMAIN near \cap Embeddable |-> Vector(Embedded(config.mode, near[p]), config.embedder)]
    BY FreshBuild
  <2>5. DOMAIN near = hits /\ \A p \in hits : near[p] = chunks[p]
    BY <2>3
  <2> HIDE DEF current
  <2>6. DOMAIN VectorLeg(config, bm25) \subseteq DOMAIN current
    BY <1>1, <2>1, <2>2, <2>4, <2>5
  <2>7. ASSUME NEW p \in DOMAIN VectorLeg(config, bm25)
        PROVE  VectorLeg(config, bm25)[p] = current[p]
    BY <1>1, <2>1, <2>2, <2>4, <2>5
  <2> QED
    BY <1>3, <2>6, <2>7 DEF IsRestriction, current
<1>4. CASE ~ Persisted(config) /\ ~ Embeds(config)
  <2>1. VectorLeg(config, bm25) = <<>>
    BY <1>4 DEF VectorLeg
  <2> QED
    BY <1>4, <2>1 DEF IsRestriction
<1> QED
  BY <1>2, <1>3, <1>4

---------------------------------------------------------------------------
(* The steps.                                                              *)

LEMMA VectorsStart == VectorsIdle => VectorsInv
<1> SUFFICES ASSUME VectorsIdle PROVE VectorsInv
  OBVIOUS
<1>1. worktree = <<>> /\ database = NoDatabase /\ lookup = [step |-> "answered"]
      /\ sidecars = [m \in VectorModes |-> NONE]
  BY DEF VectorsIdle
<1>2. ~ Chunked /\ LookupOK /\ ~ Searched
  BY <1>1 DEF Chunked, LookupOK, Searched
<1> QED
  BY <1>1, <1>2 DEF VectorsInv, Indexables, DatabaseOK, Sound, OfTheDatabase, VectorsAreOfTheText

\* A step that writes neither the index nor a file, and no answer.
LEMMA NothingWritten ==
    ASSUME VectorsInv, worktree' \in Indexables, UNCHANGED <<database, sidecars, overdue>>, LookupOK',
           VectorsAreOfTheText'
    PROVE  VectorsInv'
BY DEF VectorsInv, DatabaseOK, Chunked, Sound, OfTheDatabase

LEMMA AsksLegs ==
    ASSUME VectorsInv, NEW config \in IndexConfigs, NEW refresh \in BOOLEAN, AskLegs(config, refresh)
    PROVE  VectorsInv'
<1>1. lookup' = [step |-> "asked", config |-> config, refresh |-> refresh]
      /\ lookup.step = "answered" /\ UNCHANGED <<worktree, database, sidecars, overdue>>
  BY DEF AskLegs
<1>2. lookup' \in UnderWay /\ lookup'.step = "asked"
  BY <1>1 DEF UnderWay
<1>3. LookupOK' /\ VectorsAreOfTheText' /\ worktree' \in Indexables
  BY <1>1, <1>2 DEF LookupOK, VectorsAreOfTheText, Searched, VectorsInv
<1> QED
  BY <1>1, <1>2, <1>3, NothingWritten

LEMMA EditsWorktree ==
    ASSUME VectorsInv, NEW t \in Worktrees, EditWorktree(t)
    PROVE  VectorsInv'
<1>1. worktree' = t /\ lookup.step = "answered" /\ UNCHANGED <<database, sidecars, lookup, overdue>>
  BY DEF EditWorktree
<1>2. LookupOK' /\ worktree' \in Indexables
  BY <1>1 DEF LookupOK, VectorsInv, Chunked, Indexables
<1>3. VectorsAreOfTheText'
  BY <1>1 DEF VectorsInv, VectorsAreOfTheText, Searched, Current
<1> QED
  BY <1>1, <1>2, <1>3, NothingWritten

\* What Continue leaves of the request.
LEMMA Continued ==
    ASSUME VectorsInv, lookup.step # "answered", NEW step \in {"embed", "search"}, Continue(step)
    PROVE  /\ lookup' \in UnderWay
           /\ lookup'.step = step /\ lookup'.config = lookup.config /\ lookup.config \in IndexConfigs
BY DEF Continue, VectorsInv, LookupOK, UnderWay

LEMMA UsesIndex ==
    ASSUME VectorsInv, UseIndex
    PROVE  VectorsInv'
<1>1. lookup.step = "asked" /\ Chunked /\ Continue("search") /\ UNCHANGED <<worktree, database, sidecars, overdue>>
  BY DEF UseIndex
<1>2. LookupOK' /\ VectorsAreOfTheText' /\ worktree' \in Indexables
  BY <1>1, Continued DEF LookupOK, VectorsAreOfTheText, Searched, VectorsInv, Chunked
<1> QED
  BY <1>1, <1>2, NothingWritten

LEMMA BuildsAll ==
    ASSUME VectorsInv, lookup.step = "asked", NEW quantized, BuildAll(quantized)
    PROVE  VectorsInv'
<1> DEFINE config == lookup.config
<1>1. config \in IndexConfigs /\ lookup' \in UnderWay /\ lookup'.step = "search"
  BY Continued DEF BuildAll
<1>2. IF Embeds(config) THEN SaveVectors(worktree, config, <<>>) ELSE UNCHANGED sidecars
  BY DEF BuildAll
<1>3. /\ database' = [chunks |-> worktree, splade |-> SpladeRows(config), quantized |-> quantized]
      /\ overdue' = (IF database.chunks = worktree THEN overdue ELSE VectorModes) \ WrittenBy(config)
      /\ worktree' = worktree
  BY DEF BuildAll
<1>4. database'.chunks = worktree /\ worktree \in Indexables
  BY <1>3 DEF VectorsInv
<1>5. LookupOK' /\ DatabaseOK' /\ VectorsAreOfTheText'
  BY <1>1, <1>3, <1>4 DEF LookupOK, DatabaseOK, Chunked, NoDatabase, VectorsAreOfTheText, Searched
<1> HIDE DEF config
<1>6. /\ sidecars' = [m \in VectorModes |-> sidecars'[m]]
      /\ \A m \in VectorModes :
            IF m \in WrittenBy(config) THEN sidecars'[m] # NONE => sidecars'[m] = Built(worktree, config)
            ELSE sidecars'[m] = sidecars[m]
  <2>1. CASE Embeds(config)
    <3>1. \A t \in DOMAIN <<>> : <<>>[t] = Vector(t, config.embedder)
      OBVIOUS
    <3> QED
      BY <1>1, <1>2, <2>1, <3>1, SavedVectors DEF WrittenBy
  <2>2. CASE ~ Embeds(config)
    BY <1>2, <2>2 DEF WrittenBy, VectorsInv
  <2> QED
    BY <2>1, <2>2
<1>7. \A m \in VectorModes : m \in WrittenBy(config) => m = config.mode
  BY DEF WrittenBy
<1>8. \A m \in VectorModes : Sound(m)'
  BY <1>1, <1>4, <1>6, <1>7 DEF Sound, VectorsInv
<1>9. ASSUME NEW m \in VectorModes \ overdue' PROVE OfTheDatabase(m)'
  <2>1. CASE m \in WrittenBy(config)
    BY <1>1, <1>4, <1>6, <1>7, <2>1 DEF OfTheDatabase
  <2>2. CASE m \notin WrittenBy(config)
    <3>1. database.chunks = worktree /\ m \notin overdue
      BY <1>3, <2>2
    <3> QED
      BY <1>4, <1>6, <2>2, <3>1 DEF OfTheDatabase, VectorsInv
  <2> QED
    BY <2>1, <2>2
<1> QED
  BY <1>3, <1>4, <1>5, <1>6, <1>8, <1>9 DEF VectorsInv

LEMMA AppliesDelta ==
    ASSUME VectorsInv, ApplyDelta
    PROVE  VectorsInv'
<1>1. lookup.step = "asked" /\ Chunked /\ database' = [database EXCEPT !.chunks = worktree]
      /\ overdue' = VectorModes /\ UNCHANGED <<worktree, sidecars>>
  BY DEF ApplyDelta
<1>2. PICK step \in {"embed", "search"} : Continue(step)
  BY DEF ApplyDelta
<1>3. lookup' \in UnderWay /\ lookup'.step \in {"embed", "search"}
  BY <1>1, <1>2, Continued
<1>4. VectorsAreOfTheText'
  BY <1>3 DEF VectorsAreOfTheText, Searched
<1>5. database' = [chunks |-> worktree, splade |-> database.splade, quantized |-> database.quantized]
  <2>1. database = [chunks |-> database.chunks, splade |-> database.splade, quantized |-> database.quantized]
    BY <1>1 DEF VectorsInv, DatabaseOK
  <2> QED
    BY <1>1, <2>1
<1>6. DatabaseOK' /\ LookupOK' /\ worktree' \in Indexables
  BY <1>1, <1>3, <1>5 DEF VectorsInv, DatabaseOK, LookupOK, Chunked, NoDatabase
<1> QED
  BY <1>1, <1>4, <1>6 DEF VectorsInv, Sound

LEMMA EmbedsDelta ==
    ASSUME VectorsInv, EmbedDelta
    PROVE  VectorsInv'
<1> DEFINE config == lookup.config
           cached == CachedVectors(sidecars[config.mode], config)
<1>1. lookup.step = "embed" /\ Continue("search") /\ UNCHANGED <<worktree, database>>
      /\ SaveVectors(database.chunks, config, cached) /\ overdue' = overdue \ WrittenBy(config)
  BY DEF EmbedDelta
<1>2. config \in IndexConfigs /\ config.mode \in VectorModes
  BY <1>1 DEF VectorsInv, LookupOK, UnderWay, VectorModes
<1>3. \A t \in DOMAIN cached : cached[t] = Vector(t, config.embedder)
  <2>1. CASE sidecars[config.mode] = NONE
    <3>1. cached = <<>>
      BY <2>1 DEF CachedVectors, Loads
    <3> QED
      BY <3>1
  <2>2. CASE sidecars[config.mode] # NONE
    <3>1. PICK chunks \in Indexables, c \in IndexConfigs :
              c.mode = config.mode /\ sidecars[config.mode] = Built(chunks, c)
      BY <1>2, <2>2 DEF VectorsInv, Sound
    <3> HIDE DEF config
    <3> QED
      BY <3>1, SoundCache
  <2> QED
    BY <2>1, <2>2
<1>4. Chunked /\ database.chunks \in Indexables
  BY <1>1 DEF VectorsInv, LookupOK, DatabaseOK
<1>5. lookup' \in UnderWay /\ lookup'.step = "search"
  BY <1>1, Continued
<1> HIDE DEF config, cached
<1>6. /\ sidecars' = [m \in VectorModes |-> sidecars'[m]]
      /\ \A m \in VectorModes :
            IF m = config.mode THEN sidecars'[m] # NONE => sidecars'[m] = Built(database.chunks, config)
            ELSE sidecars'[m] = sidecars[m]
  BY <1>1, <1>2, <1>3, SavedVectors
<1>7. /\ \A m \in VectorModes : Sound(m)'
      /\ \A m \in VectorModes \ overdue' : OfTheDatabase(m)'
  <2>1. \A m \in VectorModes : Sound(m)'
    BY <1>2, <1>4, <1>6 DEF Sound, VectorsInv
  <2>2. ASSUME NEW m \in VectorModes \ overdue' PROVE OfTheDatabase(m)'
    <3>1. m # config.mode => m \notin overdue
      BY <1>1 DEF WrittenBy
    <3> QED
      BY <1>1, <1>2, <1>6, <3>1 DEF OfTheDatabase, VectorsInv
  <2> QED
    BY <2>1, <2>2
<1>8. DatabaseOK' /\ LookupOK' /\ VectorsAreOfTheText' /\ worktree' \in Indexables
  BY <1>1, <1>4, <1>5 DEF VectorsInv, DatabaseOK, LookupOK, Chunked, VectorsAreOfTheText, Searched
<1> QED
  BY <1>6, <1>7, <1>8 DEF VectorsInv

LEMMA SearchesLegs ==
    ASSUME VectorsInv, NEW bm25 \in SUBSET DOMAIN database.chunks, SearchLegs(bm25)
    PROVE  VectorsInv'
<1> DEFINE config == lookup.config
<1>1. lookup.step = "search" /\ UNCHANGED <<worktree, database, sidecars, overdue>>
      /\ lookup' = [step |-> "answered", config |-> config, refresh |-> lookup.refresh,
                    persisted |-> Persisted(config),
                    vectors |-> VectorLeg(config, bm25), splade |-> SpladeLeg(config)]
  BY DEF SearchLegs
<1>2. config \in IndexConfigs /\ Chunked
  BY <1>1 DEF VectorsInv, LookupOK, UnderWay
<1>3. lookup'.step = "answered" /\ lookup'.config = config
      /\ lookup'.vectors = VectorLeg(config, bm25) /\ lookup'.persisted = Persisted(config)
  BY <1>1
<1> HIDE DEF config
<1>4. VectorsAreOfTheText'
  BY <1>1, <1>2, <1>3, FoundVectors DEF VectorsAreOfTheText, Current
<1>5. LookupOK' /\ worktree' \in Indexables
  BY <1>1, <1>3 DEF LookupOK, VectorsInv
<1> QED
  BY <1>1, <1>4, <1>5, NothingWritten

LEMMA VectorsStep == VectorsInv /\ [VectorsNext]_vectorVars => VectorsInv'
<1> SUFFICES ASSUME VectorsInv, [VectorsNext]_vectorVars
             PROVE  VectorsInv'
  OBVIOUS
<1>1. CASE \E config \in IndexConfigs, refresh \in BOOLEAN : AskLegs(config, refresh)
  BY <1>1, AsksLegs
<1>2. CASE \E t \in Worktrees : EditWorktree(t)
  BY <1>2, EditsWorktree
<1>3. CASE UseIndex
  BY <1>3, UsesIndex
<1>4. CASE FullIndex \/ BuildForQuery
  BY <1>4, BuildsAll DEF FullIndex, BuildForQuery
<1>5. CASE ApplyDelta
  BY <1>5, AppliesDelta
<1>6. CASE EmbedDelta
  BY <1>6, EmbedsDelta
<1>7. CASE lookup.step = "search" /\ \E bm25 \in SUBSET DOMAIN database.chunks : SearchLegs(bm25)
  BY <1>7, SearchesLegs
<1>8. CASE UNCHANGED vectorVars
  <2>1. UNCHANGED <<worktree, database, sidecars, lookup, overdue>>
    BY <1>8 DEF vectorVars
  <2>2. LookupOK' /\ VectorsAreOfTheText' /\ worktree' \in Indexables
    BY <2>1 DEF VectorsInv, LookupOK, Chunked, VectorsAreOfTheText, Searched, Current
  <2> QED
    BY <2>1, <2>2, NothingWritten
<1> QED
  BY <1>1, <1>2, <1>3, <1>4, <1>5, <1>6, <1>7, <1>8 DEF VectorsNext

\* For any requests, with vectors or without, of any modes and embedders: one is
\* answered with vectors of the text its chunks have, by its own embedder, unless
\* it uses a file whose mode was left out when the chunks last changed, and any
\* other file that is used holds one for every chunk that can be embedded (api.py
\* _try_delta_index, vector.py VectorIndex.load).
THEOREM VectorsFollowTheText == VectorsSpec => []VectorsAreOfTheText
<1>1. VectorsIdle => VectorsInv
  BY VectorsStart
<1>2. VectorsInv /\ [VectorsNext]_vectorVars => VectorsInv'
  BY VectorsStep
<1>3. VectorsInv => VectorsAreOfTheText
  BY DEF VectorsInv
<1> QED
  BY <1>1, <1>2, <1>3, PTL DEF VectorsSpec

---------------------------------------------------------------------------
(* Budgets.                                                                *)

\* The ramp, in whole numbers.
Ramp(t, b) == (t * 2 * b - (t - b) * (t - b)) \div (2 * b)

\* A quotient is the greatest number that goes into the dividend.
LEMMA Quotient ==
    ASSUME NEW n \in Int, NEW d \in Nat, d > 0
    PROVE  /\ n \div d \in Int
           /\ d * (n \div d) <= n
           /\ \A q \in Int : d * q <= n => q <= n \div d
<1>1. /\ n \div d \in Int /\ n % d \in 0 .. d - 1
      /\ n = d * (n \div d) + (n % d)
  OBVIOUS
<1>2. ASSUME NEW q \in Int, d * q <= n
      PROVE  q <= n \div d
  <2>1. SUFFICES ASSUME q >= (n \div d) + 1 PROVE FALSE
    BY <1>1
  <2>2. d * q >= d * ((n \div d) + 1)
    BY <1>1, <2>1
  <2>3. d * ((n \div d) + 1) = d * (n \div d) + d
    BY <1>1
  <2> QED
    BY <1>1, <1>2, <2>2, <2>3
<1> QED
  BY <1>1, <1>2

\* The ramp lies between the budget and everything, and never above half as much again.
LEMMA RampBounds ==
    ASSUME NEW t \in Nat, NEW b \in Nat, 0 < b, b < t, t < 3 * b
    PROVE  /\ Ramp(t, b) \in Nat
           /\ b <= Ramp(t, b) /\ Ramp(t, b) <= t
           /\ 2 * Ramp(t, b) <= 3 * b
<1> DEFINE n == t * 2 * b - (t - b) * (t - b)
           d == 2 * b
           q == n \div d
<1>1. n \in Int /\ d \in Nat /\ d > 0 /\ q = Ramp(t, b)
  BY DEF Ramp
<1>2. q \in Int /\ d * q <= n /\ \A x \in Int : d * x <= n => x <= q
  <2> HIDE DEF n, d
  <2> QED
    BY <1>1, Quotient
<1>3. n - d * b = (t - b) * (3 * b - t)
  OBVIOUS
<1>4. (t - b) * (3 * b - t) >= 0
  OBVIOUS
<1>5. b <= q
  <2>1. d * b <= n
    BY <1>1, <1>3, <1>4
  <2> QED
    BY <1>2, <2>1
<1>6. d * t - n = (t - b) * (t - b)
  OBVIOUS
<1>7. (t - b) * (t - b) >= 0 /\ (t - 2 * b) * (t - 2 * b) >= 0
  OBVIOUS
<1>8. q <= t
  <2>1. d * q <= d * t
    BY <1>1, <1>2, <1>6, <1>7
  <2> HIDE DEF n, q
  <2>2. SUFFICES ASSUME q >= t + 1 PROVE FALSE
    BY <1>2
  <2>3. d * q >= d * (t + 1) /\ d * (t + 1) = d * t + d
    BY <1>2, <2>2
  <2> QED
    BY <1>1, <2>1, <2>3, <1>2
<1>9. 2 * n = 3 * b * d - 2 * ((t - 2 * b) * (t - 2 * b))
  OBVIOUS
<1>10. 2 * q <= 3 * b
  <2>1. 2 * (d * q) <= 3 * b * d
    BY <1>1, <1>2, <1>7, <1>9
  <2> HIDE DEF n, q
  <2>2. SUFFICES ASSUME 2 * q >= 3 * b + 1 PROVE FALSE
    BY <1>2
  <2>3. d * (2 * q) >= d * (3 * b + 1) /\ d * (3 * b + 1) = 3 * b * d + d /\ d * (2 * q) = 2 * (d * q)
    BY <1>2, <2>2
  <2> QED
    BY <1>1, <2>1, <2>3, <1>2
<1> QED
  <2> HIDE DEF n, q
  <2> QED
    BY <1>1, <1>2, <1>5, <1>8, <1>10

\* A larger budget is not ramped to a smaller one.
LEMMA RampGrows ==
    ASSUME NEW t \in Nat, NEW b \in Nat, NEW c \in Nat, 0 < b, b <= c, c < t, t < 3 * b
    PROVE  Ramp(t, b) <= Ramp(t, c)
<1> DEFINE q == Ramp(t, b)
           w == 2 * t - q
<1>1. q \in Nat /\ w \in Nat /\ q <= t
  <2>1. q \in Nat /\ q <= t
    BY RampBounds
  <2> HIDE DEF q
  <2> QED
    BY <2>1
<1>2. 2 * b * q <= t * 2 * b - (t - b) * (t - b)
  BY Quotient DEF Ramp
<1> HIDE DEF q
<1>3. 2 * b * w >= t * t + b * b
  <2>1. 2 * b * w = 4 * t * b - 2 * b * q
    BY <1>1
  <2>2. t * 2 * b - (t - b) * (t - b) = 4 * t * b - t * t - b * b
    OBVIOUS
  <2> QED
    BY <1>1, <1>2, <2>1, <2>2
<1> HIDE DEF w
<1>4. c * (2 * b * w) >= c * (t * t + b * b)
  BY <1>1, <1>3
<1>5. c * (t * t + b * b) - b * (t * t + c * c) = (c - b) * (t * t - b * c)
  OBVIOUS
<1>6. (c - b) * (t * t - b * c) >= 0
  <2>1. b * c <= t * c /\ t * c <= t * t
    OBVIOUS
  <2>2. t * t - b * c >= 0
    BY <2>1
  <2> QED
    BY <2>2
<1>7. b * (2 * c * w) >= b * (t * t + c * c)
  BY <1>1, <1>4, <1>5, <1>6
<1>8. 2 * c * w >= t * t + c * c
  <2> DEFINE x == 2 * c * w
             y == t * t + c * c
  <2>1. x \in Int /\ y \in Int /\ b * x >= b * y
    BY <1>1, <1>7
  <2> HIDE DEF x, y
  <2>2. SUFFICES ASSUME x + 1 <= y PROVE FALSE
    BY <2>1 DEF x, y
  <2>3. b * (x + 1) <= b * y /\ b * (x + 1) = b * x + b
    BY <2>1, <2>2
  <2> QED
    BY <2>1, <2>3
<1>9. 2 * c * q <= t * 2 * c - (t - c) * (t - c)
  <2>1. 2 * c * w = 4 * t * c - 2 * c * q
    BY <1>1 DEF w
  <2>2. t * 2 * c - (t - c) * (t - c) = 4 * t * c - t * t - c * c
    OBVIOUS
  <2> QED
    BY <1>1, <1>8, <2>1, <2>2
<1> QED
  <2>1. t * 2 * c - (t - c) * (t - c) \in Int /\ 2 * c \in Nat /\ 2 * c > 0
    OBVIOUS
  <2>2. q <= (t * 2 * c - (t - c) * (t - c)) \div (2 * c)
    BY <1>1, <1>9, <2>1, Quotient
  <2> QED
    BY <2>2 DEF Ramp, q

\* The smaller of two numbers.
LEMMA MinOfTwo ==
    ASSUME NEW a \in Nat, NEW b \in Nat
    PROVE  Min({a, b}) = IF a <= b THEN a ELSE b
  BY DEF Min

\* The budget before the ramp.
LEMMA DynamicBudgetIs ==
    ASSUME NEW t \in Nat, NEW b \in Nat, NEW intent, intent = NONE \/ intent \in Nat
    PROVE  \E a \in Nat :
              /\ a = IF intent = NONE THEN b ELSE IF b <= intent THEN b ELSE intent
              /\ DynamicBudget(t, b, intent) =
                    IF t <= a THEN t ELSE IF t >= 3 * a THEN a ELSE Ramp(t, a)
<1>1. CASE intent = NONE
  BY <1>1 DEF DynamicBudget, Ramp
<1>2. CASE intent # NONE
  BY <1>2, MinOfTwo DEF DynamicBudget, Ramp
<1> QED
  BY <1>1, <1>2

\* The budget is a number that exceeds the one asked for by half at most, and no
\* larger request gets less.
LEMMA BudgetIsFair ==
    ASSUME NEW t \in Nat, NEW b \in Nat, NEW c \in Nat, b <= c, NEW intent, intent = NONE \/ intent \in Nat
    PROVE  /\ DynamicBudget(t, b, intent) \in Nat
           /\ 2 * DynamicBudget(t, b, intent) <= 3 * b
           /\ DynamicBudget(t, b, intent) <= DynamicBudget(t, c, intent)
<1> DEFINE Plain(a) == IF t <= a THEN t ELSE IF t >= 3 * a THEN a ELSE Ramp(t, a)
<1>1. PICK x \in Nat : /\ x = IF intent = NONE THEN b ELSE IF b <= intent THEN b ELSE intent
                       /\ DynamicBudget(t, b, intent) = Plain(x)
  BY DynamicBudgetIs
<1>2. PICK y \in Nat : /\ y = IF intent = NONE THEN c ELSE IF c <= intent THEN c ELSE intent
                       /\ DynamicBudget(t, c, intent) = Plain(y)
  BY DynamicBudgetIs
<1>3. x <= b /\ x <= y
  <2> HIDE DEF Plain
  <2>1. CASE intent = NONE
    BY <1>1, <1>2, <2>1
  <2>2. CASE intent # NONE /\ intent \in Nat
    BY <1>1, <1>2, <2>2
  <2> QED
    BY <2>1, <2>2
<1>4. ASSUME NEW a \in Nat
      PROVE  Plain(a) \in Nat /\ 2 * Plain(a) <= 3 * a
  <2>1. CASE t <= a \/ t >= 3 * a
    BY <2>1
  <2>2. CASE a < t /\ t < 3 * a
    <3>1. Plain(a) = Ramp(t, a) /\ 0 < a
      BY <2>2
    <3> QED
      BY <2>2, <3>1, RampBounds
  <2> QED
    BY <2>1, <2>2
<1>5. Plain(x) <= Plain(y)
  <2>1. CASE t <= y
    <3>1. CASE t <= x \/ t >= 3 * x
      BY <1>3, <2>1, <3>1
    <3>2. CASE x < t /\ t < 3 * x
      <4>1. 0 < x /\ Plain(x) = Ramp(t, x) /\ Plain(y) = t
        BY <2>1, <3>2
      <4> QED
        BY <3>2, <4>1, RampBounds
    <3> QED
      BY <3>1, <3>2
  <2>2. CASE y < t /\ t >= 3 * x
    <3>1. CASE t >= 3 * y
      BY <1>3, <2>2, <3>1
    <3>2. CASE t < 3 * y
      <4>1. 0 < y /\ Plain(y) = Ramp(t, y) /\ Plain(x) <= x
        BY <1>3, <2>2, <3>2
      <4> QED
        BY <1>3, <1>4, <2>2, <3>2, <4>1, RampBounds
    <3> QED
      BY <3>1, <3>2
  <2>3. CASE y < t /\ t < 3 * x
    <3>1. 0 < x /\ x < t /\ t < 3 * y /\ Plain(x) = Ramp(t, x) /\ Plain(y) = Ramp(t, y)
      BY <1>3, <2>3
    <3> QED
      BY <1>3, <2>3, <3>1, RampGrows
  <2> QED
    BY <2>1, <2>2, <2>3
<1>6. 2 * Plain(x) <= 3 * b
  <2> HIDE DEF Plain
  <2> QED
    BY <1>3, <1>4
<1> QED
  BY <1>1, <1>2, <1>4, <1>5, <1>6

\* The budget of a request that is routed.
RoutedAs(a) ==
    /\ {"step", "tree", "request", "route"} \subseteq DOMAIN a
    /\ "chunks" \in DOMAIN a.tree
    /\ a.request \in Requests /\ a.route.budget \in Nat /\ TreeTokens(a.tree) \in Nat

\* What an answer was packed for.
PackedFor(a) ==
    /\ {"bundle", "receipt"} \subseteq DOMAIN a /\ "requested" \in DOMAIN a.receipt
    /\ a.receipt.requested = IF a.request.handles # <<>> THEN a.route.budget ELSE EffectiveBudget(a)

BudgetInv ==
    /\ ask.step \in {"idle", "routed", "retrieved", "answered", "returned"}
    /\ ask.step # "idle" => RoutedAs(ask)
    /\ ask.step = "retrieved" => ask.request.handles = <<>>
    /\ Answered => PackedFor(ask)

\* Nothing is asked at first.
LEMMA BudgetInvInit == ContextInit => BudgetInv
  BY DEF ContextInit, Unasked, BudgetInv, Answered

\* A route has a budget.
LEMMA RoutedBudget ==
    ASSUME NEW r \in Requests
    PROVE  Route(r).budget \in Nat
  BY ContextAssumption DEF Route

\* A request is routed with a budget and a tree of known size.
LEMMA AskKeeps ==
    ASSUME NEW tree \in ContextTrees, NEW r \in Requests, AskContext(tree, r)
    PROVE  BudgetInv'
<1>1. ask' = [step |-> "routed", tree |-> tree, request |-> r, route |-> Route(r)]
  BY DEF AskContext
<1>2. TreeTokens(tree) \in Nat /\ "chunks" \in DOMAIN tree
  BY ContextAssumption
<1>3. RoutedAs(ask')
  BY <1>1, <1>2, RoutedBudget DEF RoutedAs
<1>4. ask'.step = "routed"
  BY <1>1
<1> QED
  BY <1>3, <1>4 DEF BudgetInv, Answered

\* A receipt is of the budget of its bundle.
LEMMA ReceiptBudget ==
    ASSUME NEW bundle, NEW freshness, NEW omitted, NEW skipped
    PROVE  /\ BuildReceipt(bundle, freshness, omitted, skipped).requested = bundle.budget
           /\ "requested" \in DOMAIN BuildReceipt(bundle, freshness, omitted, skipped)
  BY DEF BuildReceipt

\* Also one that is made again.
LEMMA RefreshedBudget ==
    ASSUME NEW receipt, NEW bundle, NEW freshness, NEW unparsed
    PROVE  /\ RefreshReceipt(receipt, bundle, freshness, unparsed).requested = bundle.budget
           /\ "requested" \in DOMAIN RefreshReceipt(receipt, bundle, freshness, unparsed)
  BY ReceiptBudget DEF RefreshReceipt

\* Whatever is answered, if its bundle has the budget of the request.
LEMMA AnswerKeeps ==
    ASSUME NEW bundle, NEW kept, NEW reach, NEW omitted, NEW skipped, NEW freshness, NEW unparsed,
           BudgetInv, ask.step # "idle",
           bundle.budget = IF ask.request.handles # <<>> THEN ask.route.budget ELSE EffectiveBudget(ask),
           Answer(bundle, kept, reach, omitted, skipped, freshness, unparsed)
    PROVE  BudgetInv'
<1> DEFINE receipt == RefreshReceipt(BuildReceipt(bundle, "unknown", omitted, skipped), bundle, freshness, unparsed)
<1>1. ask' = [step |-> "answered", tree |-> ask.tree, request |-> ask.request, route |-> ask.route,
              bundle |-> bundle, kept |-> kept, reach |-> reach, found |-> skipped, receipt |-> receipt]
  BY DEF Answer
<1>2. receipt.requested = bundle.budget /\ "requested" \in DOMAIN receipt
  BY RefreshedBudget
<1> HIDE DEF receipt
<1>3. /\ ask'.step = "answered" /\ ask'.tree = ask.tree /\ ask'.request = ask.request
      /\ ask'.route = ask.route /\ ask'.receipt = receipt
      /\ {"step", "tree", "request", "route", "bundle", "receipt"} \subseteq DOMAIN ask'
  BY <1>1
<1>4. RoutedAs(ask')
  BY <1>3 DEF BudgetInv, RoutedAs
<1>5. EffectiveBudget(ask') = EffectiveBudget(ask)
  BY <1>3 DEF EffectiveBudget, BudgetFor
<1>6. PackedFor(ask')
  BY <1>2, <1>3, <1>5 DEF PackedFor
<1> QED
  BY <1>3, <1>4, <1>6 DEF BudgetInv, Answered

\* Exact handles are packed to the budget of the route.
LEMMA FetchKeeps ==
    ASSUME NEW unparsed, BudgetInv, FetchHandles(unparsed)
    PROVE  BudgetInv'
<1> DEFINE chunks == ChunksForHandles(ask.tree, ask.request.handles)
           included == FitHandleChunks(chunks, ask.route.budget)
           bundle == [included |-> included, budget |-> ask.route.budget,
                      truncated |-> \/ Len(included) < Len(chunks)
                                    \/ Tokens(included) > ask.route.budget]
<1>1. /\ ask.step = "routed" /\ ask.request.handles # <<>>
      /\ Answer(bundle, AllHits(chunks), Nowhere, {},
                SkippedCandidates(AllHits(chunks), included, ask.route.budget), "clean", unparsed)
  BY DEF FetchHandles
<1>2. bundle.budget = ask.route.budget
  OBVIOUS
<1> HIDE DEF bundle, included, chunks
<1> QED
  BY <1>1, <1>2, AnswerKeeps

\* The other routes to the effective one: the whole tree,
LEMMA PassThroughKeeps ==
    ASSUME NEW unparsed, BudgetInv, PassThrough(unparsed)
    PROVE  BudgetInv'
<1> DEFINE all == AllHits(ask.tree.chunks)
           bundle == [included |-> all, budget |-> EffectiveBudget(ask), truncated |-> FALSE]
<1>1. /\ ask.step = "routed" /\ ask.request.handles = <<>>
      /\ Answer(bundle, all, Nowhere, {}, <<>>, Freshness(ask.request), unparsed)
  BY DEF PassThrough
<1>2. bundle.budget = EffectiveBudget(ask)
  OBVIOUS
<1> HIDE DEF bundle, all
<1> QED
  BY <1>1, <1>2, AnswerKeeps

\* retrieval, which replaces the graph of the tree but not its chunks,
LEMMA RetrieveKeeps ==
    ASSUME NEW bm25, NEW vector, NEW splade, NEW rareTerms, NEW clear, BudgetInv,
           Retrieve(bm25, vector, splade, rareTerms, clear)
    PROVE  BudgetInv'
<1> DEFINE searched == SearchGraph(ask.tree, ask.request.cached)
           hits == Fuse(IF ask.request.bm25 THEN WithBoosts(ask.tree, bm25) ELSE <<>>, vector, splade, rareTerms, clear)
           tree == [ask.tree EXCEPT !.graph = searched]
<1>1. /\ ask.step = "routed" /\ ask.request.handles = <<>>
      /\ ask' = [step |-> "retrieved", request |-> ask.request, route |-> ask.route, tree |-> tree, hits |-> hits]
  BY DEF Retrieve
<1>2. RoutedAs(ask)
  BY <1>1 DEF BudgetInv
<1>3. tree.chunks = ask.tree.chunks /\ "chunks" \in DOMAIN tree
  <2> HIDE DEF searched
  <2> QED
    BY <1>2 DEF RoutedAs
<1> HIDE DEF searched, hits, tree
<1>4. /\ ask'.step = "retrieved" /\ ask'.tree = tree /\ ask'.request = ask.request /\ ask'.route = ask.route
      /\ {"step", "tree", "request", "route"} \subseteq DOMAIN ask'
  BY <1>1
<1>5. TreeTokens(tree) = TreeTokens(ask.tree)
  BY <1>3 DEF TreeTokens
<1>6. RoutedAs(ask')
  BY <1>2, <1>3, <1>4, <1>5 DEF RoutedAs
<1> QED
  BY <1>1, <1>4, <1>6 DEF BudgetInv, Answered

\* an empty answer
LEMMA ReturnNothingKeeps ==
    ASSUME NEW unparsed, BudgetInv, ReturnNothing(unparsed)
    PROVE  BudgetInv'
<1> DEFINE bundle == [included |-> <<>>, budget |-> EffectiveBudget(ask), truncated |-> FALSE]
<1>1. /\ ask.step = "retrieved"
      /\ Answer(bundle, <<>>, Nowhere, {}, <<>>, Freshness(ask.request), unparsed)
  BY DEF ReturnNothing
<1>2. bundle.budget = EffectiveBudget(ask) /\ ask.request.handles = <<>>
  BY <1>1 DEF BudgetInv
<1> HIDE DEF bundle
<1> QED
  BY <1>1, <1>2, AnswerKeeps

\* and a packed one.
LEMMA PackedKeeps ==
    ASSUME NEW added, NEW kept, NEW included, NEW unparsed, BudgetInv, ask.step = "retrieved",
           AnswerPacked(added, kept, included, unparsed)
    PROVE  BudgetInv'
<1> DEFINE skipped == SkippedCandidates(kept, included, EffectiveBudget(ask))
           bundle == [included |-> included, budget |-> EffectiveBudget(ask), truncated |-> Len(included) < Len(kept)]
           reach == [seeds |-> SeedOrder(ask.hits), expanded |-> added]
<1>1. Answer(bundle, kept, reach, OmittedEdges(ask.tree.graph, FilesIn(included), skipped), skipped,
             Freshness(ask.request), unparsed)
  BY DEF AnswerPacked
<1>2. bundle.budget = EffectiveBudget(ask) /\ ask.request.handles = <<>>
  BY DEF BudgetInv
<1> HIDE DEF bundle, skipped, reach
<1> QED
  BY <1>1, <1>2, AnswerKeeps

\* Assembly packs something.
LEMMA AssembleKeeps ==
    ASSUME NEW reached, NEW order, NEW unparsed, BudgetInv, Assemble(reached, order, unparsed)
    PROVE  BudgetInv'
<1>1. /\ ask.step = "retrieved"
      /\ \E added, kept, included : AnswerPacked(added, kept, included, unparsed)
  BY DEF Assemble, AnswerRanked
<1> QED
  BY <1>1, PackedKeeps

\* Filtering a receipt leaves what was asked for.
LEMMA NarrowedReceipt ==
    ASSUME NEW r, "requested" \in DOMAIN r, NEW tokens, NEW returned, NEW total, NEW rows, NEW count
    PROVE  LET s == [r EXCEPT !.consumed = tokens, !.returned = returned, !.returnedTotal = total,
                              !.skipped = rows, !.skippedTotal = count]
           IN  s.requested = r.requested /\ "requested" \in DOMAIN s
  OBVIOUS

\* And an answer keeps its request.
LEMMA NarrowedAnswer ==
    ASSUME NEW a, RoutedAs(a), {"bundle", "receipt"} \subseteq DOMAIN a, NEW kept, NEW receipt
    PROVE  LET b == [a EXCEPT !.step = "returned", !.bundle.included = kept, !.receipt = receipt]
           IN  /\ b.step = "returned" /\ b.tree = a.tree /\ b.request = a.request /\ b.route = a.route
               /\ b.receipt = receipt /\ DOMAIN b = DOMAIN a
  BY DEF RoutedAs

\* Filters take chunks and leave the budget.
LEMMA ReturnKeeps ==
    ASSUME BudgetInv, ReturnContext
    PROVE  BudgetInv'
<1> DEFINE out == SelectSeq(ask.bundle.included, LAMBDA h : FileOf(h) \in ask.request.filtered)
           kept == SelectSeq(ask.bundle.included, LAMBDA h : FileOf(h) \notin ask.request.filtered)
           rows == [i \in DOMAIN out |-> [file |-> FileOf(out[i]), chunk |-> out[i].chunk.id,
                                          reason |-> "filter_excluded"]]
           rest == ask.receipt.skipped \o rows
           narrowed == [ask.receipt EXCEPT !.consumed = Tokens(kept),
                                           !.returned = {c.id : c \in ChunksIn(kept)},
                                           !.returnedTotal = Len(kept),
                                           !.skipped = rest, !.skippedTotal = Len(rest)]
<1>1. ask.step = "answered" /\ RoutedAs(ask) /\ PackedFor(ask)
  BY DEF ReturnContext, BudgetInv, Answered
<1>2. \/ ask' = [ask EXCEPT !.step = "returned"]
      \/ ask' = [ask EXCEPT !.step = "returned", !.bundle.included = kept, !.receipt = narrowed]
  BY Zenon DEF ReturnContext
<1>3. narrowed.requested = ask.receipt.requested /\ "requested" \in DOMAIN narrowed
  <2>1. "requested" \in DOMAIN ask.receipt
    BY <1>1 DEF PackedFor
  <2> HIDE DEF kept, rest
  <2> QED
    BY <2>1, NarrowedReceipt
<1> HIDE DEF narrowed, kept
<1>4. /\ ask'.step = "returned" /\ ask'.tree = ask.tree /\ ask'.request = ask.request /\ ask'.route = ask.route
      /\ DOMAIN ask' = DOMAIN ask
      /\ ask'.receipt.requested = ask.receipt.requested /\ "requested" \in DOMAIN ask'.receipt
  <2>1. CASE ask' = [ask EXCEPT !.step = "returned"]
    BY <1>1, <2>1 DEF RoutedAs, PackedFor
  <2>2. CASE ask' = [ask EXCEPT !.step = "returned", !.bundle.included = kept, !.receipt = narrowed]
    <3>1. {"bundle", "receipt"} \subseteq DOMAIN ask
      BY <1>1 DEF PackedFor
    <3>2. /\ ask'.step = "returned" /\ ask'.tree = ask.tree /\ ask'.request = ask.request
          /\ ask'.route = ask.route /\ ask'.receipt = narrowed /\ DOMAIN ask' = DOMAIN ask
      BY <1>1, <2>2, <3>1, NarrowedAnswer
    <3> QED
      BY <1>3, <3>2
  <2> QED
    BY <1>2, <2>1, <2>2
<1>5. RoutedAs(ask')
  BY <1>1, <1>4 DEF RoutedAs
<1>6. EffectiveBudget(ask') = EffectiveBudget(ask)
  BY <1>4 DEF EffectiveBudget, BudgetFor
<1>7. PackedFor(ask')
  BY <1>1, <1>4, <1>6 DEF PackedFor
<1> QED
  BY <1>4, <1>5, <1>7 DEF BudgetInv, Answered

\* Every step of a request keeps BudgetInv.
LEMMA BudgetInvNext ==
    ASSUME BudgetInv, [ContextNext]_ask
    PROVE  BudgetInv'
<1>1. CASE UNCHANGED ask
  BY <1>1 DEF BudgetInv, Answered
<1>2. CASE \E tree \in ContextTrees, r \in Requests : AskContext(tree, r)
  BY <1>2, AskKeeps
<1>3. CASE \E unparsed \in BOOLEAN : FetchHandles(unparsed) \/ PassThrough(unparsed) \/ ReturnNothing(unparsed)
  BY <1>3, FetchKeeps, PassThroughKeeps, ReturnNothingKeeps
<1>4. CASE \E bm25, vector, splade, rareTerms, clear : Retrieve(bm25, vector, splade, rareTerms, clear)
  BY <1>4, RetrieveKeeps
<1>5. CASE \E reached, order, unparsed : Assemble(reached, order, unparsed)
  BY <1>5, AssembleKeeps
<1>6. CASE ReturnContext
  BY <1>6, ReturnKeeps
<1>7. ContextNext => \/ \E tree \in ContextTrees, r \in Requests : AskContext(tree, r)
                     \/ \E unparsed \in BOOLEAN :
                            FetchHandles(unparsed) \/ PassThrough(unparsed) \/ ReturnNothing(unparsed)
                     \/ \E bm25, vector, splade, rareTerms, clear : Retrieve(bm25, vector, splade, rareTerms, clear)
                     \/ \E reached, order, unparsed : Assemble(reached, order, unparsed)
                     \/ ReturnContext
  BY DEF ContextNext
<1> QED
  BY <1>1, <1>2, <1>3, <1>4, <1>5, <1>6, <1>7

\* BudgetInv says what a bundle was packed for, and that is fair.
LEMMA BudgetInvFair == BudgetInv => BudgetFollowsRequest
<1> SUFFICES ASSUME BudgetInv, Answered PROVE BudgetFollowsRequest
  BY DEF BudgetFollowsRequest, MoreForMore
<1> DEFINE intent == IF ask.route.explicit THEN NONE ELSE IntentBudget[ask.request.about]
           total == TreeTokens(ask.tree)
           asked == ask.route.budget
<1>1. /\ total \in Nat /\ asked \in Nat /\ ask.request \in Requests
      /\ ask.receipt.requested = IF ask.request.handles # <<>> THEN asked ELSE EffectiveBudget(ask)
  BY DEF BudgetInv, Answered, RoutedAs, PackedFor
<1>2. intent = NONE \/ intent \in Nat
  BY <1>1, ContextAssumption
<1>3. \A b : BudgetFor(ask, b) = DynamicBudget(total, b, intent)
  BY DEF BudgetFor
<1>4. EffectiveBudget(ask) = DynamicBudget(total, asked, intent)
  BY <1>3 DEF EffectiveBudget
<1> HIDE DEF intent, total, asked
<1>5. 2 * ask.receipt.requested <= 3 * asked
  <2>1. CASE ask.request.handles # <<>>
    BY <1>1, <2>1
  <2>2. CASE ask.request.handles = <<>>
    <3>1. 2 * DynamicBudget(total, asked, intent) <= 3 * asked
      BY <1>1, <1>2, BudgetIsFair
    <3> QED
      BY <1>1, <1>4, <2>2, <3>1
  <2> QED
    BY <2>1, <2>2
<1>6. ASSUME NEW more \in asked .. total, ask.request.handles = <<>>
      PROVE  BudgetFor(ask, more) >= ask.receipt.requested
  <2>1. more \in Nat /\ asked <= more
    BY <1>1
  <2>2. /\ DynamicBudget(total, asked, intent) \in Nat
        /\ DynamicBudget(total, asked, intent) <= DynamicBudget(total, more, intent)
    BY <1>1, <1>2, <2>1, BudgetIsFair
  <2>3. DynamicBudget(total, more, intent) \in Nat
    BY <1>1, <1>2, <2>1, BudgetIsFair
  <2> QED
    BY <1>1, <1>3, <1>4, <1>6, <2>2, <2>3
<1> QED
  BY <1>5, <1>6 DEF BudgetFollowsRequest, MoreForMore, asked, total

\* The budget a bundle is packed for, on every route: at most half as much again
\* as was asked for, and never less for asking more, for all numbers (api.py
\* _compute_dynamic_budget, receipt.py build_context_receipt).
THEOREM BudgetsAreFair == ContextSpec => []BudgetFollowsRequest
<1>1. ContextInit => BudgetInv
  BY BudgetInvInit
<1>2. BudgetInv /\ [ContextNext]_ask => BudgetInv'
  BY BudgetInvNext
<1>3. BudgetInv => BudgetFollowsRequest
  BY BudgetInvFair
<1> QED
  BY <1>1, <1>2, <1>3, PTL DEF ContextSpec

=============================================================================
