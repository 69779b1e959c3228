---------------------------- MODULE SourceIngest ----------------------------
(***************************************************************************)
(* From discovered files to stored chunks (parse/symbols.py,               *)
(* pipeline/service.py, api._full_index): files are parsed in sequence or  *)
(* by a pool of worker processes, their bytes are read a second time, cut  *)
(* into chunks and inserted.  The working tree may change in between.      *)
(*                                                                         *)
(* A file is [path, language, parses, lines, tree, ranges, symbols,        *)
(* imports]; its symbols are what the adapter of its language finds in its *)
(* tree, the target of an import is the discovered file it resolves to.    *)
(***************************************************************************)
EXTENDS Chunking, LanguageSymbols, ImportResolution

CONSTANTS
    Checkouts,          \* sequences of discovered files
    ParallelAbove,      \* the pool is used for more files than this
    IngestOptions       \* parallel, strict, chunker

VARIABLE ingest

NoIngest == [step |-> "idle"]

IngestIdle == ingest = NoIngest

\* Files without an adapter are parsed only when their language is unknown.
Eligible(files) == SelectSeq(files, LAMBDA f : f.parses # "no adapter")

Discover ==
    /\ ingest = NoIngest
    /\ \E files \in Checkouts, options \in IngestOptions :
        ingest' = [step |-> "discovered", paths |-> [i \in DOMAIN files |-> files[i].path],
                   files |-> Eligible(files), options |-> options, parsed |-> <<>>, moved |-> {}, chunks |-> <<>>]

\* What the adapter finds, with every import resolved against the discovered files.
Extracted(f) ==
    LET resolved(i) == [f.imports[i] EXCEPT !.target = ResolveImport(ingest.paths, f.path, f.language, f.imports[i])]
    IN  [f EXCEPT !.symbols = AdapterSymbols(f.language, f.tree), !.imports = [i \in DOMAIN f.imports |-> resolved(i)]]

Parsed(files) ==
    ingest' = [ingest EXCEPT !.step = "parsed", !.parsed = [i \in DOMAIN files |-> Extracted(files[i])]]
Raised == ingest' = [ingest EXCEPT !.step = "raised"]

\* The files that were discovered count, not those that are parsed.
Pooled == ingest.options.parallel /\ Len(ingest.paths) > ParallelAbove

Parses(files, outcomes) == SelectSeq(files, LAMBDA f : f.parses \in outcomes)

\* In sequence a file that cannot be parsed is passed over, unless that is every
\* file or the caller is strict; what is no parse error ends the call at once.
ParseSequential ==
    LET files == ingest.files
        errors == Parses(files, {"parse error"})
    IN  IF Parses(files, {"fault"}) # <<>> THEN Raised
        ELSE IF errors # <<>> /\ (ingest.options.strict \/ errors = files) THEN Raised
        ELSE Parsed(Parses(files, {"yes", "plugin"}))

\* What the workers parse: a process that did not inherit the registry has no
\* adapter that was registered from an entry point, and answers with nothing.
PoolResults(files, lost, inherited) ==
    SelectSeq(Parses(files, IF inherited THEN {"yes", "plugin"} ELSE {"yes"}), LAMBDA f : f \notin lost)

PoolErrors(files, lost) == SelectSeq(files, LAMBDA f : f.parses \in {"parse error", "fault"} \/ f \in lost)

\* In the pool whatever a worker raises is an error of its file; lost: the files
\* whose worker, or with it the whole pool, died before the result was there.
ParseInPool(lost, inherited) ==
    LET errors == PoolErrors(ingest.files, lost)
    IN  IF errors # <<>> /\ (ingest.options.strict \/ errors = ingest.files) THEN Raised
        ELSE Parsed(PoolResults(ingest.files, lost, inherited))

Parse ==
    /\ ingest.step = "discovered"
    /\ \/ ~Pooled /\ ParseSequential
       \/ Pooled /\ \E lost \in SUBSET ToSet(ingest.files), inherited \in BOOLEAN : ParseInPool(lost, inherited)

\* The pool itself cannot be started.
PoolFails ==
    /\ ingest.step = "discovered" /\ Pooled
    /\ IF ingest.options.strict THEN Raised ELSE ParseSequential

\* A file goes away after it was parsed: reading it again fails, which is passed
\* over, also for a strict caller.
FileVanishes ==
    /\ ingest.step = "parsed"
    /\ \E f \in ToSet(ingest.parsed) : ingest' = [ingest EXCEPT !.moved = @ \cup {f.path}]

\* chunk_files: a file whose bytes are missing has no lines, hence no chunks.
ChunkFiles ==
    LET rows(f) == IF f.path \in ingest.moved THEN <<>> ELSE ChunkFile(ingest.options.chunker, f)
    IN  /\ ingest.step = "parsed"
        /\ ingest' = [ingest EXCEPT
                !.step = "done",
                !.chunks = FlattenSeq([i \in DOMAIN ingest.parsed |-> rows(ingest.parsed[i])])]

IngestNext == Discover \/ Parse \/ PoolFails \/ FileVanishes \/ ChunkFiles

---------------------------------------------------------------------------
(* Properties.                                                             *)

ChunksOfFile(f) == {c \in ToSet(ingest.chunks) : c.path = f.path}

\* The lines with text; without symbols the cast chunker keeps only what the
\* structural ranges hold, if there are any.
KeptLines(f) ==
    LET ranged == ingest.options.chunker = "cast" /\ f.symbols = <<>> /\ f.ranges # <<>>
    IN  {n \in DOMAIN f.lines : f.lines[n] > 0
            /\ (ranged => \E r \in ToSet(f.ranges) : n \in r.start..r.end)}

\* Every line with text is in a chunk of its file, and the cast chunker puts it
\* in one only, however symbols nest, overlap or are split and merged; and what a
\* strict caller gets holds every eligible file, also when the pool or a worker
\* dies.  The exceptions are a file that goes away between its two reads and one
\* whose adapter no worker knows (chunker.py chunk_file, symbols.py
\* extract_symbols_and_imports).
EveryLineIsIndexed ==
    ingest.step = "done" =>
        /\ ingest.options.strict =>
                \A f \in ToSet(ingest.files) : f.parses = "plugin" \/ \E p \in ToSet(ingest.parsed) : p.path = f.path
        /\ \A f \in ToSet(ingest.parsed) : f.path \notin ingest.moved =>
                \A n \in KeptLines(f) :
                    LET holding == {c \in ChunksOfFile(f) : n \in ToSet(c.content)}
                    IN  holding # {} /\ (ingest.options.chunker = "cast" => Cardinality(holding) = 1)

\* The id of a chunk is its file, name and first line (tests/index/test_chunker.py
\* test_chunk_ids_are_unique); the store keeps one row for an id.
ChunkIdsUnique ==
    ingest.step = "done" =>
        \A i, j \in DOMAIN ingest.chunks :
            LET c == ingest.chunks[i]
                d == ingest.chunks[j]
            IN  i # j => <<c.path, c.name, c.start>> # <<d.path, d.name, d.start>>

\* Every node of a tree, at any depth.
RECURSIVE AllNodes(_)
AllNodes(nodes) == UNION {{n} \cup AllNodes(n.members) : n \in ToSet(nodes)}

FoundAs(f, node, visibility) ==
    \E s \in ToSet(f.symbols) :
        s.start = node.start /\ s.end = node.end /\ s.name = Last(node.name) /\ s.visibility = visibility

\* The last specifier before the i-th member of a class, or what its kind says.
CppWritten(class, nodes, i) ==
    LET before == OfType(SubSeq(nodes, 1, i - 1), {"access_specifier"})
    IN  IF before # <<>> THEN AccessOf[Last(before).name[1]]
        ELSE IF class.type = "struct_specifier" THEN "public" ELSE "private"

\* The last marker after the i-th member that names it, or else the last bare one before.
RubyWritten(nodes, i) ==
    LET markers(js) == OfType(js, {"marker"})
        bare == SelectSeq(markers(SubSeq(nodes, 1, i - 1)), LAMBDA m : m.members = <<>>)
        naming == SelectSeq(markers(SubSeq(nodes, i + 1, Len(nodes))),
                            LAMBDA m : \E x \in ToSet(m.members) : x.type = "symbol" /\ x.name = nodes[i].name)
    IN  IF naming # <<>> THEN AccessOf[Last(naming).name[1]]
        ELSE IF bare # <<>> THEN AccessOf[Last(bare).name[1]] ELSE "public"

\* A definition among the arguments of a later marker has the name in its body.
MentionedLater(nodes, i) ==
    \E m \in ToSet(OfType(SubSeq(nodes, i + 1, Len(nodes)), {"marker"})) :
        \E d \in ToSet(MethodArguments(m.members)) : nodes[i].name[1] \in SymbolArguments(d.members)

RubyMethodIn(f, body, i) ==
    f.language = "ruby" /\ body.type \in {"class", "module"} /\ body.members[i].type = "method"

\* A specifier or marker says how visible the methods of its own body are, those
\* of no type inside or after it, through preprocessor branches, templates,
\* reopened classes and names listed later (cpp.py _extract_scope_members,
\* ruby.py: the visibility that is carried from member to member).  A Ruby method
\* whose name a later marker's own definition mentions is left to
\* EarlierStaysVisible.
VisibleAsWritten ==
    ingest.step = "parsed" =>
        \A f \in ToSet(ingest.parsed) : \A body \in AllNodes(f.tree) :
            LET nodes == IF f.language = "cpp" THEN CppFlattened(body.members) ELSE body.members
            IN  \A i \in DOMAIN nodes :
                    /\ f.language = "cpp" /\ body.type \in DOMAIN CppTypes /\ nodes[i].type = "function_definition" =>
                            FoundAs(f, nodes[i], CppWritten(body, nodes, i))
                    /\ RubyMethodIn(f, body, i) /\ ~ MentionedLater(nodes, i) =>
                            FoundAs(f, nodes[i], RubyWritten(nodes, i))

\* A method no marker names or governs is public: one "declared before the
\* `private` marker" stays so (tests/parse/adapters/test_ruby.py).  It does not
\* hold: a marker with a definition takes every symbol and string in the body of
\* that for a name (ruby.py _symbol_argument_names).
EarlierStaysVisible ==
    ingest.step = "parsed" =>
        \A f \in ToSet(ingest.parsed) : \A body \in AllNodes(f.tree) : \A i \in DOMAIN body.members :
            RubyMethodIn(f, body, i) => FoundAs(f, body.members[i], RubyWritten(body.members, i))

\* The module keys of a file: its path, and that without a source prefix.
Keys(p) ==
    {ModuleKey(p.dir, p)} \cup
    (IF p.dir # <<>> /\ p.dir[1] \in SourcePrefixes THEN {ModuleKey(Tail(p.dir), p)} ELSE {})

\* The discovered files that are what the import says, by the rules of its
\* language: the module of that name, the class of that package, that path.
Named(from, language, imp) ==
    LET paths == ToSet(ingest.paths)
        package == Up(from.dir, imp.up - 1)
        classes(exts) == {p \in paths : p.ext \in exts /\ p.stem = Last(imp.parts) /\ IsSuffix(Front(imp.parts), p.dir)}
        written(ext) == {p \in paths : p = PathAt(Joined(from.dir, imp), ext)}
    IN  CASE language = "python" /\ imp.relative ->
                {p \in paths : p.ext = ".py" /\ ModuleKey(p.dir, p) = package \o imp.parts}
          [] language = "python" -> {p \in paths : p.ext = ".py" /\ imp.parts \in Keys(p)}
          [] language = "java" -> classes({".java"})
          [] language = "kotlin" -> classes({".kt", ".java"})
          [] language = "php" -> classes({".php"})
          [] language = "csharp" -> {p \in paths : p.ext = ".cs" /\ IsSuffix(imp.parts, p.dir)}
          [] language = "typescript" /\ imp.relative -> written(IF imp.ext = NONE THEN ".ts" ELSE imp.ext)
          [] language = "ruby" /\ imp.relative -> written(".rb")
          [] language = "c" /\ imp.relative -> written(imp.ext)
          [] OTHER -> {}

\* A file that is no Python module has its key, as config.yaml has that of config.py.
KeyIsShared(imp) == \E p \in ToSet(ingest.paths) : p.ext # ".py" /\ imp.parts \in Keys(p)

\* An import that says which one file it means leads to that file, whatever other
\* files have its name, part of its package or part of its path (imports.py
\* build_file_map, the resolve_import of the adapters).  A Python module that
\* shares its key with a file of another kind is left to ModuleIsThePythonFile.
ImportsMeetTheirFile ==
    ingest.step = "parsed" =>
        \A f \in ToSet(ingest.parsed) : \A imp \in ToSet(f.imports) :
            LET named == Named(f.path, f.language, imp)
            IN  /\ Cardinality(named) = 1
                /\ f.language = "python" /\ ~ imp.relative => ~ KeyIsShared(imp)
                => imp.target \in named

\* The import of a Python module leads to the file of it, as build_file_map has it:
\* "services/auth.py" is what "services.auth" means.  It does not hold: keys carry
\* no extension, and the file that is listed last has the key.
ModuleIsThePythonFile ==
    ingest.step = "parsed" =>
        \A f \in ToSet(ingest.parsed) : \A imp \in ToSet(f.imports) :
            LET named == Named(f.path, f.language, imp)
            IN  f.language = "python" /\ Cardinality(named) = 1 => imp.target \in named

\* The module of a Swift import or the package of a Go import is a file of that
\* language (swift.py _resolve_swift_import, go.py _resolve_go_import).
TargetIsOfLanguage ==
    ingest.step = "parsed" =>
        \A f \in ToSet(ingest.parsed) : \A imp \in ToSet(f.imports) :
            f.language \in {"go", "swift"} /\ imp.target # NONE => imp.target.ext = f.path.ext

=============================================================================
